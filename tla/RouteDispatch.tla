---------------------------- MODULE RouteDispatch ----------------------------
(***************************************************************************)
(* How a connection thread of the HTTP server finds the handler of a       *)
(* request (src/middleware/communication/api_server.cpp).                  *)
(*                                                                         *)
(* A path is the sequence of its segments after /api/v1; in a route a      *)
(* segment may be a parameter, written Param.  The routes are kept in an   *)
(* unordered_map, so the loops below meet them in an order that neither    *)
(* the registrations nor the language fix: any route that a loop accepts   *)
(* may be the first one it accepts.                                        *)
(***************************************************************************)
EXTENDS Naturals, Sequences

CONSTANTS
    Routes,     \* Impl::routes: methods and paths
    Anywhere,   \* routes whose handler looks for its last word anywhere in the rest
    Requests,   \* requests a client may send
    Param,      \* a {parameter}
    None

(* The segment after a final slash. *)
Blank == ""

(* The position of the first '{' of a route. *)
IsBrace(p, k) == k \in 1..Len(p) /\ p[k] = Param /\ \A i \in 1..(k - 1) : p[i] # Param

HasBrace(r) == \E k \in 1..Len(r.path) : r.path[k] = Param

(* pattern_has_slash: the route goes on after its first parameter. *)
GoesOn(r) == \E k \in 1..(Len(r.path) - 1) : r.path[k] = Param

(* What main.cpp registers: below the part of a route before its first parameter,
   if the route goes on, the other routes with parameters are one segment long. *)
ASSUME RouteAssumption ==
    /\ Routes \subseteq [method : STRING, path : Seq(STRING \cup {Param})]
    /\ Requests \subseteq [method : STRING, path : Seq(STRING)]
    /\ Anywhere \subseteq Routes
    /\ Param \notin STRING
    /\ None \notin Routes
    /\ \A r, s \in Routes : \A k \in 1..Len(s.path) :
          /\ r # s /\ r.method = s.method /\ HasBrace(r)
          /\ GoesOn(s) /\ IsBrace(s.path, k)
          /\ Len(r.path) >= k /\ \A i \in 1..(k - 1) : r.path[i] \in {s.path[i], Param}
          => Len(r.path) = k

VARIABLES
    req,        \* the request
    phase,      \* where handle_connection is
    answer      \* the route whose handler is called, None if there is none

routeVars == <<req, phase, answer>>

(* The test of the first loop: no parameter and the same path. *)
ExactMatch(r, q) == r.method = q.method /\ ~HasBrace(r) /\ r.path = q.path

(* Mutant: slashes in the suffix rejected whatever the route is. *)
MutPatternMatch(r, q) ==
    /\ r.method = q.method
    /\ \E k \in 1..Len(r.path) :
          /\ IsBrace(r.path, k)
          /\ Len(q.path) = k
          /\ q.path[k] # Blank
          /\ \A i \in 1..(k - 1) : q.path[i] = r.path[i]

(* The test of the second loop: the request starts with what the route has
   before its first parameter and goes on, by one segment, or by any number if
   the route has a slash after the parameter; a suffix that is empty is none.
   What follows the parameter in the route is not compared. *)
PatternMatch(r, q) ==
    /\ r.method = q.method
    /\ \E k \in 1..Len(r.path) :
          /\ IsBrace(r.path, k)
          /\ Len(q.path) >= k
          /\ \A i \in 1..(k - 1) : q.path[i] = r.path[i]
          /\ GoesOn(r) \/ Len(q.path) = k
          /\ Len(q.path) > k \/ q.path[k] # Blank

(* Mutant: handlers that trust the dispatcher. *)
MutAccepts(r, q) == TRUE

(* The handlers of the routes that go on look at the path again, and answer 404
   if it is not theirs: it must end with the last word of the route, or have it
   somewhere after the parameter, or, if the route ends with a parameter, have
   one more segment at least. *)
Accepts(r, q) ==
    \A k \in 1..(Len(r.path) - 1) : IsBrace(r.path, k) =>
       LET last == r.path[Len(r.path)] IN
       \/ last = Param /\ Len(q.path) > k
       \/ last # Param /\ r \in Anywhere /\ \E i \in (k + 1)..Len(q.path) : q.path[i] = last
       \/ last # Param /\ r \notin Anywhere /\ q.path[Len(q.path)] = last

-----------------------------------------------------------------------------
(* handle_connection *)

Init == req \in Requests /\ phase = "read" /\ answer = None

(* recv fails or times out before the request is complete. *)
Abort ==
    /\ phase = "read"
    /\ phase' = "closed"
    /\ UNCHANGED <<req, answer>>

(* A preflight request is answered without looking at the routes. *)
Preflight ==
    /\ phase = "read"
    /\ req.method = "OPTIONS"
    /\ phase' = "closed"
    /\ UNCHANGED <<req, answer>>

ExactPhase ==
    /\ phase = "read"
    /\ req.method # "OPTIONS"
    /\ \/ \E r \in Routes : ExactMatch(r, req) /\ answer' = r /\ phase' = "matched"
       \/ /\ \A r \in Routes : ~ExactMatch(r, req)
          /\ phase' = "pattern"
          /\ UNCHANGED answer
    /\ UNCHANGED req

PatternPhase ==
    /\ phase = "pattern"
    /\ \/ \E r \in Routes : PatternMatch(r, req) /\ answer' = r /\ phase' = "matched"
       \/ /\ \A r \in Routes : ~PatternMatch(r, req)
          /\ phase' = "not found"
          /\ UNCHANGED answer
    /\ UNCHANGED req

(* The handler does what its route is for, or refuses with 404. *)
Handle ==
    /\ phase = "matched"
    /\ phase' = IF Accepts(answer, req) THEN "handled" ELSE "refused"
    /\ UNCHANGED <<req, answer>>

(* The response is sent and the connection closed. *)
Respond ==
    /\ phase \in {"not found", "handled", "refused"}
    /\ phase' = "closed"
    /\ UNCHANGED <<req, answer>>

Done == phase = "closed" /\ UNCHANGED routeVars

Next == Abort \/ Preflight \/ ExactPhase \/ PatternPhase \/ Handle \/ Respond \/ Done

RouteSpec == Init /\ [][Next]_routeVars

-----------------------------------------------------------------------------
(* Properties *)

(* What a route means: segment by segment, anything for a parameter but nothing. *)
Fits(r, q) ==
    /\ r.method = q.method
    /\ Len(r.path) = Len(q.path)
    /\ \A i \in 1..Len(r.path) :
          IF r.path[i] = Param THEN q.path[i] # Blank ELSE r.path[i] = q.path[i]

(* A request that fits a route gets to a handler, and to the one of the fixed
   path if there is one, although the loops compare only what comes before the
   first parameter and meet the routes in any order. *)
FindsHandler ==
    \A r \in Routes : Fits(r, req) =>
       /\ phase # "not found"
       /\ phase = "matched" /\ ~HasBrace(r) => answer = r

(* It may be the wrong one: GET /tenants/{id} also starts like
   GET /tenants/{id}/devices.  But a handler whose route the request does not
   fit does nothing for it, unless the last parameter is the very word it looks
   for (a tenant called devices). *)
WrongHandlerRefuses ==
    phase = "handled" =>
       \A r \in Routes : Fits(r, req) =>
          \/ Fits(answer, req)
          \/ req.path[Len(req.path)] = answer.path[Len(answer.path)]

(* What the comments at main.cpp:2303 and 2327 say of the two PUT routes below
   accounts, "registered BEFORE /accounts/{id} to avoid prefix conflict": a
   request that fits a route is handled by it. *)
NoPrefixConflict ==
    phase \in {"handled", "refused"} =>
       \A r \in Routes : Fits(r, req) => phase = "handled" /\ Fits(answer, req)

=============================================================================
