---------------------------- MODULE ServiceProofs ----------------------------
(***************************************************************************)
(* The life of the service process, for any number of handler threads and  *)
(* any topics; and how what arrives finds its handler, for every table of  *)
(* routes, every request, and every id of a device, tenant or command.     *)
(***************************************************************************)
EXTENDS Service, Dispatch, SequenceTheorems, WellFoundedInduction, TLAPS

-----------------------------------------------------------------------------
(* The process *)

\* Every step of main keeps OnlineInv.
LEMMA MainKeepsOnline ==
    ASSUME OnlineInv, MainStep
    PROVE  OnlineInv'
<1> USE DEF OnlineInv, Online, At, mqttVars, apiVars
<1>1. CASE OpenDb \/ ApiStart \/ Announce
  BY <1>1 DEF OpenDb, ApiStart, Announce
<1>2. CASE ConnectBegin \/ ConnectWait \/ ConnectEnd
  BY <1>2 DEF ConnectBegin, ConnectWait, ConnectEnd
<1>3. CASE SubscribeOne \/ LoopExit
  BY <1>3 DEF SubscribeOne, LoopExit
<1>4. CASE StopFlag \/ CloseListener \/ JoinAcceptor \/ Farewell
  BY <1>4 DEF StopFlag, CloseListener, JoinAcceptor, Farewell
<1>5. CASE Disconnect \/ ResetClient
  BY <1>5 DEF Disconnect, ResetClient
<1>6. CASE CloseDb \/ Destroy
  BY <1>6 DEF CloseDb, Destroy
<1> QED
  BY <1>1, <1>2, <1>3, <1>4, <1>5, <1>6 DEF MainStep

\* Every step of the process keeps OnlineInv.
LEMMA ServiceKeepsOnline ==
    ASSUME OnlineInv, [ServiceNext]_serviceVars
    PROVE  OnlineInv'
<1>1. CASE MainStep
  BY <1>1, MainKeepsOnline
<1> USE DEF OnlineInv, Online, mainVars, mqttVars, apiVars
<1>2. CASE SyncStatus \/ Signal
  BY <1>2 DEF SyncStatus, Signal
<1>3. CASE AcceptorStep \/ HandlerEnds
  BY <1>3 DEF AcceptorStep, AcceptTest, AcceptReturns, AcceptFails, HandlerEnds
<1>4. CASE HandlerThrows
  BY <1>4 DEF HandlerThrows
<1>5. CASE MessageArrives \/ CallbackEnds
  BY <1>5 DEF MessageArrives, CallbackEnds
<1>6. CASE LinkDrops \/ ConnectionLost \/ Reconnect
  BY <1>6 DEF LinkDrops, ConnectionLost, Reconnect
<1>7. CASE Ended \/ UNCHANGED serviceVars
  BY <1>7 DEF Ended, serviceVars
<1> QED
  BY <1>1, <1>2, <1>3, <1>4, <1>5, <1>6, <1>7 DEF ServiceNext

\* Whatever the number of topics and of handler threads, and however the
\* connection is lost and restored, no message of the broker is handled
\* with the database closed: main disconnects before it closes it.
THEOREM CallbacksSafe == ServiceSpec => []CallbacksBeforeClose
<1>1. ServiceInit => OnlineInv
  BY DEF ServiceInit, OnlineInv, Online
<1>2. OnlineInv /\ [ServiceNext]_serviceVars => OnlineInv'
  BY ServiceKeepsOnline
<1>3. OnlineInv => CallbacksBeforeClose
  BY DEF OnlineInv, Online, CallbacksBeforeClose
<1> QED
  BY <1>1, <1>2, <1>3, PTL DEF ServiceSpec

-----------------------------------------------------------------------------

-----------------------------------------------------------------------------
(* Requests *)

(* What the program counter says of the answer so far. *)
Progress ==
    /\ req \in Requests
    /\ phase \in {"read", "pattern", "matched", "not found", "handled", "refused", "closed"}
    /\ phase = "pattern" => \A r \in Routes : ~ExactMatch(r, req)
    /\ phase = "not found" => \A r \in Routes : ~ExactMatch(r, req) /\ ~PatternMatch(r, req)
    /\ phase \in {"matched", "handled", "refused"} =>
          /\ answer \in Routes
          /\ \/ ExactMatch(answer, req)
             \/ PatternMatch(answer, req) /\ \A r \in Routes : ~ExactMatch(r, req)
    /\ phase = "handled" => Accepts(answer, req)

(* A route that ends with its first parameter and takes a request fits it. *)
LEMMA ShortRouteFits ==
    ASSUME NEW r \in Routes, NEW q \in Requests, PatternMatch(r, q), ~GoesOn(r)
    PROVE  Fits(r, q)
<1>0. Len(r.path) \in Nat /\ Len(q.path) \in Nat
  BY RouteAssumption
<1>1. PICK k \in 1..Len(r.path) :
         /\ IsBrace(r.path, k)
         /\ Len(q.path) >= k
         /\ \A i \in 1..(k - 1) : q.path[i] = r.path[i]
         /\ GoesOn(r) \/ Len(q.path) = k
         /\ Len(q.path) > k \/ q.path[k] # Blank
  BY DEF PatternMatch
<1>2. Len(r.path) = k
  BY <1>0, <1>1 DEF GoesOn, IsBrace
<1>3. Len(q.path) = k /\ q.path[k] # Blank
  BY <1>0, <1>1
<1>4. \A i \in 1..k : IF r.path[i] = Param THEN q.path[i] # Blank ELSE r.path[i] = q.path[i]
  BY <1>0, <1>1, <1>2, <1>3 DEF IsBrace
<1> QED
  BY <1>2, <1>3, <1>4 DEF Fits, PatternMatch

(* A route without parameters that fits a request has its path. *)
LEMMA LiteralFitIsExact ==
    ASSUME NEW r \in Routes, NEW q \in Requests, Fits(r, q), ~HasBrace(r)
    PROVE  ExactMatch(r, q)
<1>1. r.path \in Seq(STRING \cup {Param}) /\ q.path \in Seq(STRING \cup {Param})
  BY RouteAssumption
<1>2. Len(r.path) = Len(q.path)
  BY DEF Fits
<1>3. \A i \in 1..Len(r.path) : r.path[i] = q.path[i]
  BY DEF Fits, HasBrace
<1>4. r.path = q.path
  BY <1>1, <1>2, <1>3
<1> QED
  BY <1>4 DEF ExactMatch, Fits

(* Two routes that match a request exactly are the same. *)
LEMMA ExactUnique ==
    ASSUME NEW r \in Routes, NEW s \in Routes, NEW q \in Requests,
           ExactMatch(r, q), ExactMatch(s, q)
    PROVE  r = s
<1>1. r \in [method : STRING, path : Seq(STRING \cup {Param})]
  BY RouteAssumption
<1>2. s \in [method : STRING, path : Seq(STRING \cup {Param})]
  BY RouteAssumption
<1> QED
  BY <1>1, <1>2 DEF ExactMatch

(* An exact match fits. *)
LEMMA ExactFits ==
    ASSUME NEW r \in Routes, NEW q \in Requests, ExactMatch(r, q)
    PROVE  Fits(r, q)
  BY DEF ExactMatch, Fits, HasBrace

(* A non-empty set of naturals has a smallest element. *)
LEMMA LeastElement ==
    ASSUME NEW T \in SUBSET Nat, T # {}
    PROVE  \E x \in T : \A y \in T : x <= y
<1>1. PICK x \in T : \A y \in T : ~(<<y, x>> \in OpToRel(<, Nat))
  BY NatLessThanWellFounded, WFMin, Zenon
<1>2. \A y \in T : ~(y < x)
  BY <1>1 DEF OpToRel
<1> QED
  BY <1>2

(* A pattern route that fits a request takes it: the prefix up to its first
   parameter is found. *)
LEMMA FitMatches ==
    ASSUME NEW r \in Routes, NEW q \in Requests, Fits(r, q), HasBrace(r)
    PROVE  PatternMatch(r, q)
<1> DEFINE B == {k \in 1..Len(r.path) : r.path[k] = Param}
<1>1. Len(r.path) \in Nat /\ Len(q.path) \in Nat
  BY RouteAssumption
<1>2. B \in SUBSET Nat /\ B # {}
  BY <1>1 DEF HasBrace
<1>3. PICK k \in B : \A j \in B : k <= j
  BY <1>2, LeastElement
<1>4. IsBrace(r.path, k)
  BY <1>1, <1>3 DEF IsBrace
<1>5. \A i \in 1..(k - 1) : q.path[i] = r.path[i]
  BY <1>1, <1>3, <1>4 DEF Fits, IsBrace
<1>6. Len(q.path) = Len(r.path) /\ k \in 1..Len(r.path) /\ q.path[k] # Blank
  BY <1>3 DEF Fits
<1>7. GoesOn(r) \/ Len(q.path) = k
  BY <1>1, <1>3, <1>6 DEF GoesOn
<1> QED
  BY <1>1, <1>4, <1>5, <1>6, <1>7 DEF PatternMatch, Fits

(* A handler that accepts a request which fits another route only: the request
   ends with the last word of its route. *)
LEMMA AcceptedByWord ==
    ASSUME NEW r \in Routes, NEW s \in Routes, NEW q \in Requests,
           Fits(r, q), HasBrace(r), PatternMatch(s, q), Accepts(s, q), ~Fits(s, q)
    PROVE  q.path[Len(q.path)] = s.path[Len(s.path)]
<1>1. Len(r.path) \in Nat /\ Len(q.path) \in Nat /\ Len(s.path) \in Nat
  BY RouteAssumption
<1>2. GoesOn(s) /\ r # s
  BY ShortRouteFits
<1>3. PICK k \in 1..Len(s.path) :
         /\ IsBrace(s.path, k)
         /\ Len(q.path) >= k
         /\ \A i \in 1..(k - 1) : q.path[i] = s.path[i]
  BY DEF PatternMatch
<1>4. k \in 1..(Len(s.path) - 1)
  BY <1>1, <1>2, <1>3 DEF GoesOn, IsBrace
<1>5. r.method = s.method /\ Len(r.path) = Len(q.path)
  BY DEF Fits, PatternMatch
<1>6. \A i \in 1..(k - 1) : r.path[i] \in {s.path[i], Param}
  BY <1>1, <1>3, <1>5 DEF Fits
<1>7. Len(r.path) = k
  BY <1>2, <1>3, <1>5, <1>6, RouteAssumption
<1>8. Len(q.path) = k
  BY <1>5, <1>7
<1> QED
  BY <1>1, <1>3, <1>4, <1>8 DEF Accepts

(* The first loop. *)
LEMMA ExactStep ==
    ASSUME Progress, ExactPhase
    PROVE  Progress'
<1>1. CASE \E r \in Routes : ExactMatch(r, req) /\ answer' = r /\ phase' = "matched"
  BY <1>1 DEF ExactPhase, Progress
<1>2. CASE /\ \A r \in Routes : ~ExactMatch(r, req)
           /\ phase' = "pattern"
           /\ UNCHANGED answer
  BY <1>2 DEF ExactPhase, Progress
<1> QED
  BY <1>1, <1>2 DEF ExactPhase

(* The second loop. *)
LEMMA PatternStep ==
    ASSUME Progress, PatternPhase
    PROVE  Progress'
<1>1. CASE \E r \in Routes : PatternMatch(r, req) /\ answer' = r /\ phase' = "matched"
  BY <1>1 DEF PatternPhase, Progress
<1>2. CASE /\ \A r \in Routes : ~PatternMatch(r, req)
           /\ phase' = "not found"
           /\ UNCHANGED answer
  BY <1>2 DEF PatternPhase, Progress
<1> QED
  BY <1>1, <1>2 DEF PatternPhase

(* What the phases say is enough for both properties. *)
LEMMA ProgressRoutes == Progress => FindsHandler /\ WrongHandlerRefuses
<1> SUFFICES ASSUME Progress, NEW r \in Routes, Fits(r, req)
             PROVE  /\ phase # "not found"
                    /\ phase = "matched" /\ ~HasBrace(r) => answer = r
                    /\ phase = "handled" =>
                          \/ Fits(answer, req)
                          \/ req.path[Len(req.path)] = answer.path[Len(answer.path)]
  BY DEF FindsHandler, WrongHandlerRefuses
<1>1. req \in Requests
  BY DEF Progress
<1>2. HasBrace(r) => PatternMatch(r, req)
  BY <1>1, FitMatches
<1>3. ~HasBrace(r) => ExactMatch(r, req)
  BY <1>1, LiteralFitIsExact
<1>4. phase # "not found"
  BY <1>2, <1>3 DEF Progress
<1>5. phase = "matched" /\ ~HasBrace(r) => answer = r
  BY <1>1, <1>3, ExactUnique DEF Progress
<1>6. ASSUME phase = "handled", ~Fits(answer, req)
      PROVE  req.path[Len(req.path)] = answer.path[Len(answer.path)]
  <2>1. answer \in Routes /\ Accepts(answer, req)
    BY <1>6 DEF Progress
  <2>2. ~ExactMatch(answer, req)
    BY <1>1, <1>6, <2>1, ExactFits
  <2>3. PatternMatch(answer, req) /\ ~ExactMatch(r, req)
    BY <1>6, <2>2 DEF Progress
  <2>4. HasBrace(r)
    BY <1>3, <2>3
  <2> QED
    BY <1>1, <1>6, <2>1, <2>3, <2>4, AcceptedByWord
<1> QED
  BY <1>4, <1>5, <1>6

(* Whatever the routes are, as long as they keep the shape of the table, and in
   whatever order the loops meet them: a request that fits a route finds a
   handler, the one of the fixed path if there is one, and a handler it does not
   fit does nothing for it, unless it ends with the word that handler looks for
   (handle_connection and the checks of the handlers). *)
THEOREM DispatchCorrect == RouteSpec => [](FindsHandler /\ WrongHandlerRefuses)
<1>1. Init => Progress
  BY DEF Init, Progress
<1>2. Progress /\ [Next]_routeVars => Progress'
  <2> SUFFICES ASSUME Progress, [Next]_routeVars PROVE Progress'
    OBVIOUS
  <2>1. CASE ExactPhase
    BY <2>1, ExactStep
  <2>2. CASE PatternPhase
    BY <2>2, PatternStep
  <2>3. CASE Abort \/ Preflight \/ Respond
    BY <2>3 DEF Abort, Preflight, Respond, Progress
  <2>4. CASE Handle
    <3>1. CASE Accepts(answer, req)
      BY <2>4, <3>1 DEF Handle, Progress
    <3>2. CASE ~Accepts(answer, req)
      BY <2>4, <3>2 DEF Handle, Progress
    <3> QED
      BY <3>1, <3>2
  <2>5. CASE UNCHANGED routeVars
    BY <2>5 DEF routeVars, Progress
  <2> QED
    BY <2>1, <2>2, <2>3, <2>4, <2>5 DEF Next, Done
<1> QED
  BY <1>1, <1>2, ProgressRoutes, PTL DEF RouteSpec

-----------------------------------------------------------------------------
(* Topics *)

(* What the broker may put before a topic. *)
Prefixes == {<<"$T", n>> : n \in Namespaces} \cup {<<>>}

(* The levels a topic may be made of. *)
Literals == {"", "$T", "v1", "default", "heartbeat", "event", "property", "ota", "status",
             "post", "post_reply", "set_reply", "progress", "command", "notify", "set"}
Levels == Literals \cup Ids \cup Namespaces \cup Commands

(* A list in front of a pair and another list, whatever the elements are. *)
LEMMA Joined ==
    ASSUME NEW S, NEW p \in Seq(S), NEW d \in S, NEW v \in S, NEW rest \in Seq(S), Len(rest) >= 1
    PROVE  LET s == p \o <<d, v>> \o rest IN
           /\ s \in Seq(S) /\ Len(s) = Len(p) + 2 + Len(rest)
           /\ \A i \in 1..Len(p) : s[i] = p[i]
           /\ s[Len(p) + 1] = d
           /\ s[Len(p) + 2] = v
           /\ s[Len(p) + 3] = rest[1]
<1>. DEFINE a == p \o <<d, v>>
            s == a \o rest
            n == Len(p)
<1>1. n \in Nat /\ Len(rest) \in Nat
  OBVIOUS
<1>2. <<d, v>> \in Seq(S) /\ Len(<<d, v>>) = 2 /\ <<d, v>>[1] = d /\ <<d, v>>[2] = v
  OBVIOUS
<1>3. a \in Seq(S) /\ Len(a) = n + 2
  BY <1>2, ConcatProperties
<1>4. \A i \in 1..(n + 2) : a[i] = IF i <= n THEN p[i] ELSE <<d, v>>[i - n]
  BY <1>2, ConcatProperties
<1>5. (\A i \in 1..n : a[i] = p[i]) /\ a[n + 1] = d /\ a[n + 2] = v
  BY <1>1, <1>2, <1>4
<1>. HIDE DEF a
<1>6. s \in Seq(S) /\ Len(s) = n + 2 + Len(rest)
  BY <1>3, ConcatProperties
<1>7. \A i \in 1..(n + 2 + Len(rest)) : s[i] = IF i <= n + 2 THEN a[i] ELSE rest[i - (n + 2)]
  BY <1>3, ConcatProperties
<1>. HIDE DEF s, n
<1>8. (\A i \in 1..n : s[i] = p[i]) /\ s[n + 1] = d /\ s[n + 2] = v
  BY <1>1, <1>5, <1>7
<1>9. s[n + 3] = rest[1]
  BY <1>1, <1>7
<1>. QED
  BY <1>6, <1>8, <1>9 DEF s, a, n

(* Short lists. *)
LEMMA ShortLists ==
    ASSUME NEW S, NEW a \in S, NEW b \in S
    PROVE  /\ <<>> \in Seq(S) /\ Len(<<>>) = 0
           /\ <<a>> \in Seq(S) /\ Len(<<a>>) = 1 /\ <<a>>[1] = a
           /\ <<a, b>> \in Seq(S) /\ Len(<<a, b>>) = 2 /\ <<a, b>>[1] = a
OBVIOUS

(* Five levels and at most one more. *)
LEMMA Lengthened ==
    ASSUME NEW S, NEW a \in S, NEW b \in S, NEW c \in S, NEW d \in S, NEW e \in S,
           NEW tail \in Seq(S)
    PROVE  LET s == <<a, b, c, d, e>> \o tail IN
           /\ s \in Seq(S) /\ Len(s) = 5 + Len(tail)
           /\ s[1] = a /\ s[2] = b /\ s[3] = c /\ s[4] = d /\ s[5] = e
           /\ Len(tail) = 1 => s[6] = tail[1]
<1>. DEFINE h == <<a, b, c, d, e>>
            s == h \o tail
<1>1. /\ h \in Seq(S) /\ Len(h) = 5
      /\ h[1] = a /\ h[2] = b /\ h[3] = c /\ h[4] = d /\ h[5] = e
  OBVIOUS
<1>. HIDE DEF h
<1>2. s \in Seq(S) /\ Len(s) = 5 + Len(tail) /\ Len(tail) \in Nat
  <2>1. s \in Seq(S) /\ Len(s) = Len(h) + Len(tail)
    BY <1>1, ConcatProperties, Zenon
  <2>. QED
    BY <1>1, <2>1
<1>3. \A i \in 1..(5 + Len(tail)) : s[i] = IF i <= 5 THEN h[i] ELSE tail[i - 5]
  <2>1. \A i \in 1..(Len(h) + Len(tail)) :
           s[i] = IF i <= Len(h) THEN h[i] ELSE tail[i - Len(h)]
    BY <1>1, ConcatProperties, Zenon
  <2>. QED
    BY <1>1, <2>1, Zenon
<1>. HIDE DEF s
<1>4. s[1] = a /\ s[2] = b /\ s[3] = c /\ s[4] = d /\ s[5] = e
  BY <1>1, <1>2, <1>3
<1>5. Len(tail) = 1 => s[6] = tail[1]
  BY <1>2, <1>3
<1>. QED
  BY <1>2, <1>4, <1>5 DEF s, h

(* The fields of a parsed topic, level by level. *)
LEMMA ParseLevels ==
    ASSUME NEW topic \in Seq(Levels), NEW o \in {0, 2}, Offset(topic) = o, Len(topic) >= o + 3
    PROVE  /\ Parse(topic).valid <=> topic[o + 2] = "v1" /\ topic[o + 1] # "" /\ topic[o + 3] # ""
           /\ Parse(topic).device = topic[o + 1]
           /\ Parse(topic).type = topic[o + 3]
<1>1. ~(Len(topic) < 3) /\ o + 1 <= Len(topic) /\ o + 2 <= Len(topic) /\ o + 3 <= Len(topic)
  OBVIOUS
<1>2. /\ Level(topic, o + 1) = topic[o + 1]
      /\ Level(topic, o + 2) = topic[o + 2]
      /\ Level(topic, o + 3) = topic[o + 3]
  BY <1>1, Zenon DEF Level
<1>. QED
  BY <1>1, <1>2, Zenon DEF Parse

(* What a device may publish below its id and version. *)
LEMMA SubscribedLists ==
    ASSUME NEW rest \in Subscribed
    PROVE  /\ rest \in Seq(Levels) /\ Len(rest) \in Nat /\ Len(rest) >= 1
           /\ rest[1] # ""
<1>1. PICK a \in HandlerTypes, b \in {"post", "post_reply", "set_reply", "progress"} :
         rest = <<a>> \/ rest = <<a, b>>
  BY Zenon DEF Subscribed, HandlerTypes
<1>2. a \in Levels /\ b \in Levels /\ a # ""
  BY DEF HandlerTypes, Levels, Literals
<1>3. rest \in Seq(Levels) /\ Len(rest) \in {1, 2} /\ rest[1] = a
  <2>1. /\ <<a>> \in Seq(Levels) /\ Len(<<a>>) = 1 /\ <<a>>[1] = a
        /\ <<a, b>> \in Seq(Levels) /\ Len(<<a, b>>) = 2 /\ <<a, b>>[1] = a
    BY <1>2, ShortLists, Zenon
  <2>2. CASE rest = <<a>>
    BY <2>1, <2>2, Zenon
  <2>3. CASE rest = <<a, b>>
    BY <2>1, <2>3, Zenon
  <2>. QED
    BY <1>1, <2>2, <2>3, Zenon
<1>4. Len(rest) \in Nat /\ Len(rest) >= 1
  <2>1. Len(rest) \in {1, 2}
    BY <1>3, Zenon
  <2>. QED
    BY <2>1
<1>. QED
  BY <1>2, <1>3, <1>4, Zenon

(* A topic of a device is read as one of that device and that type. *)
HeardAs(prefix, d, rest) ==
    /\ Parse(prefix \o <<d, "v1">> \o rest).valid <=> d # ""
    /\ Parse(prefix \o <<d, "v1">> \o rest).device = d
    /\ Parse(prefix \o <<d, "v1">> \o rest).type = rest[1]

(* It is, with the broker's prefix or without. *)
LEMMA UplinkRead ==
    ASSUME NEW d \in Ids, NEW rest \in Subscribed, NEW prefix \in Prefixes,
           prefix = <<>> => d # "$T"
    PROVE  HeardAs(prefix, d, rest)
<1>. DEFINE v1 == "v1"
            topic == prefix \o <<d, v1>> \o rest
            o == Len(prefix)
<1>1. d \in Levels /\ v1 \in Levels /\ "$T" \in Levels
  BY DEF Levels, Literals
<1>. HIDE DEF v1
<1>2. CASE prefix = <<>>
  <2>1. prefix \in Seq(Levels) /\ o = 0
    BY <1>1, <1>2, ShortLists, Zenon
  <2>2. rest \in Seq(Levels) /\ Len(rest) \in Nat /\ Len(rest) >= 1
    BY SubscribedLists, Zenon
  <2>3. /\ topic \in Seq(Levels) /\ Len(topic) = o + 2 + Len(rest)
        /\ topic[o + 1] = d /\ topic[o + 2] = v1 /\ topic[o + 3] = rest[1]
    BY <1>1, <2>1, <2>2, Joined
  <2>. HIDE DEF topic
  <2>4. o + 1 = 1 /\ Len(topic) >= o + 3 /\ o \in {0, 2}
    BY <2>1, <2>2, <2>3
  <2>5. topic[1] # "$T"
    BY <1>2, <2>3, <2>4, Zenon
  <2>6. Offset(topic) = o
    BY <2>1, <2>5, Zenon DEF Offset
  <2>7. /\ Parse(topic).valid <=> topic[o + 2] = "v1" /\ topic[o + 1] # "" /\ topic[o + 3] # ""
        /\ Parse(topic).device = topic[o + 1] /\ Parse(topic).type = topic[o + 3]
    BY <2>3, <2>4, <2>6, ParseLevels, Zenon
  <2>8. Parse(topic).device = d /\ Parse(topic).type = rest[1]
    BY <2>3, <2>7, Zenon
  <2>9. topic[o + 2] = "v1" /\ topic[o + 3] # ""
    BY <2>3, SubscribedLists, Zenon DEF v1
  <2>10. Parse(topic).valid <=> d # ""
    BY <2>3, <2>7, <2>9, Zenon
  <2>. QED
    BY <2>8, <2>10, Zenon DEF topic, v1, HeardAs
<1>3. CASE prefix # <<>>
  <2>0. PICK n \in Namespaces : prefix = <<"$T", n>>
    BY <1>3, Zenon DEF Prefixes
  <2>1. prefix \in Seq(Levels) /\ o = 2 /\ prefix[1] = "$T"
    <3>1. n \in Levels
      BY DEF Levels
    <3>. QED
      BY <1>1, <2>0, <3>1, ShortLists, Zenon
  <2>2. rest \in Seq(Levels) /\ Len(rest) \in Nat /\ Len(rest) >= 1
    BY SubscribedLists, Zenon
  <2>11. prefix \in Seq(Levels)
    BY <2>1, Zenon
  <2>3. /\ topic \in Seq(Levels) /\ Len(topic) = o + 2 + Len(rest)
        /\ topic[o + 1] = d /\ topic[o + 2] = v1 /\ topic[o + 3] = rest[1]
        /\ \A i \in 1..o : topic[i] = prefix[i]
    BY <1>1, <2>11, <2>2, Joined
  <2>. HIDE DEF topic
  <2>4. 1 \in 1..o /\ Len(topic) >= o + 3 /\ Len(topic) >= 5 /\ o \in {0, 2}
    BY <2>1, <2>2, <2>3
  <2>5. topic[1] = "$T"
    BY <2>1, <2>3, <2>4, Zenon
  <2>6. Offset(topic) = o
    BY <2>1, <2>4, <2>5, Zenon DEF Offset
  <2>7. /\ Parse(topic).valid <=> topic[o + 2] = "v1" /\ topic[o + 1] # "" /\ topic[o + 3] # ""
        /\ Parse(topic).device = topic[o + 1] /\ Parse(topic).type = topic[o + 3]
    BY <2>3, <2>4, <2>6, ParseLevels, Zenon
  <2>8. Parse(topic).device = d /\ Parse(topic).type = rest[1]
    BY <2>3, <2>7, Zenon
  <2>9. topic[o + 2] = "v1" /\ topic[o + 3] # ""
    BY <2>3, SubscribedLists, Zenon DEF v1
  <2>10. Parse(topic).valid <=> d # ""
    BY <2>3, <2>7, <2>9, Zenon
  <2>. QED
    BY <2>8, <2>10, Zenon DEF topic, v1, HeardAs
<1>. QED
  BY <1>2, <1>3

(* A topic built for a device can be read back. *)
ReadsBack(tenant, d, type, sub) ==
    Parse(BuildDownlink(tenant, d, type, sub)) =
       [valid |-> TRUE, tenant |-> IF tenant = "" THEN "default" ELSE tenant,
        device |-> d, type |-> type, command |-> sub]

(* It can, if neither the device nor the type is empty. *)
LEMMA DownlinkRead ==
    ASSUME NEW tenant \in Levels, NEW d \in Levels, NEW type \in Levels, NEW sub \in Levels
    PROVE  d # "" /\ type # "" => ReadsBack(tenant, d, type, sub)
<1>. DEFINE n == IF tenant = "" THEN "default" ELSE tenant
            tail == IF sub = "" THEN <<>> ELSE <<sub>>
            mark == "$T"
            v1 == "v1"
            topic == <<mark, n, d, v1, type>> \o tail
<1>1. BuildDownlink(tenant, d, type, sub) = topic
  BY Zenon DEF BuildDownlink
<1>2. n \in Levels /\ mark \in Levels /\ v1 \in Levels
  BY DEF Levels, Literals
<1>3. /\ tail \in Seq(Levels)
      /\ sub = "" => Len(tail) = 0
      /\ sub # "" => Len(tail) = 1 /\ tail[1] = sub
  <2>1. CASE sub = ""
    BY <2>1, ShortLists, Zenon
  <2>2. CASE sub # ""
    BY <2>2, ShortLists, Zenon
  <2>. QED
    BY <2>1, <2>2, Zenon
<1>. HIDE DEF tail, n, mark, v1
<1>4. tail \in Seq(Levels) /\ Len(tail) \in Nat
  BY <1>3, LenProperties, Zenon
<1>5. /\ topic \in Seq(Levels) /\ Len(topic) = 5 + Len(tail)
      /\ topic[1] = mark /\ topic[2] = n /\ topic[3] = d /\ topic[4] = v1 /\ topic[5] = type
      /\ Len(tail) = 1 => topic[6] = tail[1]
  BY <1>2, <1>4, Lengthened
<1>. HIDE DEF topic
<1>6. /\ Len(topic) >= 5 /\ Len(topic) >= 2 + 3
      /\ Len(tail) = 0 => ~(6 <= Len(topic))
      /\ Len(tail) = 1 => 6 <= Len(topic)
  BY <1>4, <1>5
<1>7. 2 + 1 = 3 /\ 2 + 2 = 4 /\ 2 + 3 = 5 /\ 2 + 4 = 6 /\ 2 \in {0, 2}
  OBVIOUS
<1>8. Level(topic, 6) = sub
  BY <1>3, <1>5, <1>6, Zenon DEF Level
<1>9. Offset(topic) = 2
  BY <1>5, <1>6, Zenon DEF Offset, mark
<1>10. ~(Len(topic) < 3) /\ 3 <= Len(topic) /\ 4 <= Len(topic) /\ 5 <= Len(topic)
  BY <1>4, <1>5
<1>11. Level(topic, 3) = d /\ Level(topic, 4) = "v1" /\ Level(topic, 5) = type
  BY <1>5, <1>10, Zenon DEF Level, v1
<1>12. SUFFICES ASSUME d # "", type # "" PROVE ReadsBack(tenant, d, type, sub)
  OBVIOUS
<1>13. (Level(topic, 4) = "v1" /\ d # "" /\ type # "") = TRUE
  BY <1>11, <1>12, Zenon
<1>. QED
  BY <1>1, <1>5, <1>7, <1>8, <1>9, <1>10, <1>11, <1>13, Zenon DEF n, Parse, ReadsBack

(* What may be in the inbox: a topic subscribed to, or one of the Will's, which
   has no handler of its own. *)
InboxInv ==
    inbox # Nothing =>
       \/ \E d \in Ids, rest \in Subscribed, prefix \in Prefixes :
             /\ prefix = <<>> => d # "$T"
             /\ inbox.from = d /\ inbox.type = rest[1]
             /\ inbox.topic = prefix \o <<d, "v1">> \o rest
       \/ inbox.type = "will"

TopicInv == InboxInv /\ TopicsUnderstood

(* Every message and everything sent keeps it. *)
LEMMA TopicStep == TopicInv /\ [TopicNext]_topicState => TopicInv'
<1>. SUFFICES ASSUME TopicInv, [TopicNext]_topicState PROVE TopicInv'
  OBVIOUS
<1>0. InboxInv /\ MessagesReachHandlers /\ DownlinksReadBack
  BY DEF TopicInv, TopicsUnderstood
<1>1. ASSUME NEW d \in Ids, NEW rest \in Subscribed, Arrive(d, rest) PROVE TopicInv'
  <2>1. PICK prefix \in Prefixes :
           /\ prefix = <<>> => d # "$T"
           /\ inbox' = [kind |-> "message", from |-> d, type |-> rest[1],
                        topic |-> prefix \o <<d, "v1">> \o rest]
    BY <1>1 DEF Arrive, Prefixes
  <2>2. InboxInv'
    BY <2>1 DEF InboxInv
  <2>3. handled' = Nothing /\ outbox' = outbox
    BY <1>1 DEF Arrive
  <2>. QED
    BY <1>0, <2>2, <2>3 DEF TopicInv, TopicsUnderstood, MessagesReachHandlers, DownlinksReadBack
<1>2. ASSUME NEW d \in Ids, NEW x \in Ids, NEW y \in Ids, ArriveWill(d, x, y) PROVE TopicInv'
  <2>1. inbox'.type = "will" /\ handled' = Nothing /\ outbox' = outbox
    BY <1>2 DEF ArriveWill
  <2>. QED
    BY <1>0, <2>1 DEF TopicInv, InboxInv, TopicsUnderstood, MessagesReachHandlers, DownlinksReadBack
<1>3. CASE OnMessage
  <2>. DEFINE pt == Parse(inbox.topic)
  <2>1. /\ inbox # Nothing /\ inbox' = Nothing /\ outbox' = outbox
        /\ handled' =
              [kind |-> IF pt.valid /\ pt.type \in HandlerTypes THEN pt.type ELSE "dropped",
               device |-> pt.device, from |-> inbox.from, type |-> inbox.type]
    BY <1>3 DEF OnMessage
  <2>2. CASE inbox.type = "will"
    <3>1. handled'.type \notin HandlerTypes
      BY <2>1, <2>2 DEF HandlerTypes
    <3>. QED
      BY <1>0, <2>1, <3>1 DEF TopicInv, InboxInv, TopicsUnderstood, MessagesReachHandlers, DownlinksReadBack
  <2>3. CASE inbox.type # "will"
    <3>1. (pt.valid <=> inbox.from # "") /\ pt.device = inbox.from /\ pt.type = inbox.type
      <4>1. PICK d \in Ids, rest \in Subscribed, prefix \in Prefixes :
               /\ prefix = <<>> => d # "$T"
               /\ inbox.from = d /\ inbox.type = rest[1]
               /\ inbox.topic = prefix \o <<d, "v1">> \o rest
        BY <1>0, <2>1, <2>3, Zenon DEF InboxInv
      <4>2. HeardAs(prefix, d, rest)
        BY <4>1, UplinkRead, Zenon
      <4>. QED
        BY <4>1, <4>2, Zenon DEF HeardAs
    <3>. HIDE DEF pt
    <3>2. MessagesReachHandlers'
      BY <2>1, <3>1 DEF MessagesReachHandlers
    <3>. QED
      BY <1>0, <2>1, <3>2 DEF TopicInv, InboxInv, TopicsUnderstood, DownlinksReadBack
  <2>. QED
    BY <2>2, <2>3
<1>4. CASE SendSome
  <2>1. PICK tenant \in Namespaces \cup {""}, d \in Ids, type \in {"command", "ota", "property"},
             sub \in Commands \cup {"notify", "set"} : Send(tenant, d, type, sub)
    BY <1>4 DEF SendSome
  <2>2. /\ UNCHANGED <<inbox, handled>>
        /\ outbox' = [kind |-> type, tenant |-> tenant, device |-> d, sub |-> sub,
                      topic |-> BuildDownlink(tenant, d, type, sub)]
    BY <2>1 DEF Send
  <2>3. tenant \in Levels /\ d \in Levels /\ type \in Levels /\ sub \in Levels /\ type # ""
    BY DEF Levels, Literals
  <2>4. DownlinksReadBack'
    <3>1. /\ outbox'.kind = type /\ outbox'.tenant = tenant /\ outbox'.device = d
          /\ outbox'.sub = sub /\ outbox'.topic = BuildDownlink(tenant, d, type, sub)
      BY <2>2
    <3>0. tenant \in Levels /\ d \in Levels /\ type \in Levels /\ sub \in Levels
      BY <2>3, Zenon
    <3>2. d # "" => ReadsBack(tenant, d, type, sub)
      BY <2>3, <3>0, DownlinkRead, Zenon
    <3>. QED
      BY <3>1, <3>2, Zenon DEF DownlinksReadBack, ReadsBack
  <2>. QED
    BY <1>0, <2>2, <2>4 DEF TopicInv, InboxInv, TopicsUnderstood, MessagesReachHandlers
<1>5. CASE UNCHANGED topicState
  BY <1>0, <1>5 DEF topicState, TopicInv, InboxInv, TopicsUnderstood, MessagesReachHandlers,
     DownlinksReadBack
<1>. QED
  BY <1>1, <1>2, <1>3, <1>4, <1>5 DEF TopicNext

(* MessageRouter and ParsedTopic, for every id of a device, tenant or command,
   those that look like a level of the format included: a message on a topic
   subscribed to reaches the handler of its type as one of its sender, and a
   topic built for a device reads back as what it was built from. *)
THEOREM TopicsReadBothWays == DispatchSpec => []TopicsUnderstood
<1>1. DispatchInit => TopicInv
  BY DEF DispatchInit, TopicInit, TopicInv, InboxInv, TopicsUnderstood, MessagesReachHandlers,
     DownlinksReadBack
<1>2. TopicInv /\ [DispatchNext]_dispatchVars => TopicInv'
  BY TopicStep DEF DispatchNext, dispatchVars, topicState
<1>3. TopicInv => TopicsUnderstood
  BY DEF TopicInv
<1>. QED
  BY <1>1, <1>2, <1>3, PTL DEF DispatchSpec

(* The two entrances leave each other alone, so requests find their routes next
   to the messages as they do alone. *)
THEOREM RequestsNextToMessages ==
    DispatchSpec => RouteSpec /\ [](FindsHandler /\ WrongHandlerRefuses)
<1>1. DispatchInit => Init
  BY DEF DispatchInit
<1>2. [DispatchNext]_dispatchVars => [Next]_routeVars
  BY DEF DispatchNext, dispatchVars, routeVars
<1>. QED
  BY <1>1, <1>2, DispatchCorrect, PTL DEF DispatchSpec, RouteSpec

=============================================================================
