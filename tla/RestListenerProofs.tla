------------------------- MODULE RestListenerProofs -------------------------
(* Proofs about RestListener for any connections, any requests and any     *)
(* table of routes with one spelling of each path.                         *)
EXTENDS RestListener, FiniteSetTheorems, SequenceTheorems, TLAPS

Open == [open : {TRUE}, request : Requests, left : 0..2]
Shut == [open : {FALSE}, answer : Answers \cup {"none"}]

(* A connection is open or shut, and changes between the two as a whole.    *)
Within == \A c \in Conns : conn[c].open => conn[c].left <= conn[c].request.pieces
LEMMA ConnFacts ==
  ASSUME TypeOK
  PROVE  /\ conn \in [Conns -> Open \cup Shut] /\ Within
         /\ \A c \in Conns : conn[c].open => conn[c] \in Open
BY DEF TypeOK, Open, Shut, Within

LEMMA OpenFields ==
  ASSUME NEW x \in Open
  PROVE  x.open /\ x.request \in Requests /\ x.left \in 0..2
<1>1. PICK q \in Requests, n \in 0..2 : x = [open |-> TRUE, request |-> q, left |-> n]
  BY DEF Open
<1>2. x.request = q /\ x.left = n
  BY <1>1
<1>3. x.open
  BY <1>1
<1> QED
  BY <1>2, <1>3

LEMMA ConnStep ==
  ASSUME NEW c \in Conns, conn \in [Conns -> Open \cup Shut], Within,
         NEW r \in Open \cup Shut, conn' = [conn EXCEPT ![c] = r],
         r.open => r.left <= r.request.pieces
  PROVE  conn' \in [Conns -> Open \cup Shut] /\ Within'
<1>1. conn' \in [Conns -> Open \cup Shut] /\ conn'[c] = r
  OBVIOUS
<1>2. \A d \in Conns \ {c} : conn'[d] = conn[d]
  OBVIOUS
<1> QED
  BY <1>1, <1>2 DEF Within

(* The bodies of requests, and the cells they leave in the buffer.          *)
LEMMA BodyFacts ==
  ASSUME NEW r \in Requests, r.pieces # 0
  PROVE  /\ r.body \in Bodies /\ r.body # NoBody
         /\ r.body.form \in Forms /\ r.body.name \in Names
         /\ \A p \in {"whole", "first", "second"} : Cell(r.body, p) \in Cells \ {Junk}
BY RestAssumption DEF Cells, Cell

-----------------------------------------------------------------------------
(* What a handler does: it answers or the daemon dies, and what it mounts  *)
(* is defined.                                                             *)
LEMMA HandleFacts ==
  ASSUME TypeOK, NEW c \in Conns, NEW h, NEW b \in Bodies \cup {NoBody}, Handle(h, c, b)
  PROVE  /\ main' \in {main, "dead"}
         /\ conn' = conn \/ \E a \in Answers : Answer(c, a)
         /\ mounted' \subseteq defined' /\ defined' \subseteq Names
<1>1. Form(b) # "none" => b.name \in Names
  BY RestAssumption DEF Form
<1>2. CASE h = "execenv_create" /\ ExecEnvCreate(c, b)
  BY <1>1, <1>2 DEF ExecEnvCreate, Survive, Die, Answers, TypeOK, lxcVars
<1>3. CASE h = "execenv_rm" /\ ExecEnvRm(c, b)
  BY <1>3 DEF ExecEnvRm, Survive, Die, Answers, TypeOK, lxcVars
<1>4. CASE h = "deployementunit_create" /\ DeploymentUnitCreate(c, b)
  BY <1>4 DEF DeploymentUnitCreate, Survive, Answers, TypeOK, lxcVars
<1>5. CASE Stub(c) /\ UNCHANGED lxcVars
  BY <1>5 DEF Stub, Survive, Die, Answers, TypeOK, lxcVars
<1>6. CASE (Answer(c, "ok") \/ Answer(c, "closed")) /\ Survive /\ UNCHANGED lxcVars
  BY <1>6 DEF Survive, Answers, TypeOK, lxcVars
<1> QED
  BY <1>2, <1>3, <1>4, <1>5, <1>6 DEF Handle

(* What the dispatcher does: it refuses the request, or calls the handler  *)
(* of a path that matches.                                                 *)
LEMMA DispatchHandles ==
  ASSUME NEW c \in Conns, Dispatch(c)
  PROVE  \/ Refuse(c)
         \/ \E p \in Matching(conn[c].request), b \in Parsed :
              /\ Known(p, conn[c].request)
              /\ Handle(handlers[<<p, conn[c].request.method>>], c, b)
BY DEF Dispatch, Call

(* What is read from the buffer is a body or none. *)
LEMMA ParsedType == TypeOK => Parsed \subseteq Bodies \cup {NoBody}
<1> SUFFICES ASSUME TypeOK PROVE Parsed \subseteq Bodies \cup {NoBody}
  OBVIOUS
<1>1. \A i \in {1, 2} : buffer[i] # Junk => buffer[i].body \in Bodies
  BY SMTT(40) DEF TypeOK, Cells
<1> QED
  BY <1>1 DEF Parsed

LEMMA DispatchFacts ==
  ASSUME TypeOK, NEW c \in Conns, Dispatch(c)
  PROVE  /\ main' \in {main, "dead"} /\ UNCHANGED <<handlers, buffer>>
         /\ conn' = conn \/ \E a \in Answers : Answer(c, a)
         /\ mounted' \subseteq defined' /\ defined' \subseteq Names
<1>1. UNCHANGED <<handlers, buffer>>
  BY DEF Dispatch
<1>2. CASE Refuse(c)
  BY <1>1, <1>2 DEF Refuse, lxcVars, Answers, TypeOK
<1>3. ASSUME NEW h, NEW b \in Parsed, Handle(h, c, b)
      PROVE  /\ main' \in {main, "dead"}
             /\ conn' = conn \/ \E a \in Answers : Answer(c, a)
             /\ mounted' \subseteq defined' /\ defined' \subseteq Names
  BY <1>3, HandleFacts, ParsedType
<1> QED
  BY <1>1, <1>2, <1>3, DispatchHandles

(* The routes, each with its key. *)
Key(i) == <<RouteTable[i].path, RouteTable[i].method>>
LEMMA RouteFacts ==
  /\ Len(RouteTable) \in Nat
  /\ \A i \in 1..Len(RouteTable) :
       /\ RouteTable[i] \in [path : Paths, method : STRING, handler : STRING]
       /\ Key(i) \in Paths \X STRING
  /\ \A i, j \in 1..Len(RouteTable) : Key(i) = Key(j) => i = j
<1> DEFINE S == [path : Paths, method : STRING, handler : STRING]
<1>1. RouteTable \in Seq(S)
  BY RestAssumption
<1>2. Len(RouteTable) \in Nat /\ \A i \in 1..Len(RouteTable) : RouteTable[i] \in S
  <2> HIDE DEF S
  <2> QED
    BY <1>1, ElementOfSeq, LenProperties
<1>3. \A i \in 1..Len(RouteTable) : Key(i) \in Paths \X STRING
  BY <1>2 DEF Key
<1>4. \A i, j \in 1..Len(RouteTable) : Key(i) = Key(j) => i = j
  BY RestAssumption DEF Key
<1> QED
  BY <1>2, <1>3, <1>4

(* The route that is registered next. *)
LEMMA RegisterFacts ==
  ASSUME TypeOK, RegisterHandler
  PROVE  LET i == Cardinality(DOMAIN handlers) + 1
             k == Key(i)
         IN  /\ i \in 1..Len(RouteTable) /\ k \in Paths \X STRING
             /\ handlers' = [j \in DOMAIN handlers \cup {k} |->
                              IF j \in DOMAIN handlers THEN handlers[j]
                              ELSE RouteTable[i].handler]
<1>1. Cardinality(DOMAIN handlers) \in Nat
  BY FS_CardinalityType DEF TypeOK
<1> QED
  BY <1>1, RouteFacts DEF RegisterHandler, Key

(* Every reachable state is of its type. *)
LEMMA TypeInit == Init => TypeOK
BY FS_EmptySet DEF Init, TypeOK, Free, Closed, Answers, Cells

LEMMA TypeNext == TypeOK /\ [Next]_vars => TypeOK'
<1> SUFFICES ASSUME TypeOK, [Next]_vars PROVE TypeOK'
  OBVIOUS
<1>1. CASE RegisterHandler
  <2>1. IsFiniteSet(DOMAIN handlers) /\ DOMAIN handlers \subseteq Paths \X STRING
    BY DEF TypeOK
  <2>2. PICK k \in Paths \X STRING : DOMAIN handlers' = DOMAIN handlers \cup {k}
    BY <1>1, <2>1, RegisterFacts
  <2>3. IsFiniteSet(DOMAIN handlers')
    BY <2>1, <2>2, FS_AddElement
  <2> QED
    BY <1>1, <2>1, <2>2, <2>3 DEF RegisterHandler, TypeOK, lxcVars
<1>2. CASE Start
  BY <1>2 DEF Start, TypeOK, lxcVars
<1>3. CASE Stop
  <2>1. conn' \in [Conns -> Open \cup Shut] /\ \A c \in Conns : ~conn'[c].open
    BY <1>3, ConnFacts DEF Stop, Closed, Shut, Answers
  <2> QED
    BY <1>3, <2>1 DEF Stop, TypeOK, lxcVars, Open, Shut
<1>4. CASE Restart
  BY <1>4, FS_EmptySet DEF Restart, TypeOK, Free, Closed, Answers, Cells, lxcVars
<1>5. ASSUME NEW c \in Conns, NEW r \in Requests, FirstCall(c, r) PROVE TypeOK'
  <2> DEFINE q == [open |-> TRUE, request |-> r, left |-> r.pieces]
  <2>1. r.pieces \in 0..2
    BY RestAssumption
  <2>2. q \in Open /\ q.left <= q.request.pieces
    BY <2>1 DEF Open
  <2>3. conn' \in [Conns -> Open \cup Shut] /\ Within'
    BY <1>5, <2>2, ConnFacts, ConnStep DEF FirstCall
  <2> QED
    BY <1>5, <2>3 DEF FirstCall, TypeOK, lxcVars, Open, Shut, Within
<1>6. ASSUME NEW c \in Conns, Upload(c) PROVE TypeOK'
  <2> DEFINE q == conn[c].request
             left == conn[c].left
             next == [open |-> TRUE, request |-> q, left |-> left - 1]
  <2>1. conn[c] \in Open /\ left > 0 /\ left <= q.pieces
    BY <1>6, ConnFacts DEF Upload, Within
  <2>2. left \in 1..2 /\ q \in Requests
    <3>1. left \in 0..2 /\ q \in Requests
      BY <2>1, OpenFields
    <3> QED
      BY <3>1, <2>1
  <2>3. q.pieces \in 0..2 /\ q.pieces # 0
    BY <2>1, <2>2, RestAssumption
  <2>4. next \in Open /\ next.left <= next.request.pieces
    <3>1. left - 1 \in 0..2 /\ left - 1 <= q.pieces
      BY <2>1, <2>2, <2>3
    <3> QED
      BY <3>1, <2>2 DEF Open
  <2>5. conn' \in [Conns -> Open \cup Shut] /\ Within'
    BY <1>6, <2>4, ConnFacts, ConnStep DEF Upload
  <2>6. buffer[2] \in Cells /\ buffer' = Written(q.body, q.pieces = 1, conn[c].left)
    BY SMTT(40), <1>6 DEF Upload, TypeOK
  <2>7. \A p \in {"whole", "first", "second"} : Cell(q.body, p) \in Cells
    BY <2>2, <2>3, BodyFacts
  <2>8. PICK x \in Cells, y \in Cells : buffer' = <<x, y>>
    BY <2>6, <2>7 DEF Written
  <2>9. buffer' \in Seq(Cells) /\ Len(buffer') = 2
    BY <2>8
  <2>10. main' \in {main, "broken", "dead"}
    BY <1>6 DEF Upload
  <2> QED
    BY <1>6, <2>5, <2>9, <2>10 DEF Upload, TypeOK, lxcVars, Open, Shut, Within
<1>7. ASSUME NEW c \in Conns, Dispatch(c) PROVE TypeOK'
  <2>1. /\ main' \in {main, "dead"} /\ mounted' \subseteq defined' /\ defined' \subseteq Names
        /\ conn' = conn \/ \E a \in Answers : Answer(c, a)
    BY <1>7, DispatchFacts
  <2>2. CASE conn' = conn
    BY <1>7, <2>1, <2>2 DEF Dispatch, TypeOK
  <2>3. CASE \E a \in Answers : Answer(c, a)
    <3>1. PICK a \in Answers : conn' = [conn EXCEPT ![c] = Closed(a)]
      BY <2>3 DEF Answer
    <3>2. Closed(a) \in Shut /\ ~Closed(a).open
      BY DEF Closed, Shut
    <3>3. conn' \in [Conns -> Open \cup Shut] /\ Within'
      BY <1>7, <3>1, <3>2, ConnFacts, ConnStep
    <3> QED
      BY <1>7, <2>1, <3>3 DEF Dispatch, TypeOK, Open, Shut, Within
  <2> QED
    BY <2>1, <2>2, <2>3
<1>8. ASSUME NEW c \in Conns, Finish(c) PROVE TypeOK'
  BY <1>8 DEF Finish, TypeOK, Free, Closed, lxcVars
<1>9. CASE UNCHANGED vars
  BY <1>9 DEF TypeOK, vars, lxcVars
<1>10. CASE Undefined
  <2>1. conn' \in [Conns -> Open \cup Shut] /\ Within'
    <3>1. CASE UNCHANGED conn
      BY <3>1, ConnFacts DEF Within
    <3>2. CASE \E c \in Conns, a \in Answers : conn' = [conn EXCEPT ![c] = Closed(a)]
      <4>1. PICK c \in Conns, a \in Answers : conn' = [conn EXCEPT ![c] = Closed(a)]
        BY <3>2
      <4>2. Closed(a) \in Shut /\ ~Closed(a).open
        BY DEF Closed, Shut
      <4> QED
        BY <4>1, <4>2, ConnFacts, ConnStep
    <3> QED
      BY <1>10, <3>1, <3>2 DEF Undefined
  <2> QED
    BY <1>10, <2>1 DEF Undefined, TypeOK, Open, Shut, Within
<1> QED
  BY <1>1, <1>2, <1>3, <1>4, <1>5, <1>6, <1>7, <1>8, <1>9, <1>10 DEF Next

THEOREM TypeCorrect == Spec => []TypeOK
BY TypeInit, TypeNext, PTL DEF Spec

-----------------------------------------------------------------------------
(* The buffer holds the body b, and is read as b, whatever the half behind *)
(* a short one.                                                            *)
Holds(b) ==
  \/ buffer[1] = Cell(b, "whole")
  \/ buffer[1] = Cell(b, "first") /\ buffer[2] = Cell(b, "second")

LEMMA HoldsParsed ==
  ASSUME NEW r \in Requests, r.pieces # 0, Holds(r.body)
  PROVE  Parsed = {r.body}
<1> DEFINE w == Cell(r.body, "whole")
           f == Cell(r.body, "first")
           s == Cell(r.body, "second")
<1>1. w # Junk /\ f # Junk /\ s # Junk
  BY BodyFacts
<1>2. /\ w.body = r.body /\ f.body = r.body /\ s.body = r.body
      /\ w.part = "whole" /\ f.part = "first"
  BY DEF Cell
<1>3. CASE buffer[1] = w
  BY <1>1, <1>2, <1>3 DEF Parsed
<1>4. CASE buffer[1] = f /\ buffer[2] = s
  <2>1. buffer[1] # Junk /\ buffer[2] # Junk /\ buffer[1].part = "first"
        /\ buffer[1].body = r.body /\ buffer[2].body = r.body
    BY <1>1, <1>2, <1>4
  <2> QED
    BY <2>1 DEF Parsed
<1> QED
  BY <1>3, <1>4 DEF Holds

LEMMA WrittenHolds ==
  ASSUME NEW b \in Bodies, NEW n \in 0..2, buffer' = Written(b, TRUE, n)
  PROVE  Holds(b)'
BY DEF Holds, Written, Cell

(* From its one piece until it is dispatched, the request of a connection  *)
(* of known length has its body in the buffer: libmicrohttpd goes on with  *)
(* it before any other.  A daemon whose heap was written over is past it.   *)
InOnePiece(c) == conn[c].open /\ conn[c].request.pieces = 1 /\ conn[c].request.sized
Running == main \in {"register", "listening"}
BodyInv == \A c \in Conns :
  Running /\ InOnePiece(c) /\ conn[c].left = 0 => Holds(conn[c].request.body)

LEMMA BodyInit == Init => BodyInv
BY DEF Init, BodyInv, InOnePiece, Free, Closed

(* A step that leaves the buffer and opens no connection keeps BodyInv. *)
LEMMA BodyKept ==
  ASSUME BodyInv, buffer' = buffer, Running' => Running,
         \A c \in Conns : conn'[c] = conn[c] \/ ~conn'[c].open
  PROVE  BodyInv'
BY DEF BodyInv, InOnePiece, Holds

LEMMA BodyNext == TypeOK /\ BodyInv /\ [Next]_vars => BodyInv'
<1> SUFFICES ASSUME TypeOK, BodyInv, [Next]_vars PROVE BodyInv'
  OBVIOUS
<1>0. conn \in [Conns -> Open \cup Shut]
  BY ConnFacts
<1>1. CASE RegisterHandler \/ Start \/ UNCHANGED vars
  BY <1>1, BodyKept DEF RegisterHandler, Start, vars, Running
<1>2. CASE Stop
  BY <1>2 DEF Stop, BodyInv, Running
<1>3. CASE Restart
  BY <1>3 DEF Restart, BodyInv, InOnePiece, Free, Closed
<1>4. ASSUME NEW c \in Conns, NEW r \in Requests, FirstCall(c, r) PROVE BodyInv'
  <2>1. /\ conn'[c].left = r.pieces /\ conn'[c].request = r
        /\ \A d \in Conns \ {c} : conn'[d] = conn[d]
    BY <1>0, <1>4 DEF FirstCall
  <2>2. buffer' = buffer
    BY <1>4 DEF FirstCall
  <2>3. ~(InOnePiece(c)' /\ conn'[c].left = 0)
    BY <2>1 DEF InOnePiece
  <2>4. main' = main
    BY <1>4 DEF FirstCall
  <2> QED
    BY <2>1, <2>2, <2>3, <2>4 DEF BodyInv, InOnePiece, Holds, Running
<1>5. ASSUME NEW c \in Conns, Upload(c) PROVE BodyInv'
  <2> DEFINE q == conn[c].request
  <2>1. conn[c] \in Open /\ q \in Requests /\ conn[c].left \in 0..2 /\ conn[c].left > 0
    BY <1>5, ConnFacts, OpenFields DEF Upload
  <2>2. /\ conn'[c].request = q /\ \A d \in Conns \ {c} : conn'[d] = conn[d]
        /\ buffer' = Written(q.body, q.pieces = 1, conn[c].left)
    BY <1>0, <1>5 DEF Upload
  <2>3. ASSUME q.pieces = 1 PROVE Holds(q.body)'
    <3>1. PICK b \in Bodies : b = conn[c].request.body /\ b = conn'[c].request.body
      BY <2>1, <2>2, <2>3, BodyFacts
    <3>2. buffer' = Written(b, TRUE, conn[c].left)
      BY <2>2, <2>3, <3>1
    <3>3. Holds(b)'
      BY <2>1, <3>2, WrittenHolds
    <3> QED
      BY <3>1, <3>3 DEF Holds
  <2>4. ASSUME NEW d \in Conns \ {c} PROVE ~(InOnePiece(d)' /\ conn'[d].left = 0)
    BY <1>5, <2>2 DEF Upload, Turn, Due, InOnePiece
  <2> QED
    BY <2>2, <2>3, <2>4 DEF BodyInv, InOnePiece, Holds
<1>6. ASSUME NEW c \in Conns, Dispatch(c) PROVE BodyInv'
  <2>1. conn' = conn \/ \E a \in Answers : Answer(c, a)
    BY <1>6, DispatchFacts
  <2>2. main' \in {main, "dead"} /\ buffer' = buffer
    BY <1>6, DispatchFacts
  <2> QED
    BY <1>0, <2>1, <2>2, BodyKept DEF Answer, Closed, Running
<1>7. ASSUME NEW c \in Conns, Finish(c) PROVE BodyInv'
  BY <1>0, <1>7, BodyKept DEF Finish, Free, Closed, Running
<1>8. CASE Undefined
  BY <1>8 DEF Undefined, BodyInv, Running
<1> QED
  BY <1>1, <1>2, <1>3, <1>4, <1>5, <1>6, <1>7, <1>8 DEF Next

(* A handler that got a body touches the container it names, and no other, *)
(* and does not answer that there was none.                                *)
LEMMA HandleOnly ==
  ASSUME NEW c \in Conns, NEW h, NEW b \in Bodies, conn \in [Conns -> Open \cup Shut],
         Handle(h, c, b)
  PROVE  /\ TouchesOnly({b.name})
         /\ conn' = conn \/ \E a \in Answers \ {"noContent"} : Answer(c, a)
<1>1. Form(b) = b.form /\ b.form \in Forms
  BY RestAssumption DEF Form
<1>2. CASE h = "execenv_create" /\ ExecEnvCreate(c, b)
  BY <1>1, <1>2 DEF ExecEnvCreate, Forms, TouchesOnly, Answers, lxcVars
<1>3. CASE h = "execenv_rm" /\ ExecEnvRm(c, b)
  BY <1>3 DEF ExecEnvRm, TouchesOnly, Answers, lxcVars
<1>4. CASE h = "deployementunit_create" /\ DeploymentUnitCreate(c, b)
  BY <1>4 DEF DeploymentUnitCreate, TouchesOnly, Answers, lxcVars
<1>5. CASE Stub(c) /\ UNCHANGED lxcVars
  BY <1>5 DEF Stub, TouchesOnly, Answers, lxcVars
<1>6. CASE (Answer(c, "ok") \/ Answer(c, "closed")) /\ UNCHANGED lxcVars
  BY <1>6 DEF TouchesOnly, Answers, lxcVars
<1> QED
  BY <1>2, <1>3, <1>4, <1>5, <1>6 DEF Handle

(* Only the call back of a connection ends its request while the daemon    *)
(* listens.                                                                *)
LEMMA AnsweringFacts ==
  ASSUME TypeOK, [Next]_vars, NEW c \in Conns, Answering(c)
  PROVE  Dispatch(c)
<1>0. conn \in [Conns -> Open \cup Shut] /\ conn[c].open /\ ~conn'[c].open
  BY ConnFacts DEF Answering
<1>1. ~UNCHANGED conn
  BY <1>0
<1>2. ~RegisterHandler /\ ~Start /\ ~Stop /\ ~Restart /\ ~Undefined
  BY <1>1 DEF RegisterHandler, Start, Stop, Restart, Undefined, Answering
<1>3. ASSUME NEW d \in Conns, NEW r \in Requests, FirstCall(d, r) PROVE FALSE
  BY <1>0, <1>3 DEF FirstCall
<1>4. ASSUME NEW d \in Conns, Upload(d) PROVE FALSE
  BY <1>0, <1>4 DEF Upload
<1>5. ASSUME NEW d \in Conns, Finish(d) PROVE FALSE
  BY <1>0, <1>5 DEF Finish, Free, Closed
<1>6. ASSUME NEW d \in Conns, Dispatch(d) PROVE d = c
  <2>1. conn' = conn \/ \E a \in Answers : Answer(d, a)
    BY <1>6, DispatchFacts
  <2> QED
    BY <1>0, <2>1 DEF Answer, Closed
<1> QED
  BY <1>1, <1>2, <1>3, <1>4, <1>5, <1>6 DEF Next, vars

(* A request in one piece acts on the container its body names.            *)
LEMMA ActsStep ==
  ASSUME TypeOK, BodyInv, [Next]_vars, NEW c \in Conns, Answering(c),
         conn[c].request.pieces = 1, conn[c].request.sized
  PROVE  TouchesOnly({conn[c].request.body.name}) /\ conn'[c].answer # "noContent"
<1> DEFINE b == conn[c].request.body
<1>1. Dispatch(c) /\ conn[c].open /\ ~conn'[c].open /\ conn \in [Conns -> Open \cup Shut]
  BY AnsweringFacts, ConnFacts DEF Answering
<1>2. conn[c].request \in Requests
  BY <1>1, ConnFacts, OpenFields
<1>3. b \in Bodies
  BY <1>2, BodyFacts
<1>4. Holds(b)
  BY <1>1 DEF Dispatch, Turn, BodyInv, InOnePiece, Running
<1>5. Parsed = {b}
  BY <1>2, <1>4, HoldsParsed
<1>6. CASE Refuse(c)
  BY <1>1, <1>6 DEF Refuse, Answer, Closed, TouchesOnly, lxcVars
<1>7. ASSUME NEW h, Handle(h, c, b)
      PROVE  TouchesOnly({b.name}) /\ conn'[c].answer # "noContent"
  <2>1. /\ TouchesOnly({b.name})
        /\ conn' = conn \/ \E a \in Answers \ {"noContent"} : Answer(c, a)
    BY <1>1, <1>3, <1>7, HandleOnly
  <2> QED
    BY <1>1, <2>1 DEF Answer, Closed
<1> QED
  BY <1>1, <1>5, <1>6, <1>7, DispatchHandles

(* Whatever other connections leave in the shared buffer, a request whose  *)
(* body came in one piece of known length acts on the container its body   *)
(* names, and on no other, until a piece longer than the buffer leaves the *)
(* daemon "broken" (httphandler.cpp:93-110).                               *)
THEOREM ActsOnItsBodyHolds == Spec => ActsOnItsBody
<1>1. BodyInv /\ TypeOK /\ [Next]_vars =>
        [\A c \in Conns :
           Answering(c) /\ conn[c].request.pieces = 1 /\ conn[c].request.sized =>
             /\ TouchesOnly({conn[c].request.body.name})
             /\ conn'[c].answer # "noContent"]_vars
  BY ActsStep
<1> QED
  BY <1>1, BodyInit, BodyNext, TypeCorrect, PTL DEF Spec, ActsOnItsBody

-----------------------------------------------------------------------------
(* The handlers are those of the first routes, and of all of them once the *)
(* daemon listens.                                                         *)
Count == Cardinality(DOMAIN handlers)
RegInv ==
  /\ Count <= Len(RouteTable)
  /\ DOMAIN handlers = {Key(i) : i \in 1..Count}
  /\ \A i \in 1..Count : handlers[Key(i)] = RouteTable[i].handler
  /\ main = "listening" => Count = Len(RouteTable)

LEMMA RegInit == Init => RegInv
<1> SUFFICES ASSUME Init PROVE RegInv
  OBVIOUS
<1>1. DOMAIN handlers = {} /\ Count = 0 /\ main # "listening"
  BY FS_EmptySet DEF Init, Count
<1> QED
  BY <1>1, RouteFacts DEF RegInv

LEMMA RegNext == TypeOK /\ RegInv /\ [Next]_vars => RegInv'
<1> SUFFICES ASSUME TypeOK, RegInv, [Next]_vars PROVE RegInv'
  OBVIOUS
<1>1. CASE RegisterHandler
  <2> DEFINE i == Count + 1
             D == DOMAIN handlers
  <2>1. IsFiniteSet(D) /\ Count \in Nat
    BY FS_CardinalityType DEF TypeOK, Count
  <2>2. i \in 1..Len(RouteTable) /\ i <= Len(RouteTable) /\ main' = "register"
    BY <1>1, RegisterFacts DEF RegisterHandler, Count
  <2>3. handlers' = [k \in D \cup {Key(i)} |-> IF k \in D THEN handlers[k]
                                              ELSE RouteTable[i].handler]
    BY <1>1, RegisterFacts DEF Count
  <2>4. \A j \in 1..Count : j # i /\ j \in 1..Len(RouteTable)
    BY <2>1, <2>2, RouteFacts
  <2>5. Key(i) \notin D
    BY <2>2, <2>4, RouteFacts DEF RegInv
  <2>6. Count' = i
    BY <2>1, <2>3, <2>5, FS_AddElement DEF Count
  <2>7. 1..i = 1..Count \cup {i}
    BY <2>1
  <2>8. DOMAIN handlers' = {Key(j) : j \in 1..i}
    BY <2>3, <2>7 DEF RegInv
  <2>9. \A j \in 1..i : handlers'[Key(j)] = RouteTable[j].handler
    BY <2>3, <2>5, <2>7 DEF RegInv
  <2> QED
    BY <2>2, <2>6, <2>8, <2>9 DEF RegInv, Key
<1>2. CASE Start
  BY <1>2 DEF Start, RegInv, Count, Key
<1>3. CASE Restart
  <2>1. DOMAIN handlers' = {} /\ Count' = 0 /\ main' # "listening"
    BY <1>3, FS_EmptySet DEF Restart, Count
  <2> QED
    BY <2>1, RouteFacts DEF RegInv, Key
<1>4. ASSUME handlers' = handlers, main' = "listening" => main = "listening"
      PROVE  RegInv'
  BY <1>4 DEF RegInv, Count, Key
<1>5. CASE Stop \/ UNCHANGED vars
  BY <1>4, <1>5 DEF Stop, vars
<1>6. ASSUME NEW c \in Conns, Upload(c) \/ Finish(c) PROVE RegInv'
  BY <1>4, <1>6 DEF Upload, Finish
<1>7. ASSUME NEW c \in Conns, NEW r \in Requests, FirstCall(c, r) PROVE RegInv'
  BY <1>4, <1>7 DEF FirstCall
<1>8. ASSUME NEW c \in Conns, Dispatch(c) PROVE RegInv'
  BY <1>4, <1>8 DEF Dispatch, Turn
<1>9. CASE Undefined
  BY <1>4, <1>9 DEF Undefined
<1> QED
  BY <1>1, <1>2, <1>3, <1>5, <1>6, <1>7, <1>8, <1>9 DEF Next

(* Of the handlers only get_Server_environment may return no status. *)
LEMMA HandleCloses ==
  ASSUME NEW c \in Conns, NEW h, NEW b, conn \in [Conns -> Open \cup Shut], conn[c].open,
         Handle(h, c, b), ~conn'[c].open, conn'[c].answer = "closed"
  PROVE  h = "get_Server_environment"
<1>1. conn' # conn
  OBVIOUS
<1>2. ~\E a \in {"ok", "noContent", "conflict"} : Answer(c, a)
  BY DEF Answer, Closed
<1>3. CASE h = "execenv_create" /\ ExecEnvCreate(c, b)
  BY <1>1, <1>2, <1>3 DEF ExecEnvCreate
<1>4. CASE h = "execenv_rm" /\ ExecEnvRm(c, b)
  BY <1>1, <1>2, <1>4 DEF ExecEnvRm
<1>5. CASE h = "deployementunit_create" /\ DeploymentUnitCreate(c, b)
  BY <1>2, <1>5 DEF DeploymentUnitCreate
<1>6. CASE Stub(c)
  BY <1>1, <1>2, <1>6 DEF Stub
<1> QED
  BY <1>2, <1>3, <1>4, <1>5, <1>6 DEF Handle

(* The search finds the path of the route of a request, and no other; and  *)
(* of its methods the one of the route.                                    *)
LEMMA RouteOnly ==
  ASSUME TypeOK, RegInv, main = "listening", NEW r \in Requests,
         NEW i \in 1..Len(RouteTable), RouteTable[i].method = r.method,
         normal[RouteTable[i].path] = normal[r.path]
  PROVE  /\ Matching(r) = {RouteTable[i].path} /\ Known(RouteTable[i].path, r)
         /\ handlers[<<RouteTable[i].path, r.method>>] = RouteTable[i].handler
<1>1. /\ DOMAIN handlers = {Key(j) : j \in 1..Len(RouteTable)}
      /\ \A j \in 1..Len(RouteTable) : handlers[Key(j)] = RouteTable[j].handler
  BY DEF RegInv
<1>2. Key(i) = <<RouteTable[i].path, r.method>>
  BY DEF Key
<1>3. \A j \in 1..Len(RouteTable) : Key(j)[1] = RouteTable[j].path
  BY DEF Key
<1>4. RouteTable[i].path \in Matching(r)
  BY <1>1, <1>3 DEF Matching
<1>5. ASSUME NEW p \in Matching(r) PROVE p = RouteTable[i].path
  <2>1. PICK j \in 1..Len(RouteTable) : p = RouteTable[j].path /\ normal[p] = normal[r.path]
    BY <1>1, <1>3, <1>5 DEF Matching
  <2> QED
    BY <2>1, RestAssumption
<1> QED
  BY <1>1, <1>2, <1>4, <1>5 DEF Known

(* A request with a handler is never closed unanswered, except by uname.   *)
LEMMA RefusedStep ==
  ASSUME TypeOK, RegInv, [Next]_vars, NEW c \in Conns, Answering(c),
         conn'[c].answer = "closed", NEW i \in 1..Len(RouteTable),
         RouteTable[i].method = conn[c].request.method,
         normal[RouteTable[i].path] = normal[conn[c].request.path]
  PROVE  RouteTable[i].handler = "get_Server_environment"
<1>1. /\ Dispatch(c) /\ conn[c].open /\ ~conn'[c].open
      /\ conn \in [Conns -> Open \cup Shut]
  BY AnsweringFacts, ConnFacts DEF Answering
<1>2. conn[c].request \in Requests /\ main = "listening"
  BY <1>1, ConnFacts, OpenFields DEF Dispatch, Turn
<1> DEFINE p == RouteTable[i].path
           h == handlers[<<p, conn[c].request.method>>]
<1>3. Matching(conn[c].request) = {p} /\ Known(p, conn[c].request) /\ h = RouteTable[i].handler
  BY <1>2, RouteOnly
<1>4. PICK b : Handle(h, c, b)
  <2>1. \E b \in Parsed : Handle(h, c, b)
    BY <1>1, <1>3 DEF Dispatch, Call
  <2> QED
    BY <2>1
<1>5. h = "get_Server_environment"
  BY <1>1, <1>4, HandleCloses
<1> QED
  BY <1>3, <1>5

(* No request is dispatched before every handler is registered: one whose  *)
(* path and method are in the table, which has one spelling of each path,  *)
(* is refused only when uname fails (main.cpp:363-382, httphandler.cpp:119 *)
(* and :141).                                                              *)
THEOREM RefusedOnlyUnknownHolds == Spec => RefusedOnlyUnknown
<1>1. RegInv /\ TypeOK /\ [Next]_vars =>
        [\A c \in Conns : Answering(c) /\ conn'[c].answer = "closed" =>
           \A i \in 1..Len(RouteTable) :
             LET k == RouteTable[i]
             IN  \/ normal[k.path] # normal[conn[c].request.path]
                 \/ k.method # conn[c].request.method
                 \/ k.handler = "get_Server_environment"]_vars
  BY RefusedStep
<1> QED
  BY <1>1, RegInit, RegNext, TypeCorrect, PTL DEF Spec, RefusedOnlyUnknown
=============================================================================
