---------------------------- MODULE RestListener ----------------------------
(***************************************************************************)
(* The REST backend of lxcd (httphandler.cpp, uhttpd/main.cpp), built in   *)
(* place of the bus: a table of handlers, filled before libmicrohttpd is   *)
(* started, and one call back that libmicrohttpd's thread calls for every  *)
(* step of every request.                                                  *)
(*                                                                         *)
(* The call backs of one connection come in order; those of different      *)
(* connections are interleaved, and they all collect the body of their     *)
(* request in the same static buffer.                                      *)
(***************************************************************************)
EXTENDS Naturals, Sequences, FiniteSets

CONSTANTS
  Conns,        \* connections at a time
  Paths,        \* paths a request can name
  normal,       \* a path without its double slashes
  RouteTable,   \* what main registers, in order: [path, method, handler]
  Names,        \* containers
  Bodies,       \* [name, form]: {name}, {name, type} or that of a unit
  Requests,     \* [path, method, body, pieces, sized, fits]: a body comes in
                \* 0, 1 or 2 pieces, its length is known before or not, a
                \* piece fits the 500 bytes of the buffer or does not
  NoBody, Junk

VARIABLES
  main,         \* the thread of main(); "broken" once its heap was written over
  handlers,     \* handlers_: a handler for a path and a method
  conn,         \* the request of a connection, its pieces left, its answer
  buffer,       \* the static buffer: what its first and its second half hold
  defined,      \* containers lxc knows
  mounted       \* containers whose overlay is mounted
vars == <<main, handlers, conn, buffer, defined, mounted>>
lxcVars == <<defined, mounted>>

Forms == {"short", "env", "unit"}
Answers == {"ok", "noContent", "conflict", "closed"}

(* A short body, {name}, fills less than half of what a longer one does.   *)
Cells == [body : Bodies, part : {"whole", "first", "second"}] \cup {Junk}
Cell(b, p) == [body |-> b, part |-> p]

ASSUME RestAssumption ==
  /\ normal \in [Paths -> Paths]
  /\ RouteTable \in Seq([path : Paths, method : STRING, handler : STRING])
  /\ \A i, j \in 1..Len(RouteTable) :
       normal[RouteTable[i].path] = normal[RouteTable[j].path] =>
         /\ RouteTable[i].path = RouteTable[j].path
         /\ RouteTable[i].method = RouteTable[j].method => i = j
  /\ Bodies \subseteq [name : Names, form : Forms]
  /\ NoBody \notin Bodies /\ Junk \notin [body : Bodies, part : {"whole", "first", "second"}]
  /\ Requests \subseteq [path : Paths, method : STRING, body : Bodies \cup {NoBody},
                         pieces : 0..2, sized : BOOLEAN, fits : BOOLEAN]
  /\ \A r \in Requests : r.pieces = 0 <=> r.body = NoBody
  /\ \A r \in Requests : r.pieces = 2 => r.body.form # "short"

Closed(a) == [open |-> FALSE, answer |-> a]
Free == Closed("none")

Init ==
  /\ main = "register" /\ handlers = <<>>
  /\ conn = [c \in Conns |-> Free] /\ buffer = <<Junk, Junk>>
  /\ defined \in SUBSET Names /\ mounted \in SUBSET defined

-----------------------------------------------------------------------------
(* main().                                                                 *)

(* register_handler: the first handler of a path and a method stays.       *)
RegisterHandler ==
  /\ main = "register" /\ Cardinality(DOMAIN handlers) < Len(RouteTable)
  /\ LET r == RouteTable[Cardinality(DOMAIN handlers) + 1]
     IN  handlers' = [k \in DOMAIN handlers \cup {<<r.path, r.method>>} |->
                        IF k \in DOMAIN handlers THEN handlers[k] ELSE r.handler]
  /\ UNCHANGED <<main, conn, buffer, lxcVars>>

(* Slip: the daemon listens before it knows its handlers.                  *)
StartEarly ==
  /\ main = "register"
  /\ main' \in {"listening", "deaf"}
  /\ UNCHANGED <<handlers, conn, buffer, lxcVars>>

(* start(): when the port is taken the daemon runs on without listening.   *)
Start ==
  /\ main = "register" /\ Cardinality(DOMAIN handlers) = Len(RouteTable)
  /\ main' \in {"listening", "deaf"}
  /\ UNCHANGED <<handlers, conn, buffer, lxcVars>>

(* The event loop ends; stop() closes the connections that are open.       *)
Stop ==
  /\ main \in {"listening", "deaf", "broken"} /\ main' = "stopped"
  /\ conn' = [c \in Conns |-> IF conn[c].open THEN Closed("closed") ELSE conn[c]]
  /\ UNCHANGED <<handlers, buffer, lxcVars>>

(* A daemon that died or was stopped is started again.                     *)
Restart ==
  /\ main \in {"dead", "stopped"} /\ main' = "register"
  /\ handlers' = <<>> /\ conn' = [c \in Conns |-> Free] /\ buffer' = <<Junk, Junk>>
  /\ UNCHANGED lxcVars

-----------------------------------------------------------------------------
(* libmicrohttpd goes on with a request whose end it knows of at once; the *)
(* end of a body of unknown length is a message of its own.                *)
Due(c) == conn[c].open /\ conn[c].left = 0 /\ conn[c].request.sized
Turn(c) == main = "listening" /\ \A d \in Conns \ {c} : ~Due(d)

(* dispatch_handler, for a request whose headers are in: it marks the      *)
(* connection and returns.                                                 *)
FirstCall(c, r) ==
  /\ Turn(c) /\ conn[c] = Free
  /\ conn' = [conn EXCEPT ![c] =
       [open |-> TRUE, request |-> r, left |-> r.pieces]]
  /\ UNCHANGED <<main, handlers, buffer, lxcVars>>

(* Slip: the pieces of all bodies follow each other.                       *)
WrittenBehind(b, whole, left) ==
  IF buffer[1] = Junk THEN <<Cell(b, IF b.form = "short" THEN "whole" ELSE "first"), Junk>>
  ELSE <<buffer[1], Cell(b, "second")>>

(* What the buffer holds after a piece: each is copied to the front, over  *)
(* the one before, and not terminated.                                     *)
Written(b, whole, left) ==
  IF ~whole THEN <<Cell(b, IF left = 2 THEN "first" ELSE "second"), buffer[2]>>
  ELSE IF b.form = "short" THEN <<Cell(b, "whole"), buffer[2]>>
  ELSE <<Cell(b, "first"), Cell(b, "second")>>

(* The length is not looked at: a piece that does not fit is written over  *)
(* what follows the buffer on the heap.                                    *)
Upload(c) ==
  /\ Turn(c) /\ conn[c].open /\ conn[c].left > 0
  /\ LET q == conn[c].request
         left == conn[c].left
     IN  /\ conn' = [conn EXCEPT ![c] = [open |-> TRUE, request |-> q, left |-> left - 1]]
         /\ buffer' = Written(q.body, q.pieces = 1, left)
         /\ main' \in (IF q.fits THEN {main} ELSE {"broken", "dead"})
  /\ UNCHANGED <<handlers, lxcVars>>

(* What follows is undefined: an end, an answer, anything done to the      *)
(* containers.                                                             *)
Undefined ==
  /\ main = "broken" /\ main' \in {"broken", "dead"}
  /\ \/ UNCHANGED conn
     \/ \E c \in Conns, a \in Answers : conn[c].open /\ conn' = [conn EXCEPT ![c] = Closed(a)]
  /\ defined' \in SUBSET Names /\ mounted' \in SUBSET defined'
  /\ UNCHANGED <<handlers, buffer>>

(* What json_tokener_parse may read from the buffer: the parser stops      *)
(* where the object ends, and halves of two bodies may or may not fit.     *)
Parsed ==
  LET front == buffer[1]
      back == buffer[2]
  IN  CASE front = Junk -> {NoBody}
        [] front # Junk /\ front.part = "whole" -> {front.body}
        [] front # Junk /\ front.part = "first" /\ back # Junk ->
             IF front.body = back.body THEN {front.body}
             ELSE {front.body, back.body, NoBody}
        [] OTHER -> {NoBody}

Answer(c, a) == conn' = [conn EXCEPT ![c] = Closed(a)]
Form(b) == IF b = NoBody THEN "none" ELSE b.form
Survive == main' = main
Die == main' = "dead"

-----------------------------------------------------------------------------
(* The handlers, for the body b that is read from the buffer.              *)

(* execenv_create: ENABLE, whose result is not looked at.  A missing       *)
(* member is a null pointer, which string() does not take.  Any of create, *)
(* mount, and the start may fail, and some failures end the daemon.        *)
ExecEnvCreate(c, b) ==
  \/ Form(b) = "none" /\ Answer(c, "noContent") /\ Survive /\ UNCHANGED lxcVars
  \/ Form(b) \in {"short", "unit"} /\ Die /\ UNCHANGED <<conn, lxcVars>>
  \/ /\ Form(b) = "env"
     /\ defined' \in {defined, defined \cup {b.name}}
     /\ mounted' \in {mounted, mounted \cup ({b.name} \cap defined')}
     /\ (Survive /\ Answer(c, "ok")) \/ (Die /\ UNCHANGED conn)

(* Slip: the container goes with its overlay still mounted.                *)
ExecEnvRmMounted(c, b) ==
  \/ Die /\ UNCHANGED <<conn, lxcVars>>
  \/ /\ Form(b) \in {"short", "env"} /\ b.name \in mounted
     /\ defined' = defined \ {b.name} /\ UNCHANGED mounted
     /\ Survive /\ Answer(c, "ok")

(* execenv_rm: DESTROY.  A failed umount ends the daemon, a failed         *)
(* lxc-destroy is ignored; without a handle from lxc nothing is done.      *)
ExecEnvRm(c, b) ==
  \/ Die /\ UNCHANGED <<conn, lxcVars>>
  \/ /\ Form(b) \in {"short", "env"} /\ b.name \in mounted
     /\ mounted' = mounted \ {b.name} /\ defined' \in {defined, defined \ {b.name}}
     /\ Survive /\ Answer(c, "ok")
  \/ Form(b) \in {"short", "env"} /\ Survive /\ Answer(c, "ok") /\ UNCHANGED lxcVars

(* deployementunit_create: the body must parse, the container exist and    *)
(* the installation succeed.                                               *)
DeploymentUnitCreate(c, b) ==
  /\ \/ Form(b) = "unit" /\ b.name \in defined /\ Answer(c, "ok")
     \/ Answer(c, "conflict")
  /\ Survive /\ UNCHANGED lxcVars

(* execenv_update and deployementunit_delete add to an object as if it     *)
(* were an array, which is undefined.                                      *)
Stub(c) == (Survive /\ Answer(c, "ok")) \/ (Die /\ UNCHANGED conn)

(* get_Server_environment returns no HTTP status when uname fails; the     *)
(* others that read always answer.                                         *)
Handle(h, c, b) ==
  \/ h = "execenv_create" /\ ExecEnvCreate(c, b)
  \/ h = "execenv_rm" /\ ExecEnvRm(c, b)
  \/ h = "deployementunit_create" /\ DeploymentUnitCreate(c, b)
  \/ h = "get_Server_environment" /\ Answer(c, "closed") /\ Survive /\ UNCHANGED lxcVars
  \/ h \in {"execenv_update", "deployementunit_delete"} /\ Stub(c) /\ UNCHANGED lxcVars
  \/ /\ h \in {"supported_API_versions", "get_Server_environment", "execenv_ls",
               "deployementunit_ls"}
     /\ Answer(c, "ok") /\ Survive /\ UNCHANGED lxcVars

(* The search of dispatch_handler: a registered path first, the first in   *)
(* the order of the map that matches (is_match_match_regex: equal but for  *)
(* double slashes), and then a method of that path only.                   *)
Matching(r) == {p \in {k[1] : k \in DOMAIN handlers} : normal[p] = normal[r.path]}
Known(p, r) == <<p, r.method>> \in DOMAIN handlers
Refuse(c) == Answer(c, "closed") /\ UNCHANGED <<main, lxcVars>>
Call(p, c) ==
  \E b \in Parsed : Handle(handlers[<<p, conn[c].request.method>>], c, b)

(* Slip: a request without a handler gets no reply and stays open.         *)
DispatchSilent(c) ==
  /\ Turn(c) /\ conn[c].open /\ conn[c].left = 0
  /\ LET r == conn[c].request
     IN  \/ Matching(r) = {} /\ UNCHANGED <<main, conn, lxcVars>>
         \/ \E p \in Matching(r) : ~Known(p, r) /\ UNCHANGED <<main, conn, lxcVars>>
         \/ \E p \in Matching(r) : Known(p, r) /\ Call(p, c)
  /\ UNCHANGED <<handlers, buffer>>

(* dispatch_handler, for a request that is complete: the handler gets what *)
(* the buffer holds; MHD_NO closes the connection.                         *)
Dispatch(c) ==
  /\ Turn(c) /\ conn[c].open /\ conn[c].left = 0
  /\ LET r == conn[c].request
     IN  \/ Matching(r) = {} /\ Refuse(c)
         \/ \E p \in Matching(r) : ~Known(p, r) /\ Refuse(c)
         \/ \E p \in Matching(r) : Known(p, r) /\ Call(p, c)
  /\ UNCHANGED <<handlers, buffer>>

(* The client has read its answer, and may send another request.           *)
Finish(c) ==
  /\ ~conn[c].open /\ conn[c].answer # "none"
  /\ conn' = [conn EXCEPT ![c] = Free]
  /\ UNCHANGED <<main, handlers, buffer, lxcVars>>

Next ==
  \/ RegisterHandler \/ Start \/ Stop \/ Restart \/ Undefined
  \/ \E c \in Conns : Upload(c) \/ Dispatch(c) \/ Finish(c)
  \/ \E c \in Conns, r \in Requests : FirstCall(c, r)

Spec == Init /\ [][Next]_vars

(* libmicrohttpd goes round the connections that are ready.                *)
Fairness == \A c \in Conns : SF_vars(Dispatch(c))
FairSpec == Spec /\ Fairness

-----------------------------------------------------------------------------
(* The type of every variable. *)
TypeOK ==
  /\ main \in {"register", "listening", "deaf", "broken", "stopped", "dead"}
  /\ DOMAIN handlers \subseteq Paths \X STRING /\ IsFiniteSet(DOMAIN handlers)
  /\ conn \in [Conns -> [open : {FALSE}, answer : Answers \cup {"none"}]
                         \cup [open : {TRUE}, request : Requests, left : 0..2]]
  /\ \A c \in Conns : conn[c].open => conn[c].left <= conn[c].request.pieces
  /\ buffer \in Seq(Cells) /\ Len(buffer) = 2
  /\ mounted \subseteq defined /\ defined \subseteq Names

(* A call back that ends the request of c, and the containers it touches.  *)
Answering(c) == conn[c].open /\ ~conn'[c].open /\ main' = "listening"
TouchesOnly(S) ==
  /\ (defined \ defined') \cup (defined' \ defined) \subseteq S
  /\ (mounted \ mounted') \cup (mounted' \ mounted) \subseteq S

(* A request whose path and method are in the table is never refused:      *)
(* whatever the order of main() and of libmicrohttpd's thread, no request  *)
(* is dispatched before every handler is registered (main.cpp:363-382,     *)
(* httphandler.cpp:135).  The table must have one spelling of each path,   *)
(* as that of main() does: of two, only the first would be looked at.      *)
(* Only a failing uname can close the connection of such a request.        *)
RefusedOnlyUnknown ==
  [][\A c \in Conns : Answering(c) /\ conn'[c].answer = "closed" =>
       \A i \in 1..Len(RouteTable) :
         LET k == RouteTable[i]
         IN  \/ normal[k.path] # normal[conn[c].request.path]
             \/ k.method # conn[c].request.method
             \/ k.handler = "get_Server_environment"]_vars

(* Every request whose body is in is answered or closed, or the daemon is  *)
(* no longer there or no longer sound (the call back returns a queued      *)
(* response or MHD_NO on every path, httphandler.cpp:135-158).             *)
Answered == \A c \in Conns :
  conn[c].open /\ conn[c].left = 0 ~> ~conn[c].open \/ main \in {"dead", "broken"}

(* A request whose body came in one piece of known length acts on the      *)
(* container its body names and on no other, whatever other connections    *)
(* left in the buffer, which is never cleared and holds no terminator: a   *)
(* short body in front of the rest of a longer one is still understood     *)
(* (httphandler.cpp:101-110).  It is so until some piece is longer than    *)
(* the 500 bytes of the buffer (httphandler.cpp:93), in any request: of a  *)
(* daemon that is "broken" nothing is said.                                *)
ActsOnItsBody ==
  [][\A c \in Conns :
       Answering(c) /\ conn[c].request.pieces = 1 /\ conn[c].request.sized =>
         /\ TouchesOnly({conn[c].request.body.name})
         /\ conn'[c].answer # "noContent"]_vars

=============================================================================
