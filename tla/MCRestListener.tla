--------------------------- MODULE MCRestListener ---------------------------
(* Two connections, two containers, the routes of main(), requests for     *)
(* each of its handlers, and one whose body is longer than the buffer.     *)
EXTENDS RestListener

CONSTANTS n1, n2, c1, c2

Entry(p, m, h) == [path |-> p, method |-> m, handler |-> h]
MCRouteTable == <<
  Entry("/", "GET", "supported_API_versions"),
  Entry("/2.0/", "GET", "get_Server_environment"),
  Entry("/2.0/execenv", "POST", "execenv_create"),
  Entry("/2.0/execenv", "GET", "execenv_ls"),
  Entry("/2.0/execenv", "DELETE", "execenv_rm"),
  Entry("/2.0/execenv", "UPDATE", "execenv_update"),
  Entry("/2.0/deployementunit", "POST", "deployementunit_create"),
  Entry("/2.0/deployementunit", "GET", "deployementunit_ls"),
  Entry("/2.0/deployementunit", "DELETE", "deployementunit_delete") >>

MCPaths == {"/", "/2.0/", "/2.0/execenv", "/2.0//execenv", "/2.0/deployementunit"}
MCnormal == [p \in MCPaths |-> IF p = "/2.0//execenv" THEN "/2.0/execenv" ELSE p]

Body(n, f) == [name |-> n, form |-> f]
MCBodies == {Body(n1, "short"), Body(n2, "short"), Body(n1, "env"), Body(n2, "env"),
             Body(n1, "unit")}

Request(p, m, b, k, z) ==
  [path |-> p, method |-> m, body |-> b, pieces |-> k, sized |-> z, fits |-> TRUE]
TooLong(r) == [r EXCEPT !.fits = FALSE]
MCRequests == {
  Request("/2.0/", "GET", NoBody, 0, TRUE),
  Request("/", "DELETE", NoBody, 0, TRUE),
  Request("/2.0/execenv", "UPDATE", NoBody, 0, TRUE),
  Request("/2.0//execenv", "POST", Body(n1, "env"), 1, TRUE),
  TooLong(Request("/2.0/execenv", "POST", Body(n1, "env"), 1, TRUE)),
  Request("/2.0/execenv", "POST", Body(n2, "env"), 2, TRUE),
  Request("/2.0/execenv", "POST", Body(n2, "env"), 1, FALSE),
  Request("/2.0/execenv", "DELETE", Body(n1, "short"), 1, TRUE),
  Request("/2.0/execenv", "DELETE", Body(n2, "short"), 1, FALSE),
  Request("/2.0/deployementunit", "POST", Body(n1, "unit"), 2, FALSE),
  Request("/2.0/deployementunit", "GET", NoBody, 0, TRUE) }

=============================================================================
