---------------------------- MODULE HttpLiteral ----------------------------
(* http_literal.cc, and what a request says of its connection.             *)

gHttpMethods == {"GET", "POST", "HEAD", "PUT", "DELETE"}
gHttpVersions == {"1.0", "1.1"}
Absent == "absent"  \* no such key in headers_

\* "Keep-Alive" closes a version 1.0 connection.
toClose(request) ==
  \/ request.connection = "close"
  \/ request.connection = "Keep-Alive" /\ request.version = "1.0"
=============================================================================
