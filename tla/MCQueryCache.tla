--------------------------- MODULE MCQueryCache ---------------------------
(* QueryCache for every query of the application.                          *)
EXTENDS QueryCache

AllQueries == DOMAIN Queries
=============================================================================
