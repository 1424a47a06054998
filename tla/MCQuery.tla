------------------------------- MODULE MCQuery -------------------------------
(* Model-checking instances of Query. *)
EXTENDS Query

CONSTANTS p1, p2, p3

MCPaths == {p1, p2, p3}
\* p1 has no deriver, p2 a NAR hash that is no SHA-256, p3 is not a store path.
MCNoDeriver == {p1}
MCBadHash == {p2}
MCNotStore == {p3}
MCLocalFiles == {{p1, p2}}
\* A server may answer for p2 with the narinfo of p1.
MCMisfiled == {<<p2, p1>>}
NoneMisfiled == {}
MCQueries == {<<p3, p1, p2>>}
=============================================================================
