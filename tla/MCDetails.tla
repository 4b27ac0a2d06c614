----------------------------- MODULE MCDetails ------------------------------
(***************************************************************************)
(* Two clicks on Details of two products, racing for the connection with   *)
(* an effect of the page, while sockets close and open again.              *)
(***************************************************************************)
EXTENDS Details

CONSTANTS page, r1, r2, p, q

MCRequests == {r1, r2}
MCCallers == {page, r1, r2}
MCProducts == {p, q}
=============================================================================
