------------------------------ MODULE Request ------------------------------
(***************************************************************************)
(* A request on its way: the client's front end (Front) hands it to the    *)
(* tunnel, and the server asks its filter (Geo) whether the destination    *)
(* may be dialled.  The filter's table is read once at start-up; here it   *)
(* is built when the request has left the front end, which is the same,    *)
(* as neither looks at the other's state.                                  *)
(***************************************************************************)
EXTENDS Front, Geo

vars == <<frontVars, geoVars>>

Init == FrontInit /\ GeoInit

Client == FrontNext /\ UNCHANGED geoVars
Server == stage = "gone" /\ GeoNext /\ UNCHANGED frontVars
Next   == Client \/ Server

Spec == Init /\ [][Next]_vars
\* Every read and write of ClientServe has a deadline of 10 s, and the
\* scheduler runs its goroutine; nothing in buildRoutingTable and Find waits,
\* and connectToDest asks the filter before it does anything else.
FairSpec == Spec /\ WF_vars(Serve /\ UNCHANGED geoVars) /\ WF_vars(Server)

-----------------------------------------------------------------------------
TypeOK == FrontTypeOK /\ GeoTypeOK

\* Every accepted connection is closed or handed over, whatever the application
\* sends or withholds, and the filter answers about each one handed over: its
\* trie gets built and every lookup in it ends.
Settled == <>(stage = "closed" \/ pc = "done")
=============================================================================
