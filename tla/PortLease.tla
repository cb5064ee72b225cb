------------------------------ MODULE PortLease ------------------------------
(***************************************************************************)
(* What the cache of PostgREST processes promises to whoever asks where a  *)
(* project's Data API is: a project has one port or none, two projects     *)
(* never have the same one, a project gets another port only after giving  *)
(* its own back, and an address that was found to answer stays the same    *)
(* until it is given back.  DataApi is shown to implement it.              *)
(***************************************************************************)
CONSTANTS Slugs, Ports, None

VARIABLES
  lease,    \* the port of each project, None when it has none
  ready     \* projects whose port was found to answer

LeaseInit ==
  /\ lease = [s \in Slugs |-> None]
  /\ ready = {}

Take(s, q) ==
  /\ lease[s] = None
  /\ \A t \in Slugs : lease[t] # q
  /\ lease' = [lease EXCEPT ![s] = q]
  /\ UNCHANGED ready

Confirm(s) ==
  /\ lease[s] # None
  /\ ready' = ready \cup {s}
  /\ UNCHANGED lease

\* One project is stopped, or the reaper's sweep stops several.
GiveBack(S) ==
  /\ lease' = [s \in Slugs |-> IF s \in S THEN None ELSE lease[s]]
  /\ ready' = ready \ S

LeaseNext ==
  \/ \E s \in Slugs : Confirm(s) \/ \E q \in Ports : Take(s, q)
  \/ \E S \in SUBSET Slugs : GiveBack(S)

LeaseSpec == LeaseInit /\ [][LeaseNext]_<<lease, ready>>
=============================================================================
