---------------------------- MODULE ForeignServers ----------------------------
(***************************************************************************)
(* A foreign server of one name in a project's database (src/pgforge/      *)
(* fdw.go): created by three statements in no transaction, undone by a     *)
(* DROP ... CASCADE when one of them fails, imported from and dropped by   *)
(* requests that run at once.                                              *)
(***************************************************************************)
EXTENDS Naturals, FiniteSets

CONSTANTS
    FdwClients,     \* requests being served at once
    MaxServers      \* bound: requests that ask for the server

ASSUME FdwAssumption == MaxServers \in Nat

VARIABLES
    server,     \* the request whose host it has, or 0 when there is none
    mapping,    \* the request whose user and password it has, or 0
    usable,     \* the project's role was granted its use
    foreign,    \* tables of the local schema: "none", "there", "granted"
    fdw,        \* what each request executes next
    asked,      \* requests so far
    killed      \* history: a request ended between two statements

fdwVars == <<server, mapping, usable, foreign, fdw, asked, killed>>

NoFdw == [pc |-> "idle", n |-> 0]

FdwTypeOK ==
    /\ server \in 0..MaxServers /\ mapping \in 0..MaxServers
    /\ usable \in BOOLEAN /\ foreign \in {"none", "there", "granted"}
    /\ asked \in 0..MaxServers /\ killed \in BOOLEAN
    /\ fdw \in [FdwClients ->
         [pc : {"idle", "server", "mapping", "grant", "undo", "select"},
          n : 0..MaxServers]]

FdwInit ==
    /\ server = 0 /\ mapping = 0 /\ usable = FALSE /\ foreign = "none"
    /\ fdw = [c \in FdwClients |-> NoFdw] /\ asked = 0 /\ killed = FALSE

FdwGoes(c, pc) == fdw' = [fdw EXCEPT ![c].pc = pc]
FdwRests(c) == fdw' = [fdw EXCEPT ![c] = NoFdw]
\* DROP SERVER IF EXISTS ... CASCADE
ServerGone == server' = 0 /\ mapping' = 0 /\ usable' = FALSE /\ foreign' = "none"

-----------------------------------------------------------------------------
(* fdwCreate.  Every statement can also fail for reasons of its own.       *)

FdwCreate(c) ==
    /\ fdw[c] = NoFdw /\ asked < MaxServers /\ asked' = asked + 1
    /\ fdw' = [fdw EXCEPT ![c] = [pc |-> "server", n |-> asked + 1]]
    /\ UNCHANGED <<server, mapping, usable, foreign, killed>>

CreateServer(c) ==
    /\ fdw[c].pc = "server"
    /\ \/ server = 0 /\ server' = fdw[c].n /\ FdwGoes(c, "mapping")
       \/ FdwGoes(c, "undo") /\ UNCHANGED server
    /\ UNCHANGED <<mapping, usable, foreign, asked, killed>>

CreateMapping(c) ==
    /\ fdw[c].pc = "mapping"
    /\ \/ /\ server # 0 /\ mapping = 0
          /\ mapping' = fdw[c].n /\ FdwGoes(c, "grant")
       \/ FdwGoes(c, "undo") /\ UNCHANGED mapping
    /\ UNCHANGED <<server, usable, foreign, asked, killed>>

GrantUsage(c) ==
    /\ fdw[c].pc = "grant"
    /\ \/ server # 0 /\ usable' = TRUE /\ FdwRests(c)
       \/ FdwGoes(c, "undo") /\ UNCHANGED usable
    /\ UNCHANGED <<server, mapping, foreign, asked, killed>>

\* Whatever failed, and whoever made the server.
UndoServer(c) ==
    /\ fdw[c].pc = "undo"
    /\ ServerGone /\ FdwRests(c)
    /\ UNCHANGED <<asked, killed>>

-----------------------------------------------------------------------------
(* fdwImport and fdwDrop.                                                  *)

\* IMPORT connects with the mapping, and fails whole when a table is there.
FdwImport(c) ==
    /\ fdw[c] = NoFdw /\ mapping # 0 /\ foreign = "none"
    /\ foreign' = "there" /\ FdwGoes(c, "select")
    /\ UNCHANGED <<server, mapping, usable, asked, killed>>

\* GRANT SELECT ON ALL TABLES of the schema: on those there are by now.
GrantSelect(c) ==
    /\ fdw[c].pc = "select"
    /\ foreign' = IF foreign = "there" THEN "granted" ELSE foreign
    /\ FdwRests(c)
    /\ UNCHANGED <<server, mapping, usable, asked, killed>>

FdwDrop(c) ==
    /\ fdw[c] = NoFdw /\ server # 0
    /\ ServerGone
    /\ UNCHANGED <<fdw, asked, killed>>

\* The panel restarts, or the database is gone for the rest of the request.
FdwKilled ==
    /\ \E c \in FdwClients : fdw[c] # NoFdw
    /\ fdw' = [c \in FdwClients |-> NoFdw] /\ killed' = TRUE
    /\ UNCHANGED <<server, mapping, usable, foreign, asked>>

FdwNext ==
    \/ \E c \in FdwClients :
         \/ FdwCreate(c) \/ CreateServer(c) \/ CreateMapping(c) \/ GrantUsage(c)
         \/ UndoServer(c) \/ FdwImport(c) \/ GrantSelect(c) \/ FdwDrop(c)
    \/ FdwKilled

FdwSpec == FdwInit /\ [][FdwNext]_fdwVars

-----------------------------------------------------------------------------
\* A server at rest is whole: the host, the credentials and the grant of one
\* request, and its tables can be read; whatever order requests for the same
\* name create, fail, undo and drop in.  Not claimed after a request was killed
\* between two statements.  That a server which was reported as connected stays
\* is not claimed at all: a second request for the name fails and its undoing
\* drops the first one's server with the tables imported from it.
ServersWhole ==
    (~killed /\ \A c \in FdwClients : fdw[c] = NoFdw) =>
        /\ server = mapping
        /\ usable <=> server # 0
        /\ foreign \in {"none", "granted"}
=============================================================================
