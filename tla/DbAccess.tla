-------------------------------- MODULE DbAccess --------------------------------
(***************************************************************************)
(* How a project's database is reached (src/pgforge/editor.go, admin.go,   *)
(* projects.go, instances.go): the pool the panel keeps per slug, the      *)
(* password its owner connects with, and the file the pooler takes both    *)
(* from.  A rotation changes role, row and file one after the other; a     *)
(* migration moves the database from the shared cluster to a container of  *)
(* its own, and its row last.                                              *)
(***************************************************************************)
EXTENDS Naturals

CONSTANTS
    Rotators,       \* requests to rotate the password
    MaxPasswords    \* bound: passwords ever made

ASSUME AccessAssumption == MaxPasswords \in Nat \ {0}

VARIABLES
    place,      \* the row: the project's mode
    stored,     \*          and its password
    rolePw,     \* the role of the shared cluster
    boxPw,      \* the container's superuser, 0: no container
    parked,     \* the shared database is renamed
    userlist,   \* the password the pooler knows, 0: not listed
    pool,       \* projConns: none, or where it leads and with which password
    rotators,   \* changeDBPassword
    mover,      \* migrateToInstance
    passwords,  \* passwords made
    amiss       \* history: what an overlap or a failure has touched

accessVars == <<place, stored, rolePw, boxPw, parked, userlist, pool, rotators,
                mover, passwords, amiss>>

Doing(pc, pw) == [pc |-> pc, pw |-> pw]
NotDoing == Doing("idle", 0)
NoPool == [to |-> "none", pw |-> 0]

AccessTypeOK ==
    /\ place \in {"shared", "instance"} /\ parked \in BOOLEAN
    /\ {stored, rolePw, boxPw, userlist} \subseteq 0..MaxPasswords
    /\ pool \in [to : {"none", "shared", "instance"}, pw : 0..MaxPasswords]
    /\ rotators \in [Rotators -> [pc : {"idle", "row", "read", "write"}, pw : 0..MaxPasswords]]
    /\ mover \in [pc : {"idle", "copy", "park", "row"}, pw : 0..MaxPasswords]
    /\ passwords \in 1..MaxPasswords
    /\ amiss \subseteq {"role", "list", "box", "pool"}

\* provisionProject: role, row and file have the first password.
AccessInit ==
    /\ place = "shared" /\ stored = 1 /\ rolePw = 1 /\ boxPw = 0 /\ parked = FALSE
    /\ userlist = 1 /\ pool = NoPool
    /\ rotators = [c \in Rotators |-> NotDoing] /\ mover = NotDoing
    /\ passwords = 1 /\ amiss = {}

-----------------------------------------------------------------------------
(* dbFor, closeConn                                                        *)

dbFor ==
    /\ pool = NoPool
    /\ pool' = IF place = "instance" THEN [to |-> "instance", pw |-> stored]
               ELSE [to |-> "shared", pw |-> 0]         \* as the cluster's superuser
    /\ amiss' = IF place = "shared" /\ mover.pc \in {"park", "row"}
                THEN amiss \cup {"pool"} ELSE amiss
    /\ UNCHANGED <<place, stored, rolePw, boxPw, parked, userlist, rotators, mover, passwords>>

\* suspend, reset, a restore, a branch expiring
closeConn ==
    /\ pool # NoPool /\ pool' = NoPool /\ amiss' = amiss \ {"pool"}
    /\ UNCHANGED <<place, stored, rolePw, boxPw, parked, userlist, rotators, mover, passwords>>

-----------------------------------------------------------------------------
(* changeDBPassword                                                        *)

Rotating == {c \in Rotators : rotators[c] # NotDoing}

\* ALTER ROLE, in the shared cluster whatever the mode.
AlterRole(c) ==
    /\ c \notin Rotating /\ passwords < MaxPasswords /\ passwords' = passwords + 1
    /\ rolePw' = passwords'
    /\ rotators' = [rotators EXCEPT ![c] = Doing("row", passwords')]
    /\ amiss' = amiss \cup (IF Rotating # {} THEN {"role", "list"} ELSE {})
                      \cup (IF place = "instance" \/ mover # NotDoing THEN {"box"} ELSE {})
    /\ UNCHANGED <<place, stored, boxPw, parked, userlist, pool, mover>>

\* The file made before the row is changed.
StorePasswordLast(c) ==
    /\ rotators[c].pc = "row"
    /\ \/ stored' = rotators[c].pw /\ UNCHANGED amiss
       \/ amiss' = amiss \cup {"role"} /\ UNCHANGED stored
    /\ userlist' = IF place = "shared" THEN stored ELSE 0
    /\ rotators' = [rotators EXCEPT ![c] = NotDoing]
    /\ UNCHANGED <<place, rolePw, boxPw, parked, pool, mover, passwords>>
\* UPDATE projects; its error is ignored.
StorePassword(c) ==
    /\ rotators[c].pc = "row"
    /\ \/ stored' = rotators[c].pw /\ UNCHANGED amiss
       \/ amiss' = amiss \cup {"role"} /\ UNCHANGED stored
    /\ rotators' = [rotators EXCEPT ![c].pc = "read"]
    /\ UNCHANGED <<place, rolePw, boxPw, parked, userlist, pool, mover, passwords>>

\* rewriteUserlist: the rows of the shared cluster ...
ReadRows(c) ==
    /\ rotators[c].pc = "read"
    /\ rotators' = [rotators EXCEPT ![c] = Doing("write", IF place = "shared" THEN stored ELSE 0)]
    /\ amiss' = IF \E d \in Rotators \ {c} : rotators[d].pc = "write"
                THEN amiss \cup {"list"} ELSE amiss \ {"list"}
    /\ UNCHANGED <<place, stored, rolePw, boxPw, parked, userlist, pool, mover, passwords>>

\* ... and the file.
WriteList(c) ==
    /\ rotators[c].pc = "write" /\ rotators' = [rotators EXCEPT ![c] = NotDoing]
    /\ \/ userlist' = rotators[c].pw /\ UNCHANGED amiss
       \/ amiss' = amiss \cup {"list"} /\ UNCHANGED userlist
    /\ UNCHANGED <<place, stored, rolePw, boxPw, parked, pool, mover, passwords>>

-----------------------------------------------------------------------------
(* migrateToInstance                                                       *)

\* The credential, and a container made with it.
MoveBegins ==
    /\ mover = NotDoing /\ place = "shared" /\ boxPw = 0 /\ ~parked
    /\ mover' = Doing("copy", stored) /\ boxPw' = stored
    /\ amiss' = IF Rotating # {} THEN amiss \cup {"box"} ELSE amiss \ {"box"}
    /\ UNCHANGED <<place, stored, rolePw, parked, userlist, pool, rotators, passwords>>

MoveFails ==
    /\ mover.pc = "copy" /\ mover' = NotDoing /\ boxPw' = 0
    /\ UNCHANGED <<place, stored, rolePw, parked, userlist, pool, rotators, passwords, amiss>>

\* The data is copied; closeConn.
Flip ==
    /\ mover.pc = "copy" /\ mover' = [mover EXCEPT !.pc = "park"] /\ pool' = NoPool
    /\ UNCHANGED <<place, stored, rolePw, boxPw, parked, userlist, rotators, passwords, amiss>>

\* ALTER DATABASE RENAME; a connection made since makes it fail.
Park ==
    /\ mover.pc = "park"
    /\ \/ mover' = [mover EXCEPT !.pc = "row"] /\ parked' = TRUE
       \/ mover' = NotDoing /\ UNCHANGED parked
    /\ UNCHANGED <<place, stored, rolePw, boxPw, userlist, pool, rotators, passwords, amiss>>

\* The row; the pooler's file stays as it is.
SetMode ==
    /\ mover.pc = "row" /\ mover' = NotDoing /\ place' = "instance"
    /\ amiss' = amiss \cup {"list"}
    /\ UNCHANGED <<stored, rolePw, boxPw, parked, userlist, pool, rotators, passwords>>

\* The panel stops: its pools go, its handlers end where they are.
AccessRestart ==
    /\ pool' = NoPool /\ mover' = NotDoing
    /\ rotators' = [c \in Rotators |-> NotDoing]
    /\ amiss' = (amiss \ {"pool"})
          \cup (IF \E c \in Rotators : rotators[c].pc = "row" THEN {"role"} ELSE {})
          \cup (IF Rotating # {} THEN {"list"} ELSE {})
    /\ UNCHANGED <<place, stored, rolePw, boxPw, parked, userlist, passwords>>

AccessNext ==
    \/ dbFor \/ closeConn
    \/ \E c \in Rotators : AlterRole(c) \/ StorePassword(c) \/ ReadRows(c) \/ WriteList(c)
    \/ MoveBegins \/ MoveFails \/ Flip \/ Park \/ SetMode
    \/ AccessRestart

AccessSpec == AccessInit /\ [][AccessNext]_accessVars

-----------------------------------------------------------------------------
\* "Connections are cached per slug" (editor.go:26-27): a pool leads to where
\* the project's data is and with a password that is taken there, unless it
\* was made between a migration's closeConn and its row, or a restart came
\* between the renaming and the row.  A rotation that is
\* over has put one password into the role, the row and the pooler's file,
\* unless rotations overlapped or one of its steps failed; the file is not
\* rewritten by a migration.  A container knows the row's password unless it
\* was rotated during the copy or since: ALTER ROLE runs in the shared cluster
\* even for a project that has left it (admin.go:281).
CredentialsAgree ==
    mover = NotDoing /\ Rotating = {} =>
      /\ "role" \notin amiss => rolePw = stored
      /\ "list" \notin amiss /\ "role" \notin amiss => userlist = (IF place = "shared" THEN stored ELSE 0)
      /\ place = "instance" /\ "box" \notin amiss => boxPw = stored
      /\ pool # NoPool /\ "pool" \notin amiss /\ (parked <=> place = "instance") =>
           /\ pool.to = place
           /\ pool.to = "instance" /\ "box" \notin amiss => pool.pw = boxPw
=============================================================================
