------------------------------ MODULE SigningKeys ------------------------------
(***************************************************************************)
(* The asymmetric signing keys of one project (src/pgforge/jwks.go).  A    *)
(* row of api_config holds the current key pair and the previous public    *)
(* key.  A token signed RS256 must verify in three places that learn of a  *)
(* key at different moments: the panel's own cache rsPubs, the JWKS        *)
(* endpoint (which reads the row), and the project's PostgREST process,    *)
(* which was given the keys when it started.                               *)
(***************************************************************************)
EXTENDS Naturals, FiniteSets

CONSTANTS
    MaxKeys,        \* bound: key pairs ever generated; kid k names pair k
    KeyClients      \* requests being served at once

ASSUME KeysAssumption == MaxKeys \in Nat /\ IsFiniteSet(KeyClients)

Kids == 1..MaxKeys

VARIABLES
    row,      \* rs_kid (with rs_pub), rs_priv_enc, rs_old_kid, rs_enabled
    rsPubs,   \* kids the panel process can verify
    pgrst,    \* the PostgREST process: whether it runs, kids it was given
    starter,  \* the request that holds the lock of the process map
    todo,     \* what each request executes next
    jwts    \* RS256 tokens in circulation: the kid they name, the key that
              \* signed, whether the row changed between the two reads

keyVars == <<row, rsPubs, pgrst, starter, todo, jwts>>

NoOne == "no one"
Rest == [pc |-> "idle", kid |-> 0]
Stopped == [up |-> FALSE, kids |-> {}]
Published == {row.kid, row.old} \ {0}      \* jwksJSON

KeysTypeOK ==
    /\ row \in [kid : Kids \cup {0}, priv : Kids \cup {0}, old : Kids \cup {0},
                enabled : BOOLEAN]
    /\ rsPubs \subseteq Kids
    /\ pgrst \in [up : BOOLEAN, kids : SUBSET Kids]
    /\ starter \in KeyClients \cup {NoOne}
    /\ todo \in [KeyClients ->
         [pc : {"idle", "sign", "generate", "register", "enable", "stop"},
          kid : Kids \cup {0}]]
    /\ jwts \subseteq [kid : Kids, key : Kids, torn : BOOLEAN]

KeysInit ==
    /\ row = [kid |-> 0, priv |-> 0, old |-> 0, enabled |-> FALSE]
    /\ rsPubs = {}
    /\ pgrst = Stopped
    /\ starter = NoOne
    /\ todo = [c \in KeyClients |-> Rest]
    /\ jwts = {}

Do(c, pc, kid) == todo' = [todo EXCEPT ![c] = [pc |-> pc, kid |-> kid]]

-----------------------------------------------------------------------------
(* resignRS reads the kid, then the private key, with two queries.         *)

ReadKid(c) ==
    /\ todo[c] = Rest /\ row.enabled /\ row.kid # 0
    /\ Do(c, "sign", row.kid)
    /\ UNCHANGED <<row, rsPubs, pgrst, starter, jwts>>

Sign(c) ==
    /\ todo[c].pc = "sign"
    /\ jwts' = jwts \cup
         {[kid |-> todo[c].kid, key |-> row.priv, torn |-> row.kid # todo[c].kid]}
    /\ Do(c, "idle", 0)
    /\ UNCHANGED <<row, rsPubs, pgrst, starter>>

-----------------------------------------------------------------------------
(* jwksToggle.                                                             *)

\* "enable" generates a pair only when there is none.
ToggleOn(c) ==
    /\ todo[c] = Rest
    /\ Do(c, IF row.kid = 0 THEN "generate" ELSE "enable", 0)
    /\ UNCHANGED <<row, rsPubs, pgrst, starter, jwts>>

Rotate(c) ==
    /\ todo[c] = Rest
    /\ Do(c, "generate", 0)
    /\ UNCHANGED <<row, rsPubs, pgrst, starter, jwts>>

ToggleOff(c) ==
    /\ todo[c] = Rest
    /\ row' = [row EXCEPT !.enabled = FALSE]
    /\ Do(c, "stop", 0)
    /\ UNCHANGED <<rsPubs, pgrst, starter, jwts>>

\* rsGenerate: one UPDATE moves the current kid to the old one and stores the
\* new pair, in the order the UPDATEs commit.
Generate(c) ==
    /\ todo[c].pc = "generate" /\ row.kid < MaxKeys
    /\ row' = [row EXCEPT !.old = row.kid, !.kid = row.kid + 1, !.priv = row.kid + 1]
    /\ Do(c, "register", row.kid + 1)
    /\ UNCHANGED <<rsPubs, pgrst, starter, jwts>>

\* rsRegister; enabling still has the flag to set, rotating does not.
Register(c) ==
    /\ todo[c].pc = "register"
    /\ rsPubs' = rsPubs \cup {todo[c].kid}
    /\ \E next \in {"enable", "stop"} : Do(c, next, 0)
    /\ UNCHANGED <<row, pgrst, starter, jwts>>

SetEnabled(c) ==
    /\ todo[c].pc = "enable"
    /\ row' = [row EXCEPT !.enabled = TRUE]
    /\ Do(c, "stop", 0)
    /\ UNCHANGED <<rsPubs, pgrst, starter, jwts>>

\* stopPostgREST, under the lock: the next request starts one with the new set.
Stop(c) ==
    /\ todo[c].pc = "stop" /\ starter = NoOne
    /\ pgrst' = Stopped
    /\ Do(c, "idle", 0)
    /\ UNCHANGED <<row, rsPubs, starter, jwts>>

-----------------------------------------------------------------------------
(* ensurePostgREST holds the lock while pgrstJWKSecret reads the row twice. *)

StartReadEnabled(c) ==
    /\ todo[c] = Rest /\ starter = NoOne /\ ~pgrst.up
    /\ IF row.enabled
       THEN starter' = c /\ UNCHANGED pgrst
       ELSE pgrst' = [up |-> TRUE, kids |-> {}] /\ UNCHANGED starter
    /\ UNCHANGED <<row, rsPubs, todo, jwts>>

StartReadKeys(c) ==
    /\ starter = c
    /\ pgrst' = [up |-> TRUE, kids |-> Published]
    /\ starter' = NoOne
    /\ UNCHANGED <<row, rsPubs, todo, jwts>>

\* The idle reaper and every other stop of the process.
OtherStop ==
    /\ starter = NoOne /\ pgrst.up
    /\ pgrst' = Stopped
    /\ UNCHANGED <<row, rsPubs, starter, todo, jwts>>

\* The panel restarts with whatever its requests had left undone: the cache is
\* filled from the row, the processes are gone.
BootNoOld ==
    /\ rsPubs' = {row.kid} \ {0}
    /\ pgrst' = Stopped /\ starter' = NoOne
    /\ todo' = [c \in KeyClients |-> Rest]
    /\ UNCHANGED <<row, jwts>>

Boot ==
    /\ rsPubs' = Published
    /\ pgrst' = Stopped /\ starter' = NoOne
    /\ todo' = [c \in KeyClients |-> Rest]
    /\ UNCHANGED <<row, jwts>>

\* A client signs in again or its token expires.
TokenDies(t) ==
    /\ jwts' = jwts \ {t}
    /\ UNCHANGED <<row, rsPubs, pgrst, starter, todo>>

KeysNext ==
    \/ \E c \in KeyClients :
         \/ ReadKid(c) \/ Sign(c)
         \/ ToggleOn(c) \/ Rotate(c) \/ ToggleOff(c)
         \/ Generate(c) \/ Register(c) \/ SetEnabled(c) \/ Stop(c)
         \/ StartReadEnabled(c) \/ StartReadKeys(c)
    \/ OtherStop \/ Boot
    \/ \E t \in jwts : TokenDies(t)

KeysSpec == KeysInit /\ [][KeysNext]_keyVars

-----------------------------------------------------------------------------
Before(pcs) == \E c \in KeyClients : todo[c].pc \in pcs
Sound(t) == t.kid = t.key /\ t.kid \in Published

\* Rotation keeps outstanding tokens valid: a token signed with the current
\* or the previous pair names the pair that signed it, is found in the JWKS,
\* verifies in the panel (also after a restart) once the new pair is
\* registered, and verifies in a running PostgREST once the toggle in
\* progress has stopped the old process.  Excepted is a token whose signing
\* the rotation overtook between the two reads.
KeysServeTokens ==
    \A t \in jwts :
      ~t.torn /\ t.kid + 1 >= row.kid =>
        /\ Sound(t)
        /\ ~Before({"register"}) => t.kid \in rsPubs
        /\ row.enabled /\ pgrst.up /\ ~Before({"register", "enable", "stop"}) =>
             t.kid \in pgrst.kids
=============================================================================
