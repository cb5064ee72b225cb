------------------------------ MODULE SchemaTools ------------------------------
(***************************************************************************)
(* The forms that change a project's schema (src/pgforge/editor.go,        *)
(* objects.go, rls.go, migrations.go, admin.go): each checks the name it   *)
(* was given against the catalogue, and then runs its statements one by    *)
(* one, on connections of the superuser, without a transaction around      *)
(* them: the DDL, ALTER ... OWNER to the project's role, ENABLE ROW LEVEL  *)
(* SECURITY, and the notice that makes PostgREST read the catalogue again. *)
(* A form is the list of what it has left to run.  Privileges (the GRANTs  *)
(* of the policy forms) and what a table holds are not in the state.       *)
(***************************************************************************)
EXTENDS Naturals, Sequences, FiniteSets, SequencesExt

CONSTANTS
    Tables,         \* names
    Editors,        \* people at work at once
    MaxForms        \* bound: forms handed in

ASSUME SchemaAssumption == Tables # {} /\ MaxForms \in Nat

VARIABLES
    extra,      \* whether there is a schema beside public
    rel,        \* what has which name; types share the names of tables
    form,       \* what each editor's request has left to do
    cache,      \* PostgREST's picture: fresh, stale, or stale with nobody to say so
    due,        \* a notice PostgREST has not acted on
    forms       \* handed in

schemaVars == <<extra, rel, form, cache, due, forms>>

Places == {"public", "extra"} \X Tables
Kinds == {"none", "table", "view", "type"}

\* own: "super" waits for its change of owner, "left" is what no one will
\* change, "written" was made in the SQL editor, which changes no owner.
\* rls: "off" was switched off by hand, "failed" by an error or a race.
Thing(kind, own) == [kind |-> kind, own |-> own, policy |-> FALSE, rls |-> "unset"]
Nothing == Thing("none", "project")
Things == [kind : Kinds, own : {"super", "project", "left", "written"},
           policy : BOOLEAN, rls : {"unset", "on", "off", "failed"}]

NoPlace == <<"none", "none">>
Idle == [todo |-> <<>>, at |-> NoPlace, to |-> NoPlace]

SchemaTypeOK ==
    /\ extra \in BOOLEAN /\ due \in BOOLEAN
    /\ rel \in [Places -> Things]
    /\ \A e \in Editors : /\ {form[e].at, form[e].to} \subseteq Places \cup {NoPlace}
                          /\ Len(form[e].todo) <= 4
    /\ cache \in {"fresh", "stale", "untold"} /\ forms \in 0..MaxForms

SchemaInit ==
    /\ extra = FALSE /\ rel = [p \in Places |-> Nothing]
    /\ form = [e \in Editors |-> Idle]
    /\ cache = "fresh" /\ due = FALSE /\ forms = 0

\* A schema that is gone stands for public.
edSchema(s) == IF s = "extra" /\ extra THEN s ELSE "public"

relKind(p) == rel[p].kind
tableIn(p) == relKind(p) = "table"
publicTableExists(p) == tableIn(p) /\ p[1] = "public"

-----------------------------------------------------------------------------
(* The forms: the check, and what is then run.                             *)

Form(ok, p, q, todo) == [ok |-> ok, at |-> p, to |-> q, todo |-> todo]

createTable(p)      == Form(TRUE, p, p, <<"create table", "own table", "say">>)
duplicateTable(p, q) == Form(tableIn(p), p, q, <<"create table", "own table", "copy", "say">>)
duplicateEmpty(p, q) == Form(tableIn(p), p, q, <<"create table", "own table", "say">>)
importCSV(p)        == Form(TRUE, p, p, <<"import", "own table", "say">>)
tableRename(p, q)   == Form(tableIn(p) /\ p # q, p, q, <<"rename", "say">>)
\* Announced before it is done.
dropTableSaidFirst(p) == Form(tableIn(p), p, p, <<"say", "drop table">>)
dropTable(p) ==
    Form(relKind(p) \in {"table", "view"}, p, p,
         IF relKind(p) = "view" THEN <<"drop view", "say">> ELSE <<"drop table", "say">>)

addColumn(p)        == Form(tableIn(p), p, p, <<"alter", "say">>)
dropColumn(p)       == Form(tableIn(p), p, p, <<"alter", "say">>)
columnAlter(p)      == Form(tableIn(p), p, p, <<"alter", "say">>)
constraintCreate(p) == Form(tableIn(p), p, p, <<"alter", "say">>)
constraintDrop(p)   == Form(tableIn(p), p, p, <<"alter", "say">>)
functionCreate(p)   == Form(TRUE, p, p, <<"function", "say">>)
functionDrop(p)     == Form(TRUE, p, p, <<"function", "say">>)

\* PostgREST keeps none of these: nothing is said.
triggerCreate(p) == Form(tableIn(p), p, p, <<"quiet">>)
triggerToggle(p) == Form(tableIn(p), p, p, <<"quiet">>)
triggerDrop(p)   == Form(tableIn(p), p, p, <<"quiet">>)
indexCreate(p)   == Form(tableIn(p), p, p, <<"quiet">>)
indexDrop(p)     == Form(tableIn(p), p, p, <<"quiet">>)
tableComment(p)  == Form(relKind(p) \in {"table", "view"}, p, p, <<"quiet">>)
publicationCreate(p) == Form(publicTableExists(p), p, p, <<"quiet">>)
toggleForceRLS(p) == Form(publicTableExists(p), p, p, <<"quiet">>)
enumCreate(p)    == Form(TRUE, p, p, <<"create type", "own type">>)
enumAddValue(p)  == Form(relKind(p) = "type", p, p, <<"quiet type">>)
enumRenameValue(p) == Form(relKind(p) = "type", p, p, <<"quiet type">>)
enumDrop(p)      == Form(relKind(p) = "type", p, p, <<"drop type">>)
schemaCreate(p)  == Form(TRUE, p, p, <<"create schema">>)
schemaDrop(p)    == Form(p[1] = "extra", p, p, <<"drop schema">>)

\* Policies are for the tables of public.
toggleRLS(p, on) == Form(publicTableExists(p), p, p, <<IF on THEN "on" ELSE "off", "say">>)
addPolicy(p)     == Form(publicTableExists(p), p, p, <<"policy", "enable", "say">>)
policyCreate(p)  == Form(publicTableExists(p), p, p, <<"policy", "enable", "say">>)
policyAlter(p)   == Form(publicTableExists(p) /\ rel[p].policy, p, p, <<"quiet", "say">>)
dropPolicy(p)    == Form(publicTableExists(p), p, p, <<"drop policy", "say">>)
colGrant(p)      == Form(publicTableExists(p), p, p, <<"quiet", "say">>)
colRevoke(p)     == Form(publicTableExists(p), p, p, <<"quiet", "say">>)

\* The SQL editor and a migration make what they like, here a view.  Run as a
\* role the statement commits after the notice; one that does not begin like
\* DDL, and an extension, change the catalogue without one.
sqlRun(p)        == Form(TRUE, p, p, <<"write view", "say">>)
sqlRunAsRole(p)  == Form(tableIn(p), p, p, <<"in transaction", "say", "commit">>)
sqlRunOther(p)   == Form(tableIn(p), p, p, <<"untold">>)
toggleExtension(p) == Form(TRUE, p, p, <<"untold">>)
applyMigration(p) == Form(TRUE, p, p, <<"write view", "say">>)

Forms(p, q) ==
    {f \in {createTable(p), duplicateTable(p, q), duplicateEmpty(p, q), importCSV(p),
            tableRename(p, q), dropTable(p), addColumn(p), dropColumn(p), columnAlter(p),
            constraintCreate(p), constraintDrop(p), functionCreate(p), functionDrop(p),
            triggerCreate(p), triggerToggle(p), triggerDrop(p), indexCreate(p), indexDrop(p),
            tableComment(p), publicationCreate(p), toggleForceRLS(p), enumCreate(p),
            enumAddValue(p), enumRenameValue(p), enumDrop(p), schemaCreate(p), schemaDrop(p),
            toggleRLS(p, TRUE), toggleRLS(p, FALSE), addPolicy(p), policyCreate(p),
            policyAlter(p), dropPolicy(p), colGrant(p), colRevoke(p), sqlRun(p),
            sqlRunAsRole(p), sqlRunOther(p), toggleExtension(p), applyMigration(p)} : f.ok}

\* A request passes its check; the next statement may come much later.
HandIn(e, s, t, u) ==
    /\ form[e].todo = <<>> /\ forms < MaxForms
    /\ \E f \in Forms(<<edSchema(s), t>>, <<edSchema(s), u>>) :
         form' = [form EXCEPT ![e] = [todo |-> f.todo, at |-> f.at, to |-> f.to]]
    /\ forms' = forms + 1
    /\ UNCHANGED <<extra, rel, cache, due>>

-----------------------------------------------------------------------------
(* The statements.                                                         *)

SchemaThere(p) == p[1] = "public" \/ extra
Pending(p, step) ==
    \E e \in Editors : form[e].to = p /\ \E i \in DOMAIN form[e].todo : form[e].todo[i] = step

\* What was made under p and goes on under another name, while the statement
\* that completes it still names p.
Taken(p) ==
    LET r == rel[p] IN
    [r EXCEPT !.own = IF r.own = "super" THEN "left" ELSE r.own,
              !.rls = IF r.policy /\ r.rls = "unset" THEN "failed" ELSE r.rls]

\* What PostgreSQL allows of a statement on p, or from p to q.
Allowed(step, p, q) ==
    CASE step \in {"create table", "create type", "write view"} ->
           SchemaThere(q) /\ relKind(q) = "none"
      [] step = "import"      -> SchemaThere(q) /\ relKind(q) \in {"none", "table"}
      [] step = "rename"      -> relKind(p) \in {"table", "view"} /\ relKind(q) = "none"
      [] step = "drop table"  -> tableIn(p)
      [] step = "drop view"   -> relKind(p) = "view"
      [] step \in {"drop type", "quiet type"} -> relKind(p) = "type"
      [] step = "policy"      -> tableIn(p) /\ ~rel[p].policy
      [] step \in {"alter", "drop policy", "on", "off", "enable"} -> tableIn(p)
      [] step = "quiet"       -> relKind(p) \in {"table", "view"}
      [] step = "own table"   -> relKind(q) \in {"table", "view"}
      [] step = "own type"    -> relKind(q) = "type"
      [] step = "create schema" -> ~extra
      [] step = "drop schema" -> extra /\ \A t \in Tables : relKind(<<"extra", t>>) = "none"
      [] OTHER -> TRUE

Result(step, p, q) ==
    CASE step = "create table" -> [rel EXCEPT ![q] = Thing("table", "super")]
      [] step = "create type"  -> [rel EXCEPT ![q] = Thing("type", "super")]
      [] step = "write view"   -> [rel EXCEPT ![q] = Thing("view", "written")]
      [] step = "import"       -> IF relKind(q) = "table" THEN rel
                                  ELSE [rel EXCEPT ![q] = Thing("table", "super")]
      [] step = "rename"       -> [rel EXCEPT ![q] = Taken(p), ![p] = Nothing]
      [] step \in {"drop table", "drop view", "drop type"} -> [rel EXCEPT ![p] = Nothing]
      [] step = "policy"       -> [rel EXCEPT ![p].policy = TRUE]
      [] step = "drop policy"  -> [rel EXCEPT ![p].policy = FALSE]
      [] step \in {"enable", "on"} -> [rel EXCEPT ![p].rls = "on"]
      [] step = "off"          -> [rel EXCEPT ![p].rls = "off"]
      [] step \in {"own table", "own type"} -> [rel EXCEPT ![q].own = "project"]
      [] OTHER -> rel

\* What PostgREST has read of the catalogue.
Shown == {"create table", "import", "rename", "drop table", "drop view", "alter", "function",
          "write view"}
Untold == {"commit", "untold"}

\* These are run for what they are worth: an error is not looked at.
BestEffort == {"own table", "own type", "enable", "say"}

\* On to the next statement.
Advance(f) == IF Len(f.todo) = 1 THEN Idle ELSE [f EXCEPT !.todo = Tail(@)]

\* A statement that succeeds.
Runs(e) ==
    LET f == form[e]  step == Head(f.todo) IN
    /\ f.todo # <<>> /\ Allowed(step, f.at, f.to)
    /\ rel' = Result(step, f.at, f.to)
    /\ extra' = CASE step = "create schema" -> TRUE
                  [] step = "drop schema" -> FALSE
                  [] OTHER -> extra
    /\ cache' = CASE step \in Shown -> "stale"
                  [] step \in Untold -> "untold"
                  [] OTHER -> cache
    /\ due' = (due \/ step = "say")
    /\ form' = [form EXCEPT ![e] = Advance(f)]
    /\ UNCHANGED forms

\* What an error, or the end of the process, makes of the steps it leaves out.
Forsaken(steps, p, q) ==
    [r \in Places |->
        IF r = q /\ steps \cap {"own table", "own type"} # {} /\ rel[r].own = "super"
        THEN [rel[r] EXCEPT !.own = "left"]
        ELSE IF r = p /\ "enable" \in steps /\ rel[r].policy /\ rel[r].rls = "unset"
        THEN [rel[r] EXCEPT !.rls = "failed"]
        ELSE rel[r]]
Unsaid(steps) == IF "say" \in steps /\ cache = "stale" THEN "untold" ELSE cache

\* An error: the handler returns, or goes on if it does not look.
StatementFails(e) ==
    LET f == form[e]  step == Head(f.todo)
        left == IF step \in BestEffort THEN {step} ELSE ToSet(f.todo)
    IN
    /\ f.todo # <<>>
    /\ rel' = Forsaken(left, f.at, f.to) /\ cache' = Unsaid(left)
    /\ form' = [form EXCEPT ![e] = IF step \in BestEffort THEN Advance(f) ELSE Idle]
    /\ UNCHANGED <<extra, due, forms>>

\* The panel restarts under its requests.
PanelStops(e) ==
    /\ form[e].todo # <<>>
    /\ rel' = Forsaken(ToSet(form[e].todo), form[e].at, form[e].to)
    /\ cache' = Unsaid(ToSet(form[e].todo))
    /\ form' = [form EXCEPT ![e] = Idle]
    /\ UNCHANGED <<extra, due, forms>>

\* reloadPostgRESTSchema's notice arrives.
PostgRESTReads ==
    /\ due /\ due' = FALSE /\ cache' = "fresh"
    /\ UNCHANGED <<extra, rel, form, forms>>

SchemaNext ==
    \/ \E e \in Editors, s \in {"public", "extra"}, t, u \in Tables : HandIn(e, s, t, u)
    \/ \E e \in Editors : Runs(e) \/ StatementFails(e) \/ PanelStops(e)
    \/ PostgRESTReads

SchemaSpec == SchemaInit /\ [][SchemaNext]_schemaVars

-----------------------------------------------------------------------------
\* PostgREST learns of every change a form makes (api.go:246-248, "so a
\* table/column created seconds ago is queryable over REST immediately"): a
\* stale picture has a notice under way, or a form that is still to say it,
\* however two editors' statements fall between each other.  Errors, and the
\* changes no notice follows, are told apart as "untold".
ChangesAreTold ==
    cache = "stale" =>
        due \/ \E e \in Editors : "say" \in ToSet(form[e].todo)

\* What a form makes becomes the project role's (chownRel, editor.go:219-227):
\* only what still waits for its statement is the superuser's, apart from what
\* an error left, or a rename by another editor took from under it.
MadeIsOwned ==
    \A p \in Places : rel[p].kind # "none" /\ rel[p].own = "super" =>
        Pending(p, "own table") \/ Pending(p, "own type")

\* "A policy is inert unless RLS is on" (rls.go:204): a table with a policy has
\* it on, or someone switched it off, or the statement failed or was overtaken.
PolicyBites ==
    \A p \in Places : rel[p].policy /\ rel[p].rls = "unset" => Pending(p, "enable")

\* What the schema forms leave behind, for any two of them at once.
SchemaFormsComplete == ChangesAreTold /\ MadeIsOwned /\ PolicyBites
=============================================================================
