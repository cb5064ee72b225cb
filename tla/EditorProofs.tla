------------------------------ MODULE EditorProofs ------------------------------
(***************************************************************************)
(* Proofs about what the panel's forms and editors do: the schema forms,   *)
(* the rows of a table, the tools that keep SQL, foreign servers and host  *)
(* names; for any number of editors, requests, tables, rows, jobs and      *)
(* hosts.                                                                  *)
(***************************************************************************)
EXTENDS SchemaTools, RowEditor, SqlTools, ForeignServers, HostRouting,
        SequenceTheorems, FiniteSetTheorems, NaturalsInduction, TLAPS

-----------------------------------------------------------------------------
(* The forms that change a schema.                                         *)

\* What must still follow a statement in the form it belongs to.
Needs(step) ==
    (IF step \in Shown THEN {"say"} ELSE {}) \cup
    (IF step \in {"create table", "import"} THEN {"own table"} ELSE {}) \cup
    (IF step = "create type" THEN {"own type"} ELSE {}) \cup
    (IF step = "policy" THEN {"enable"} ELSE {})

Word == Shown \cup Untold \cup BestEffort \cup
        {"copy", "create type", "drop type", "quiet type", "create schema", "drop schema", "on", "off",
         "policy", "drop policy", "quiet", "in transaction"}
Owning == {"own table", "own type"}
WordsOf(s) == {s[i] : i \in 1..Len(s)}

\* A list that is in order: what a statement needs is behind it, and the forms
\* that switch row security on make nothing.
Orderly(s) ==
    /\ s \in Seq(Word) /\ Len(s) <= 4
    /\ \A i \in 1..Len(s) : \A n \in Needs(s[i]) : \E j \in 1..Len(s) : j > i /\ s[j] = n
    /\ "enable" \in WordsOf(s) => WordsOf(s) \cap Owning = {}

FormOK(f) ==
    /\ f \in [todo : Seq(Word), at : Places \cup {NoPlace}, to : Places \cup {NoPlace}]
    /\ Orderly(f.todo)
    /\ f.todo # <<>> => f.at \in Places /\ f.to \in Places
    /\ "enable" \in WordsOf(f.todo) => f.at = f.to

SchemaInv ==
    /\ SchemaTypeOK
    /\ DOMAIN form = Editors /\ \A e \in Editors : FormOK(form[e])
    /\ SchemaFormsComplete

LEMMA StepsAre ==
  ASSUME NEW s \in Seq(Word)
  PROVE  /\ ToSet(s) = WordsOf(s) /\ Len(s) \in Nat /\ DOMAIN s = 1..Len(s)
         /\ s = <<>> => WordsOf(s) = {}
         /\ s # <<>> => Head(s) \in WordsOf(s)
<1>1. Len(s) \in Nat /\ DOMAIN s = 1..Len(s)
  OBVIOUS
<1>2. ToSet(s) = WordsOf(s)
  BY <1>1 DEF ToSet, WordsOf
<1>3. s = <<>> => WordsOf(s) = {}
  BY DEF WordsOf
<1>4. s # <<>> => Head(s) \in WordsOf(s)
  <2>1. SUFFICES ASSUME s # <<>> PROVE Head(s) \in WordsOf(s)
    OBVIOUS
  <2>2. Head(s) = s[1] /\ 1 \in 1..Len(s)
    BY <2>1
  <2> QED
    BY <2>2 DEF WordsOf
<1> QED
  BY <1>1, <1>2, <1>3, <1>4

LEMMA NothingLeft == Orderly(<<>>) /\ WordsOf(<<>>) = {}
<1>1. Len(<<>>) = 0 /\ <<>> \in Seq(Word)
  OBVIOUS
<1> QED
  BY <1>1 DEF Orderly, WordsOf

\* The first statement of a list that is in order goes.
LEMMA HeadGoes ==
  ASSUME NEW s, Orderly(s), s # <<>>
  PROVE  /\ Orderly(Tail(s)) /\ Len(s) \in Nat \ {0} /\ Len(s) <= 4
         /\ WordsOf(s) = {Head(s)} \cup WordsOf(Tail(s))
         /\ Needs(Head(s)) \subseteq WordsOf(Tail(s))
         /\ Len(s) = 1 <=> Tail(s) = <<>>
<1>1. s \in Seq(Word) /\ Len(s) \in Nat \ {0} /\ Len(s) <= 4 /\ Head(s) = s[1]
  BY DEF Orderly
<1>2. PICK t : t = Tail(s)
  OBVIOUS
<1>3. /\ t \in Seq(Word) /\ Len(t) = Len(s) - 1
      /\ \A i \in 1..Len(t) : t[i] = s[i + 1]
  BY <1>1, <1>2
<1>4. \A i \in 2..Len(s) : i - 1 \in 1..Len(t) /\ s[i] = t[i - 1]
  BY <1>1, <1>3
<1>5. WordsOf(s) = {Head(s)} \cup WordsOf(t)
  <2>1. ASSUME NEW i \in 1..Len(s) PROVE s[i] \in {Head(s)} \cup WordsOf(t)
    <3>1. CASE i = 1
      BY <1>1, <3>1
    <3>2. CASE i # 1
      BY <1>1, <1>4, <3>2 DEF WordsOf
    <3> QED
      BY <3>1, <3>2
  <2>2. ASSUME NEW i \in 1..Len(t) PROVE t[i] \in WordsOf(s)
    <3>1. i + 1 \in 1..Len(s) /\ t[i] = s[i + 1]
      BY <1>1, <1>3
    <3> QED
      BY <3>1 DEF WordsOf
  <2>3. Head(s) \in WordsOf(s)
    BY <1>1 DEF WordsOf
  <2> QED
    BY <2>1, <2>2, <2>3 DEF WordsOf
<1>6. Needs(Head(s)) \subseteq WordsOf(t)
  <2>1. SUFFICES ASSUME NEW n \in Needs(s[1]) PROVE n \in WordsOf(t)
    BY <1>1
  <2>2. PICK j \in 1..Len(s) : j > 1 /\ s[j] = n
    BY <1>1 DEF Orderly
  <2>3. j - 1 \in 1..Len(t) /\ t[j - 1] = n
    BY <1>1, <1>4, <2>2
  <2> QED
    BY <2>3 DEF WordsOf
<1>7. Orderly(t)
  <2>1. ASSUME NEW i \in 1..Len(t), NEW n \in Needs(t[i])
        PROVE  \E j \in 1..Len(t) : j > i /\ t[j] = n
    <3>1. i + 1 \in 1..Len(s) /\ t[i] = s[i + 1]
      BY <1>1, <1>3
    <3>2. PICK j \in 1..Len(s) : j > i + 1 /\ s[j] = n
      BY <2>1, <3>1 DEF Orderly
    <3>3. j \in 2..Len(s) /\ j - 1 > i
      BY <1>1, <3>2
    <3> QED
      BY <1>4, <3>2, <3>3
  <2>2. "enable" \in WordsOf(t) => WordsOf(t) \cap Owning = {}
    BY <1>5 DEF Orderly
  <2>3. Len(t) <= 4
    BY <1>1, <1>3
  <2> QED
    BY <1>3, <2>1, <2>2, <2>3 DEF Orderly
<1>8. Len(s) = 1 <=> t = <<>>
  BY <1>1, <1>3
<1> QED
  BY <1>1, <1>2, <1>5, <1>6, <1>7, <1>8

\* The lists the forms hand in.
LEMMA OneInOrder ==
  ASSUME NEW a \in Word, Needs(a) = {}
  PROVE  Orderly(<<a>>) /\ WordsOf(<<a>>) = {a}
<1>1. PICK s : s = <<a>>
  OBVIOUS
<1>2. s \in Seq(Word) /\ Len(s) = 1 /\ s[1] = a
  BY <1>1
<1>3. WordsOf(s) = {a}
  BY <1>2 DEF WordsOf
<1>4. \A i \in 1..Len(s) : Needs(s[i]) = {}
  BY <1>2
<1>5. Orderly(s)
  BY <1>2, <1>3, <1>4 DEF Orderly, Owning
<1> QED
  BY <1>1, <1>3, <1>5

LEMMA TwoInOrder ==
  ASSUME NEW a \in Word, NEW b \in Word, Needs(a) \subseteq {b}, Needs(b) = {}, "enable" \notin {a, b}
  PROVE  Orderly(<<a, b>>) /\ WordsOf(<<a, b>>) = {a, b}
<1>1. PICK s : s = <<a, b>>
  OBVIOUS
<1>2. s \in Seq(Word) /\ Len(s) = 2 /\ s[1] = a /\ s[2] = b
  BY <1>1
<1>3. WordsOf(s) = {a, b}
  BY <1>2 DEF WordsOf
<1>4. ASSUME NEW i \in 1..Len(s), NEW n \in Needs(s[i])
      PROVE  \E j \in 1..Len(s) : j > i /\ s[j] = n
  <2>1. i = 1 /\ n = b
    BY <1>2, <1>4
  <2> QED
    BY <1>2, <2>1
<1>5. Orderly(s)
  BY <1>2, <1>3, <1>4 DEF Orderly
<1> QED
  BY <1>1, <1>3, <1>5

LEMMA ThreeInOrder ==
  ASSUME NEW a \in Word, NEW b \in Word, NEW c \in Word,
         Needs(a) \subseteq {b, c}, Needs(b) = {}, Needs(c) = {},
         "enable" \in {a, b, c} => {a, b, c} \cap Owning = {}
  PROVE  Orderly(<<a, b, c>>) /\ WordsOf(<<a, b, c>>) = {a, b, c}
<1>1. PICK s : s = <<a, b, c>>
  OBVIOUS
<1>2. s \in Seq(Word) /\ Len(s) = 3 /\ s[1] = a /\ s[2] = b /\ s[3] = c
  BY <1>1
<1>3. WordsOf(s) = {a, b, c}
  BY <1>2 DEF WordsOf
<1>4. ASSUME NEW i \in 1..Len(s), NEW n \in Needs(s[i])
      PROVE  \E j \in 1..Len(s) : j > i /\ s[j] = n
  <2>1. i = 1 /\ n \in {b, c}
    BY <1>2, <1>4
  <2> QED
    BY <1>2, <2>1
<1>5. Orderly(s)
  BY <1>2, <1>3, <1>4 DEF Orderly
<1> QED
  BY <1>1, <1>3, <1>5

LEMMA FourInOrder ==
  ASSUME NEW a \in Word, NEW b \in Word, NEW c \in Word, NEW d \in Word,
         Needs(a) \subseteq {b, d}, Needs(b) = {}, Needs(c) = {}, Needs(d) = {}, "enable" \notin {a, b, c, d}
  PROVE  Orderly(<<a, b, c, d>>) /\ WordsOf(<<a, b, c, d>>) = {a, b, c, d}
<1>1. PICK s : s = <<a, b, c, d>>
  OBVIOUS
<1>2. s \in Seq(Word) /\ Len(s) = 4 /\ s[1] = a /\ s[2] = b /\ s[3] = c /\ s[4] = d
  BY <1>1
<1>3. WordsOf(s) = {a, b, c, d}
  BY <1>2 DEF WordsOf
<1>4. ASSUME NEW i \in 1..Len(s), NEW n \in Needs(s[i])
      PROVE  \E j \in 1..Len(s) : j > i /\ s[j] = n
  <2>1. i = 1 /\ n \in {b, d}
    BY <1>2, <1>4
  <2> QED
    BY <1>2, <2>1
<1>5. Orderly(s)
  BY <1>2, <1>3, <1>4 DEF Orderly
<1> QED
  BY <1>1, <1>3, <1>5

LEMMA WhatIsNeeded ==
  /\ Shown \cup Untold \cup BestEffort \subseteq Word
  /\ {"copy", "create type", "drop type", "quiet type", "create schema", "drop schema", "on", "off",
      "policy", "drop policy", "quiet", "in transaction"} \subseteq Word
  /\ \A step \in Shown \ {"create table", "import"} : Needs(step) = {"say"}
  /\ Needs("create table") = {"say", "own table"} /\ Needs("import") = {"say", "own table"}
  /\ Needs("create type") = {"own type"} /\ Needs("policy") = {"enable"}
  /\ \A step \in Word \ (Shown \cup {"create type", "policy"}) : Needs(step) = {}
BY DEF Word, Needs, Shown

\* What the forms hand in is in order.
Quietly == {"quiet", "quiet type", "drop type", "create schema", "drop schema", "untold"}
Told == {"rename", "drop table", "drop view", "alter", "function", "write view", "on", "off", "quiet",
         "drop policy"}
Lists ==
    {<<a>> : a \in Quietly} \cup {<<a, "say">> : a \in Told} \cup
    {<<"create type", "own type">>, <<"create table", "own table", "say">>,
     <<"import", "own table", "say">>, <<"policy", "enable", "say">>, <<"in transaction", "say", "commit">>,
     <<"create table", "own table", "copy", "say">>}

LEMMA ListsAreOrderly ==
  ASSUME NEW s \in Lists
  PROVE  /\ Orderly(s) /\ s # <<>>
         /\ "enable" \in WordsOf(s) => s = <<"policy", "enable", "say">>
<1>1. ASSUME NEW a \in Quietly PROVE Orderly(<<a>>) /\ "enable" \notin WordsOf(<<a>>)
  <2>1. a \in Word /\ Needs(a) = {} /\ a # "enable"
    BY <1>1, WhatIsNeeded DEF Quietly, Shown, Untold
  <2> QED
    BY <2>1, OneInOrder
<1>2. ASSUME NEW a \in Told PROVE Orderly(<<a, "say">>) /\ "enable" \notin WordsOf(<<a, "say">>)
  <2>1. a \in Word /\ Needs(a) \subseteq {"say"} /\ a # "enable"
    BY <1>2, WhatIsNeeded DEF Told, Shown
  <2>2. "say" \in Word /\ Needs("say") = {} /\ "say" # "enable"
    BY WhatIsNeeded DEF BestEffort, Shown
  <2>3. PICK b : b = "say"
    OBVIOUS
  <2>4. Orderly(<<a, b>>) /\ WordsOf(<<a, b>>) = {a, b}
    BY <2>1, <2>2, <2>3, TwoInOrder
  <2> QED
    BY <2>1, <2>2, <2>3, <2>4
<1>3. /\ {"create type", "own type", "create table", "own table", "say", "import", "policy", "enable",
          "in transaction", "commit", "copy"} \subseteq Word
      /\ \A a \in {"own type", "own table", "say", "enable", "in transaction", "commit", "copy"} : Needs(a) = {}
      /\ Needs("create table") = {"say", "own table"} /\ Needs("import") = {"say", "own table"}
      /\ Needs("create type") = {"own type"} /\ Needs("policy") = {"enable"}
  BY WhatIsNeeded DEF BestEffort, Shown, Untold
<1>4. Orderly(<<"create type", "own type">>) /\ "enable" \notin WordsOf(<<"create type", "own type">>)
  <2>1. PICK a, b : a = "create type" /\ b = "own type"
    OBVIOUS
  <2>2. a \in Word /\ b \in Word /\ Needs(a) \subseteq {b} /\ Needs(b) = {} /\ "enable" \notin {a, b}
    BY <1>3, <2>1
  <2>3. Orderly(<<a, b>>) /\ WordsOf(<<a, b>>) = {a, b}
    BY <2>2, TwoInOrder
  <2> QED
    BY <2>1, <2>2, <2>3
<1>5. ASSUME NEW a \in {"create table", "import"}
      PROVE  Orderly(<<a, "own table", "say">>) /\ "enable" \notin WordsOf(<<a, "own table", "say">>)
  <2>1. PICK b, c : b = "own table" /\ c = "say"
    OBVIOUS
  <2>2. /\ a \in Word /\ b \in Word /\ c \in Word /\ Needs(a) \subseteq {b, c} /\ Needs(b) = {} /\ Needs(c) = {}
        /\ "enable" \notin {a, b, c}
    BY <1>3, <1>5, <2>1
  <2>3. Orderly(<<a, b, c>>) /\ WordsOf(<<a, b, c>>) = {a, b, c}
    BY <2>2, ThreeInOrder
  <2> QED
    BY <2>1, <2>2, <2>3
<1>7. Orderly(<<"policy", "enable", "say">>)
  <2>1. PICK a, b, c : a = "policy" /\ b = "enable" /\ c = "say"
    OBVIOUS
  <2>2. /\ a \in Word /\ b \in Word /\ c \in Word /\ Needs(a) \subseteq {b, c} /\ Needs(b) = {} /\ Needs(c) = {}
        /\ {a, b, c} \cap Owning = {}
    BY <1>3, <2>1 DEF Owning
  <2>3. Orderly(<<a, b, c>>)
    BY <2>2, ThreeInOrder
  <2> QED
    BY <2>1, <2>3
<1>8. /\ Orderly(<<"in transaction", "say", "commit">>)
      /\ "enable" \notin WordsOf(<<"in transaction", "say", "commit">>)
  <2>1. PICK a, b, c : a = "in transaction" /\ b = "say" /\ c = "commit"
    OBVIOUS
  <2>2. /\ a \in Word /\ b \in Word /\ c \in Word /\ Needs(a) \subseteq {b, c} /\ Needs(b) = {} /\ Needs(c) = {}
        /\ "enable" \notin {a, b, c}
    BY <1>3, <2>1
  <2>3. Orderly(<<a, b, c>>) /\ WordsOf(<<a, b, c>>) = {a, b, c}
    BY <2>2, ThreeInOrder
  <2> QED
    BY <2>1, <2>2, <2>3
<1>9. /\ Orderly(<<"create table", "own table", "copy", "say">>)
      /\ "enable" \notin WordsOf(<<"create table", "own table", "copy", "say">>)
  <2>1. PICK a, b, c, d : a = "create table" /\ b = "own table" /\ c = "copy" /\ d = "say"
    OBVIOUS
  <2>2. /\ a \in Word /\ b \in Word /\ c \in Word /\ d \in Word
        /\ Needs(a) \subseteq {b, d} /\ Needs(b) = {} /\ Needs(c) = {} /\ Needs(d) = {}
        /\ "enable" \notin {a, b, c, d}
    BY <1>3, <2>1
  <2>3. Orderly(<<a, b, c, d>>) /\ WordsOf(<<a, b, c, d>>) = {a, b, c, d}
    BY <2>2, FourInOrder
  <2> QED
    BY <2>1, <2>2, <2>3
<1>11. \/ \E a \in Quietly : s = <<a>>
       \/ \E a \in Told : s = <<a, "say">>
       \/ s = <<"create type", "own type">> \/ s = <<"create table", "own table", "say">>
       \/ s = <<"import", "own table", "say">> \/ s = <<"policy", "enable", "say">>
       \/ s = <<"in transaction", "say", "commit">> \/ s = <<"create table", "own table", "copy", "say">>
  BY DEF Lists
<1>12. s # <<>>
  <2>1. \A a, b, c, d : <<a>> # <<>> /\ <<a, b>> # <<>> /\ <<a, b, c>> # <<>> /\ <<a, b, c, d>> # <<>>
    OBVIOUS
  <2> QED
    BY <1>11, <2>1
<1> QED
  BY <1>1, <1>2, <1>4, <1>5, <1>7, <1>8, <1>9, <1>11, <1>12

LEMMA FormsAreOrderly ==
  ASSUME NEW p, NEW q, NEW f \in Forms(p, q)
  PROVE  /\ f.at = p /\ f.to \in {p, q} /\ f.todo \in Lists
         /\ f.todo = <<"policy", "enable", "say">> => f.to = p
<1> DEFINE Good(g) == /\ g.at = p /\ g.to \in {p, q} /\ g.todo \in Lists
                      /\ g.todo = <<"policy", "enable", "say">> => g.to = p
<1>0. ASSUME NEW ok, NEW todo \in Lists PROVE Good(Form(ok, p, p, todo))
  BY <1>0 DEF Form
<1>1. \A a \in Quietly : <<a>> \in Lists
  BY DEF Lists
<1>2. \A a \in Told : <<a, "say">> \in Lists
  BY DEF Lists
<1>3. /\ <<"create type", "own type">> \in Lists /\ <<"create table", "own table", "say">> \in Lists
      /\ <<"import", "own table", "say">> \in Lists /\ <<"policy", "enable", "say">> \in Lists
      /\ <<"in transaction", "say", "commit">> \in Lists
      /\ <<"create table", "own table", "copy", "say">> \in Lists
  BY DEF Lists
<1>4. Good(createTable(p)) /\ Good(importCSV(p)) /\ Good(enumCreate(p)) /\ Good(addPolicy(p)) /\ Good(policyCreate(p))
      /\ Good(sqlRunAsRole(p))
  BY <1>0, <1>3 DEF createTable, importCSV, enumCreate, addPolicy, policyCreate, sqlRunAsRole
<1>5. Good(duplicateTable(p, q)) /\ Good(duplicateEmpty(p, q))
  <2>1. /\ <<"create table", "own table", "copy", "say">> # <<"policy", "enable", "say">>
        /\ <<"create table", "own table", "say">> # <<"policy", "enable", "say">>
    OBVIOUS
  <2> QED
    BY <1>3, <2>1 DEF duplicateTable, duplicateEmpty, Form
<1>6. Good(tableRename(p, q))
  <2>1. <<"rename", "say">> # <<"policy", "enable", "say">> /\ <<"rename", "say">> \in Lists
    BY <1>2 DEF Told
  <2> QED
    BY <2>1 DEF tableRename, Form
<1>7. /\ <<"drop view", "say">> \in Lists /\ <<"drop table", "say">> \in Lists /\ <<"alter", "say">> \in Lists
      /\ <<"function", "say">> \in Lists /\ <<"write view", "say">> \in Lists /\ <<"on", "say">> \in Lists
      /\ <<"off", "say">> \in Lists /\ <<"quiet", "say">> \in Lists /\ <<"drop policy", "say">> \in Lists
  BY <1>2 DEF Told
<1>8. /\ <<"quiet">> \in Lists /\ <<"quiet type">> \in Lists /\ <<"drop type">> \in Lists
      /\ <<"create schema">> \in Lists /\ <<"drop schema">> \in Lists /\ <<"untold">> \in Lists
  BY <1>1 DEF Quietly
<1>9. /\ Good(dropTable(p)) /\ Good(addColumn(p)) /\ Good(dropColumn(p)) /\ Good(columnAlter(p))
      /\ Good(constraintCreate(p)) /\ Good(constraintDrop(p)) /\ Good(functionCreate(p)) /\ Good(functionDrop(p))
  BY <1>0, <1>7 DEF dropTable, addColumn, dropColumn, columnAlter, constraintCreate, constraintDrop,
    functionCreate, functionDrop
<1>10. /\ Good(triggerCreate(p)) /\ Good(triggerToggle(p)) /\ Good(triggerDrop(p)) /\ Good(indexCreate(p))
       /\ Good(indexDrop(p)) /\ Good(tableComment(p)) /\ Good(publicationCreate(p)) /\ Good(toggleForceRLS(p))
  BY <1>0, <1>8 DEF triggerCreate, triggerToggle, triggerDrop, indexCreate, indexDrop, tableComment,
    publicationCreate, toggleForceRLS
<1>11. /\ Good(enumAddValue(p)) /\ Good(enumRenameValue(p)) /\ Good(enumDrop(p)) /\ Good(schemaCreate(p))
       /\ Good(schemaDrop(p)) /\ Good(sqlRunOther(p)) /\ Good(toggleExtension(p))
  BY <1>0, <1>8 DEF enumAddValue, enumRenameValue, enumDrop, schemaCreate, schemaDrop, sqlRunOther,
    toggleExtension
<1>12. /\ Good(toggleRLS(p, TRUE)) /\ Good(toggleRLS(p, FALSE)) /\ Good(policyAlter(p)) /\ Good(dropPolicy(p))
       /\ Good(colGrant(p)) /\ Good(colRevoke(p)) /\ Good(sqlRun(p)) /\ Good(applyMigration(p))
  BY <1>0, <1>7 DEF toggleRLS, policyAlter, dropPolicy, colGrant, colRevoke, sqlRun, applyMigration
<1> HIDE DEF Good
<1>13. Good(f)
  BY <1>4, <1>5, <1>6, <1>9, <1>10, <1>11, <1>12 DEF Forms
<1> QED
  BY <1>13 DEF Good

\* What a statement makes of the names, and what an error does.
Loose(r) == rel[r].kind # "none" /\ rel[r].own = "super"
Unbitten(r) == rel[r].policy /\ rel[r].rls = "unset"

LEMMA ThingsAre ==
  /\ \A sort \in Kinds, own \in {"super", "project", "left", "written"} : Thing(sort, own) \in Things
  /\ Nothing \in Things /\ Nothing.kind = "none" /\ ~Nothing.policy
  /\ \A sort, own : /\ Thing(sort, own).kind = sort /\ Thing(sort, own).own = own
                    /\ ~Thing(sort, own).policy
BY DEF Thing, Nothing, Things, Kinds

LEMMA ResultIs ==
  ASSUME rel \in [Places -> Things], NEW p \in Places, NEW q \in Places, NEW step, Allowed(step, p, q),
         NEW res, res = Result(step, p, q)
  PROVE  /\ res \in [Places -> Things]
         /\ \A r \in Places : res[r].kind # "none" /\ res[r].own = "super" =>
              \/ r = q /\ Needs(step) \cap Owning # {}
              \/ Loose(r) /\ ~(r = q /\ step \in Owning)
         /\ \A r \in Places : res[r].policy /\ res[r].rls = "unset" =>
              \/ r = p /\ step = "policy"
              \/ Unbitten(r) /\ ~(r = p /\ step = "enable")
<1> DEFINE Good == /\ res \in [Places -> Things]
                   /\ \A r \in Places : res[r].kind # "none" /\ res[r].own = "super" =>
                        \/ r = q /\ Needs(step) \cap Owning # {}
                        \/ Loose(r) /\ ~(r = q /\ step \in Owning)
                   /\ \A r \in Places : res[r].policy /\ res[r].rls = "unset" =>
                        \/ r = p /\ step = "policy"
                        \/ Unbitten(r) /\ ~(r = p /\ step = "enable")
<1>0. {"table", "type", "view", "none"} \subseteq Kinds
  BY DEF Kinds
<1>1. CASE step = "create table" \/ (step = "import" /\ relKind(q) # "table")
  <2>1. res = [rel EXCEPT ![q] = Thing("table", "super")]
    BY <1>1 DEF Result
  <2>2. "own table" \in Needs(step) \cap Owning /\ step \notin Owning /\ step # "enable"
    BY <1>1 DEF Needs, Owning
  <2>3. PICK t : t = Thing("table", "super")
    OBVIOUS
  <2>4. t \in Things /\ ~t.policy
    BY <1>0, <2>3, ThingsAre
  <2>5. res \in [Places -> Things] /\ res[q] = t /\ \A r \in Places : r # q => res[r] = rel[r]
    BY <2>1, <2>3, <2>4
  <2> QED
    BY <2>2, <2>4, <2>5 DEF Loose, Unbitten
<1>2. CASE step = "create type"
  <2>1. res = [rel EXCEPT ![q] = Thing("type", "super")]
    BY <1>2 DEF Result
  <2>2. "own type" \in Needs(step) \cap Owning /\ step \notin Owning /\ step # "enable"
    BY <1>2 DEF Needs, Owning
  <2>3. PICK t : t = Thing("type", "super")
    OBVIOUS
  <2>4. t \in Things /\ ~t.policy
    BY <1>0, <2>3, ThingsAre
  <2>5. res \in [Places -> Things] /\ res[q] = t /\ \A r \in Places : r # q => res[r] = rel[r]
    BY <2>1, <2>3, <2>4
  <2> QED
    BY <2>2, <2>4, <2>5 DEF Loose, Unbitten
<1>3. CASE step = "write view"
  <2>1. res = [rel EXCEPT ![q] = Thing("view", "written")]
    BY <1>3 DEF Result
  <2>2. step \notin Owning /\ step # "enable"
    BY <1>3 DEF Owning
  <2> QED
    BY <1>0, <2>1, <2>2, ThingsAre DEF Loose, Unbitten
<1>4. CASE step = "import" /\ relKind(q) = "table"
  <2>1. res = rel
    BY <1>4 DEF Result
  <2>2. step \notin Owning /\ step # "enable"
    BY <1>4 DEF Owning
  <2> QED
    BY <2>1, <2>2 DEF Loose, Unbitten
<1>5. CASE step = "rename"
  <2>1. res = [rel EXCEPT ![q] = Taken(p), ![p] = Nothing]
    BY <1>5 DEF Result
  <2>2. step \notin Owning /\ step # "enable"
    BY <1>5 DEF Owning
  <2>3. PICK t : t = Taken(p)
    OBVIOUS
  <2>4. t \in Things /\ t.own # "super" /\ ~(t.policy /\ t.rls = "unset")
    BY <2>3 DEF Taken, Things
  <2>5. /\ res \in [Places -> Things] /\ res[p] = Nothing /\ (q # p => res[q] = t)
        /\ \A r \in Places : r \notin {p, q} => res[r] = rel[r]
    BY <2>1, <2>3, <2>4, ThingsAre
  <2> QED
    BY <2>2, <2>4, <2>5, ThingsAre DEF Loose, Unbitten
<1>6. CASE step \in {"drop table", "drop view", "drop type"}
  <2>1. res = [rel EXCEPT ![p] = Nothing]
    BY <1>6 DEF Result
  <2>2. step \notin Owning /\ step # "enable"
    BY <1>6 DEF Owning
  <2> QED
    BY <2>1, <2>2, ThingsAre DEF Loose, Unbitten
<1>7. CASE step \in {"policy", "drop policy"}
  <2>1. PICK b : b \in BOOLEAN /\ res = [rel EXCEPT ![p].policy = b] /\ (step = "drop policy" => ~b)
    BY <1>7 DEF Result
  <2>2. step \notin Owning /\ step # "enable"
    BY <1>7 DEF Owning
  <2>3. PICK t : t = [rel[p] EXCEPT !.policy = b]
    OBVIOUS
  <2>4. t \in Things /\ t.kind = rel[p].kind /\ t.own = rel[p].own /\ t.policy = b
    BY <2>1, <2>3 DEF Things
  <2>5. res = [rel EXCEPT ![p] = t]
    BY <2>1, <2>3
  <2>6. /\ res \in [Places -> Things] /\ res[p] = t /\ \A r \in Places : r # p => res[r] = rel[r]
    BY <2>4, <2>5
  <2> QED
    BY <1>7, <2>1, <2>2, <2>4, <2>6 DEF Loose, Unbitten
<1>8. CASE step \in {"enable", "on", "off"}
  <2>1. PICK v \in {"on", "off"} : res = [rel EXCEPT ![p].rls = v]
    BY <1>8 DEF Result
  <2>2. step \notin Owning
    BY <1>8 DEF Owning
  <2>3. /\ res \in [Places -> Things] /\ res[p].rls = v
        /\ \A r \in Places : /\ r # p => res[r] = rel[r]
                             /\ res[r].kind = rel[r].kind /\ res[r].own = rel[r].own
    BY <2>1 DEF Things
  <2> QED
    BY <2>1, <2>2, <2>3 DEF Loose, Unbitten
<1>9. CASE step \in Owning
  <2>1. res = [rel EXCEPT ![q].own = "project"]
    BY <1>9 DEF Result, Owning
  <2>2. step # "enable" /\ step # "policy"
    BY <1>9 DEF Owning
  <2>3. /\ res \in [Places -> Things] /\ res[q].own = "project"
        /\ \A r \in Places : /\ r # q => res[r] = rel[r]
                             /\ res[r].policy = rel[r].policy /\ res[r].rls = rel[r].rls
    BY <2>1 DEF Things
  <2> QED
    BY <2>2, <2>3 DEF Loose, Unbitten
<1>10. CASE step \notin {"create table", "import", "create type", "write view", "rename", "drop table", "drop view",
                         "drop type", "policy", "drop policy", "enable", "on", "off"} \cup Owning
  <2>1. res = rel
    BY <1>10 DEF Result, Owning
  <2> QED
    BY <1>10, <2>1 DEF Loose, Unbitten
<1> QED
  BY <1>1, <1>2, <1>3, <1>4, <1>5, <1>6, <1>7, <1>8, <1>9, <1>10

LEMMA ForsakenIs ==
  ASSUME rel \in [Places -> Things], NEW steps, NEW p \in Places, NEW q \in Places,
         "enable" \in steps => steps \cap Owning = {},
         NEW res, res = Forsaken(steps, p, q)
  PROVE  /\ res \in [Places -> Things]
         /\ \A r \in Places : res[r].kind # "none" /\ res[r].own = "super" =>
              Loose(r) /\ ~(r = q /\ steps \cap Owning # {})
         /\ \A r \in Places : res[r].policy /\ res[r].rls = "unset" =>
              Unbitten(r) /\ ~(r = p /\ "enable" \in steps)
<1>1. ASSUME NEW r \in Places
      PROVE  /\ res[r] \in Things
             /\ res[r].kind # "none" /\ res[r].own = "super" => Loose(r) /\ ~(r = q /\ steps \cap Owning # {})
             /\ res[r].policy /\ res[r].rls = "unset" => Unbitten(r) /\ ~(r = p /\ "enable" \in steps)
  <2>1. CASE r = q /\ steps \cap Owning # {} /\ rel[r].own = "super"
    <3>1. res[r] = [rel[r] EXCEPT !.own = "left"]
      BY <2>1 DEF Forsaken, Owning
    <3>2. res[r] \in Things /\ res[r].own = "left" /\ res[r].policy = rel[r].policy /\ res[r].rls = rel[r].rls
      BY <3>1 DEF Things
    <3> QED
      BY <2>1, <3>2 DEF Loose, Unbitten
  <2>2. CASE /\ ~(r = q /\ steps \cap Owning # {} /\ rel[r].own = "super")
             /\ r = p /\ "enable" \in steps /\ rel[r].policy /\ rel[r].rls = "unset"
    <3>1. res[r] = [rel[r] EXCEPT !.rls = "failed"]
      BY <2>2 DEF Forsaken, Owning
    <3>2. res[r] \in Things /\ res[r].rls = "failed" /\ res[r].kind = rel[r].kind /\ res[r].own = rel[r].own
      BY <3>1 DEF Things
    <3> QED
      BY <2>2, <3>2 DEF Loose, Unbitten
  <2>3. CASE /\ ~(r = q /\ steps \cap Owning # {} /\ rel[r].own = "super")
             /\ ~(r = p /\ "enable" \in steps /\ rel[r].policy /\ rel[r].rls = "unset")
    <3>1. res[r] = rel[r]
      BY <2>3 DEF Forsaken, Owning
    <3> QED
      BY <2>3, <3>1 DEF Loose, Unbitten
  <2> QED
    BY <2>1, <2>2, <2>3
<1>2. res = [r \in Places |-> res[r]]
  BY DEF Forsaken
<1> QED
  BY <1>1, <1>2

\* One editor's request goes on.
LeftTo(e) == WordsOf(form[e].todo)
RequestOn(e, g) == FormOK(g) /\ form' = [form EXCEPT ![e] = g]
FormsOK == DOMAIN form = Editors /\ \A e \in Editors : FormOK(form[e])

LEMMA StepsIn ==
  ASSUME NEW s \in Seq(Word), NEW step
  PROVE  (\E i \in DOMAIN s : s[i] = step) <=> step \in WordsOf(s)
BY StepsAre DEF WordsOf

LEMMA PendingIs ==
  ASSUME FormsOK
  PROVE  /\ \A p, step : Pending(p, step) <=> \E e \in Editors : form[e].to = p /\ step \in LeftTo(e)
         /\ \A e \in Editors : ToSet(form[e].todo) = LeftTo(e)
<1>1. ASSUME NEW e \in Editors, NEW step
      PROVE  /\ (\E i \in DOMAIN form[e].todo : form[e].todo[i] = step) <=> step \in LeftTo(e)
             /\ ToSet(form[e].todo) = LeftTo(e)
  <2>1. PICK s : s = form[e].todo /\ s \in Seq(Word)
    BY DEF FormsOK, FormOK
  <2> QED
    BY <2>1, StepsAre, StepsIn DEF LeftTo
<1> QED
  BY <1>1 DEF Pending

LEMMA PendingWillBe ==
  ASSUME FormsOK'
  PROVE  /\ \A p, step : Pending(p, step)' <=> \E e \in Editors : form'[e].to = p /\ step \in LeftTo(e)'
         /\ \A e \in Editors : ToSet(form'[e].todo) = LeftTo(e)'
<1>1. ASSUME NEW e \in Editors, NEW step
      PROVE  /\ (\E i \in DOMAIN form'[e].todo : form'[e].todo[i] = step) <=> step \in LeftTo(e)'
             /\ ToSet(form'[e].todo) = LeftTo(e)'
  <2>1. PICK s : s = form'[e].todo /\ s \in Seq(Word)
    BY DEF FormsOK, FormOK
  <2> QED
    BY <2>1, StepsAre, StepsIn DEF LeftTo
<1> QED
  BY <1>1 DEF Pending

LEMMA RequestGoesOn ==
  ASSUME FormsOK, NEW e \in Editors, NEW g, RequestOn(e, g),
         LeftTo(e) = {} \/ (WordsOf(g.todo) # {} => g.to = form[e].to)
  PROVE  /\ FormsOK'
         /\ LeftTo(e)' = WordsOf(g.todo)
         /\ \A d \in Editors : d # e => LeftTo(d)' = LeftTo(d)
         /\ \A p, step : Pending(p, step) =>
              Pending(p, step)' \/ (p = form[e].to /\ step \in LeftTo(e) \ WordsOf(g.todo))
         /\ \A p, step : p = g.to /\ step \in WordsOf(g.todo) => Pending(p, step)'
<1>1. form'[e] = g /\ DOMAIN form' = Editors /\ \A d \in Editors : d # e => form'[d] = form[d]
  BY DEF RequestOn, FormsOK
<1>2. FormsOK'
  BY <1>1 DEF FormsOK, RequestOn
<1>3. LeftTo(e)' = WordsOf(g.todo) /\ \A d \in Editors : d # e => LeftTo(d)' = LeftTo(d)
  BY <1>1 DEF LeftTo
<1>4. \A p, step : Pending(p, step)' <=> \E d \in Editors : form'[d].to = p /\ step \in LeftTo(d)'
  BY <1>2, PendingWillBe
<1>5. \A p, step : Pending(p, step) <=> \E d \in Editors : form[d].to = p /\ step \in LeftTo(d)
  BY PendingIs
<1>6. ASSUME NEW p, NEW step, p = g.to /\ step \in WordsOf(g.todo) PROVE Pending(p, step)'
  <2>1. form'[e].to = p /\ step \in LeftTo(e)'
    BY <1>1, <1>3, <1>6
  <2> QED
    BY <1>4, <2>1
<1>7. ASSUME NEW p, NEW step, Pending(p, step), ~(p = form[e].to /\ step \in LeftTo(e) \ WordsOf(g.todo))
      PROVE  Pending(p, step)'
  <2>1. PICK d \in Editors : form[d].to = p /\ step \in LeftTo(d)
    BY <1>5, <1>7
  <2>2. CASE d = e
    BY <1>6, <1>7, <2>1, <2>2
  <2>3. CASE d # e
    BY <1>1, <1>3, <1>4, <2>1, <2>3
  <2> QED
    BY <2>2, <2>3
<1> QED
  BY <1>2, <1>3, <1>6, <1>7

\* What every step comes down to: what is gone of a request's list is done, or
\* is accounted for.
LEMMA RequestKeeps ==
  ASSUME SchemaInv, NEW e \in Editors, NEW g, RequestOn(e, g),
         LeftTo(e) = {} \/ (WordsOf(g.todo) # {} => g.to = form[e].to),
         rel' \in [Places -> Things], extra' \in BOOLEAN, due' \in BOOLEAN, forms' \in 0..MaxForms,
         cache' \in {"fresh", "stale", "untold"},
         \A r \in Places : rel'[r].kind # "none" /\ rel'[r].own = "super" =>
              \/ r = g.to /\ WordsOf(g.todo) \cap Owning # {}
              \/ Loose(r) /\ ~(r = form[e].to /\ (LeftTo(e) \ WordsOf(g.todo)) \cap Owning # {}),
         \A r \in Places : rel'[r].policy /\ rel'[r].rls = "unset" =>
              \/ r = g.to /\ "enable" \in WordsOf(g.todo)
              \/ Unbitten(r) /\ ~(r = form[e].to /\ "enable" \in LeftTo(e) \ WordsOf(g.todo)),
         cache' = "stale" =>
              \/ due'
              \/ "say" \in WordsOf(g.todo)
              \/ cache = "stale" /\ due' = due /\ "say" \notin LeftTo(e) \ WordsOf(g.todo)
  PROVE  SchemaInv'
<1>0. FormsOK /\ SchemaTypeOK /\ ChangesAreTold /\ MadeIsOwned /\ PolicyBites
  BY DEF SchemaInv, FormsOK, SchemaFormsComplete
<1>1. /\ FormsOK'
      /\ LeftTo(e)' = WordsOf(g.todo)
      /\ \A d \in Editors : d # e => LeftTo(d)' = LeftTo(d)
      /\ \A p, step : Pending(p, step) =>
           Pending(p, step)' \/ (p = form[e].to /\ step \in LeftTo(e) \ WordsOf(g.todo))
      /\ \A p, step : p = g.to /\ step \in WordsOf(g.todo) => Pending(p, step)'
  BY <1>0, RequestGoesOn
<1>2. MadeIsOwned'
  <2>1. SUFFICES ASSUME NEW r \in Places, rel'[r].kind # "none", rel'[r].own = "super"
                 PROVE  Pending(r, "own table")' \/ Pending(r, "own type")'
    BY DEF MadeIsOwned
  <2>2. CASE r = g.to /\ WordsOf(g.todo) \cap Owning # {}
    BY <1>1, <2>2 DEF Owning
  <2>3. CASE Loose(r) /\ ~(r = form[e].to /\ (LeftTo(e) \ WordsOf(g.todo)) \cap Owning # {})
    <3>1. Pending(r, "own table") \/ Pending(r, "own type")
      BY <1>0, <2>3 DEF MadeIsOwned, Loose
    <3> QED
      BY <1>1, <2>3, <3>1 DEF Owning
  <2> QED
    BY <2>1, <2>2, <2>3
<1>3. PolicyBites'
  <2>1. SUFFICES ASSUME NEW r \in Places, rel'[r].policy, rel'[r].rls = "unset"
                 PROVE  Pending(r, "enable")'
    BY DEF PolicyBites
  <2>2. CASE r = g.to /\ "enable" \in WordsOf(g.todo)
    BY <1>1, <2>2
  <2>3. CASE Unbitten(r) /\ ~(r = form[e].to /\ "enable" \in LeftTo(e) \ WordsOf(g.todo))
    <3>1. Pending(r, "enable")
      BY <1>0, <2>3 DEF PolicyBites, Unbitten
    <3> QED
      BY <1>1, <2>3, <3>1
  <2> QED
    BY <2>1, <2>2, <2>3
<1>4. ChangesAreTold'
  <2>1. SUFFICES ASSUME cache' = "stale", ~due'
                 PROVE  \E d \in Editors : "say" \in LeftTo(d)'
    <3>1. \A d \in Editors : ToSet(form'[d].todo) = LeftTo(d)'
      BY <1>1, PendingWillBe
    <3> QED
      BY <3>1 DEF ChangesAreTold
  <2>2. CASE "say" \in WordsOf(g.todo)
    BY <1>1, <2>2
  <2>3. CASE cache = "stale" /\ due' = due /\ "say" \notin LeftTo(e) \ WordsOf(g.todo)
    <3>1. \A d \in Editors : ToSet(form[d].todo) = LeftTo(d)
      BY <1>0, PendingIs
    <3>2. PICK d \in Editors : "say" \in LeftTo(d)
      BY <1>0, <2>1, <2>3, <3>1 DEF ChangesAreTold
    <3> QED
      BY <1>1, <2>3, <3>2
  <2> QED
    BY <2>1, <2>2, <2>3
<1>5. SchemaTypeOK'
  <2>1. ASSUME NEW d \in Editors
        PROVE  {form'[d].at, form'[d].to} \subseteq Places \cup {NoPlace} /\ Len(form'[d].todo) <= 4
    BY <1>1 DEF FormsOK, FormOK, Orderly
  <2> QED
    BY <2>1 DEF SchemaTypeOK
<1> QED
  BY <1>1, <1>2, <1>3, <1>4, <1>5 DEF SchemaInv, FormsOK, SchemaFormsComplete

LEMMA SchemaInvKept ==
  ASSUME SchemaInv, [SchemaNext]_schemaVars
  PROVE  SchemaInv'
<1>0. /\ FormsOK /\ SchemaTypeOK /\ ChangesAreTold /\ MadeIsOwned /\ PolicyBites
      /\ rel \in [Places -> Things] /\ extra \in BOOLEAN /\ due \in BOOLEAN /\ forms \in 0..MaxForms
      /\ cache \in {"fresh", "stale", "untold"} /\ MaxForms \in Nat
  BY SchemaAssumption DEF SchemaInv, FormsOK, SchemaFormsComplete, SchemaTypeOK
<1>i. FormOK(Idle) /\ Idle.todo = <<>> /\ WordsOf(<<>>) = {}
  <2>1. <<>> \in Seq(Word)
    OBVIOUS
  <2> QED
    BY <2>1, NothingLeft DEF Idle, FormOK
<1>1. ASSUME NEW e \in Editors, NEW s \in {"public", "extra"}, NEW t \in Tables, NEW u \in Tables,
             HandIn(e, s, t, u)
      PROVE  SchemaInv'
  <2>1. PICK p, q : p = <<edSchema(s), t>> /\ q = <<edSchema(s), u>>
    OBVIOUS
  <2>2. p \in Places /\ q \in Places
    BY <2>1 DEF edSchema, Places
  <2>3. PICK f \in Forms(p, q) : form' = [form EXCEPT ![e] = [todo |-> f.todo, at |-> f.at, to |-> f.to]]
    BY <1>1, <2>1 DEF HandIn
  <2>4. /\ f.at = p /\ f.to \in {p, q} /\ f.todo \in Lists
        /\ f.todo = <<"policy", "enable", "say">> => f.to = p
    BY FormsAreOrderly
  <2>5. Orderly(f.todo) /\ ("enable" \in WordsOf(f.todo) => f.at = f.to)
    BY <2>4, ListsAreOrderly
  <2>6. PICK g : g = [todo |-> f.todo, at |-> f.at, to |-> f.to]
    OBVIOUS
  <2>7. FormOK(g) /\ RequestOn(e, g)
    <3>1. f.todo \in Seq(Word)
      BY <2>5 DEF Orderly
    <3> QED
      BY <2>2, <2>3, <2>4, <2>5, <2>6, <3>1 DEF FormOK, RequestOn
  <2>8. /\ form[e].todo = <<>> /\ forms < MaxForms /\ forms' = forms + 1 /\ extra' = extra /\ rel' = rel
        /\ cache' = cache /\ due' = due
    BY <1>1 DEF HandIn
  <2>9. LeftTo(e) = {}
    BY <1>i, <2>8 DEF LeftTo
  <2> QED
    BY <1>0, <2>7, <2>8, <2>9, RequestKeeps DEF Loose, Unbitten
<1>d. ASSUME NEW e \in Editors, form[e].todo # <<>>
      PROVE  /\ form[e].at \in Places /\ form[e].to \in Places
             /\ LeftTo(e) = ToSet(form[e].todo) /\ Head(form[e].todo) \in LeftTo(e)
             /\ "enable" \in LeftTo(e) => form[e].at = form[e].to /\ LeftTo(e) \cap Owning = {}
  <2>1. FormOK(form[e])
    BY <1>0 DEF FormsOK
  <2>2. PICK s : s = form[e].todo /\ s \in Seq(Word)
    BY <2>1 DEF FormOK
  <2>3. LeftTo(e) = WordsOf(s)
    BY <2>2 DEF LeftTo
  <2>4. LeftTo(e) = ToSet(s) /\ Head(s) \in WordsOf(s)
    BY <1>d, <2>2, <2>3, StepsAre
  <2> QED
    BY <1>d, <2>1, <2>2, <2>3, <2>4 DEF FormOK, Orderly
\* On to the next statement: the first one is gone.
<1>a. ASSUME NEW e \in Editors, form[e].todo # <<>>, NEW g, g = Advance(form[e])
      PROVE  /\ FormOK(g) /\ LeftTo(e) = {Head(form[e].todo)} \cup WordsOf(g.todo)
             /\ Needs(Head(form[e].todo)) \subseteq WordsOf(g.todo)
             /\ WordsOf(g.todo) # {} => g.to = form[e].to /\ g.at = form[e].at
  <2>0. FormOK(form[e])
    BY <1>0 DEF FormsOK
  <2>1. PICK s : s = form[e].todo
    OBVIOUS
  <2>2. Orderly(s) /\ s # <<>> /\ LeftTo(e) = WordsOf(s)
    BY <1>a, <2>0, <2>1 DEF FormOK, LeftTo
  <2>3. /\ Orderly(Tail(s)) /\ Len(s) \in Nat \ {0} /\ Len(s) <= 4
        /\ WordsOf(s) = {Head(s)} \cup WordsOf(Tail(s))
        /\ Needs(Head(s)) \subseteq WordsOf(Tail(s))
        /\ Len(s) = 1 <=> Tail(s) = <<>>
    BY <2>2, HeadGoes
  <2>4. CASE Len(s) = 1
    <3>1. g = Idle /\ Tail(s) = <<>>
      BY <1>a, <2>1, <2>3, <2>4 DEF Advance
    <3> QED
      BY <1>i, <2>1, <2>2, <2>3, <3>1
  <2>5. CASE Len(s) # 1
    <3>1. g = [form[e] EXCEPT !.todo = Tail(s)]
      BY <1>a, <2>1, <2>5 DEF Advance
    <3>2. g.todo = Tail(s) /\ g.at = form[e].at /\ g.to = form[e].to
      BY <2>0, <3>1 DEF FormOK
    <3>3. FormOK(g)
      <4>1. g \in [todo : Seq(Word), at : Places \cup {NoPlace}, to : Places \cup {NoPlace}]
        <5>1. Tail(s) \in Seq(Word)
          BY <2>3 DEF Orderly
        <5> QED
          BY <2>0, <3>1, <5>1 DEF FormOK
      <4> QED
        BY <1>a, <1>d, <2>1, <2>2, <2>3, <3>2, <4>1 DEF FormOK
    <3> QED
      BY <2>1, <2>2, <2>3, <3>2, <3>3
  <2> QED
    BY <2>4, <2>5
<1>2. ASSUME NEW e \in Editors, Runs(e) PROVE SchemaInv'
  <2>1. PICK step, p, q, g : /\ step = Head(form[e].todo) /\ p = form[e].at /\ q = form[e].to
                             /\ g = Advance(form[e])
    OBVIOUS
  <2>2. /\ form[e].todo # <<>> /\ Allowed(step, p, q) /\ rel' = Result(step, p, q)
        /\ extra' = CASE step = "create schema" -> TRUE
                      [] step = "drop schema" -> FALSE
                      [] OTHER -> extra
        /\ cache' = CASE step \in Shown -> "stale"
                      [] step \in Untold -> "untold"
                      [] OTHER -> cache
        /\ due' = (due \/ step = "say")
        /\ form' = [form EXCEPT ![e] = g] /\ forms' = forms
    BY <1>2, <2>1 DEF Runs
  <2>3. p \in Places /\ q \in Places /\ ("enable" \in LeftTo(e) => p = q)
    BY <1>d, <2>1, <2>2
  <2>4. /\ FormOK(g) /\ LeftTo(e) = {step} \cup WordsOf(g.todo) /\ Needs(step) \subseteq WordsOf(g.todo)
        /\ WordsOf(g.todo) # {} => g.to = q /\ g.at = p
    BY <1>a, <2>1, <2>2
  <2>5. PICK res : res = Result(step, p, q)
    OBVIOUS
  <2>6. /\ res \in [Places -> Things]
        /\ \A r \in Places : res[r].kind # "none" /\ res[r].own = "super" =>
             \/ r = q /\ Needs(step) \cap Owning # {}
             \/ Loose(r) /\ ~(r = q /\ step \in Owning)
        /\ \A r \in Places : res[r].policy /\ res[r].rls = "unset" =>
             \/ r = p /\ step = "policy"
             \/ Unbitten(r) /\ ~(r = p /\ step = "enable")
    <3>1. rel \in [Places -> Things] /\ p \in Places /\ q \in Places /\ Allowed(step, p, q)
      BY <1>0, <2>2, <2>3
    <3> QED
      BY <2>5, <3>1, ResultIs
  <2>7. ASSUME NEW r \in Places, rel'[r].kind # "none", rel'[r].own = "super"
        PROVE  \/ r = g.to /\ WordsOf(g.todo) \cap Owning # {}
               \/ Loose(r) /\ ~(r = form[e].to /\ (LeftTo(e) \ WordsOf(g.todo)) \cap Owning # {})
    <3>1. CASE r = q /\ Needs(step) \cap Owning # {}
      BY <2>4, <3>1
    <3>2. CASE Loose(r) /\ ~(r = q /\ step \in Owning)
      BY <2>1, <2>4, <3>2
    <3> QED
      BY <2>2, <2>5, <2>6, <2>7, <3>1, <3>2
  <2>8. ASSUME NEW r \in Places, rel'[r].policy, rel'[r].rls = "unset"
        PROVE  \/ r = g.to /\ "enable" \in WordsOf(g.todo)
               \/ Unbitten(r) /\ ~(r = form[e].to /\ "enable" \in LeftTo(e) \ WordsOf(g.todo))
    <3>1. CASE r = p /\ step = "policy"
      <4>1. "enable" \in WordsOf(g.todo)
        BY <2>4, <3>1 DEF Needs
      <4> QED
        BY <2>3, <2>4, <3>1, <4>1
    <3>2. CASE Unbitten(r) /\ ~(r = p /\ step = "enable")
      BY <2>1, <2>3, <2>4, <3>2
    <3> QED
      BY <2>2, <2>5, <2>6, <2>8, <3>1, <3>2
  <2>9. ASSUME cache' = "stale"
        PROVE  \/ due'
               \/ "say" \in WordsOf(g.todo)
               \/ cache = "stale" /\ due' = due /\ "say" \notin LeftTo(e) \ WordsOf(g.todo)
    <3>1. CASE step \in Shown
      BY <2>4, <3>1 DEF Needs
    <3>2. CASE step = "say"
      BY <2>2, <3>2
    <3>3. CASE step \notin Shown /\ step # "say"
      <4>1. cache = "stale" /\ due' = due
        BY <1>0, <2>2, <2>9, <3>3
      <4> QED
        BY <2>4, <3>3, <4>1
    <3> QED
      BY <3>1, <3>2, <3>3
  <2>10. extra' \in BOOLEAN
    BY <1>0, <2>2
  <2>11. due' \in BOOLEAN
    BY <2>2
  <2>12. cache' \in {"fresh", "stale", "untold"}
    BY <1>0, <2>2
  <2>13. rel' \in [Places -> Things] /\ forms' \in 0..MaxForms /\ RequestOn(e, g)
    BY <1>0, <2>2, <2>4, <2>5, <2>6 DEF RequestOn
  <2> QED
    BY <2>1, <2>4, <2>7, <2>8, <2>9, <2>10, <2>11, <2>12, <2>13, RequestKeeps
\* What an error leaves out is accounted for.
<1>f. ASSUME NEW e \in Editors, form[e].todo # <<>>, NEW g, RequestOn(e, g), NEW dropped, dropped \subseteq LeftTo(e),
             LeftTo(e) \subseteq dropped \cup WordsOf(g.todo), WordsOf(g.todo) # {} => g.to = form[e].to,
             rel' = Forsaken(dropped, form[e].at, form[e].to), cache' = Unsaid(dropped),
             extra' = extra, due' = due, forms' = forms
      PROVE  SchemaInv'
  <2>1. /\ form[e].at \in Places /\ form[e].to \in Places
        /\ "enable" \in LeftTo(e) => form[e].at = form[e].to /\ LeftTo(e) \cap Owning = {}
    BY <1>d, <1>f
  <2>2. "enable" \in dropped => dropped \cap Owning = {}
    BY <1>f, <2>1
  <2>3. PICK res : res = Forsaken(dropped, form[e].at, form[e].to)
    OBVIOUS
  <2>4. /\ res \in [Places -> Things]
        /\ \A r \in Places : res[r].kind # "none" /\ res[r].own = "super" =>
             Loose(r) /\ ~(r = form[e].to /\ dropped \cap Owning # {})
        /\ \A r \in Places : res[r].policy /\ res[r].rls = "unset" =>
             Unbitten(r) /\ ~(r = form[e].at /\ "enable" \in dropped)
    BY <1>0, <2>1, <2>2, <2>3, ForsakenIs
  <2>5. \A r \in Places : rel'[r].kind # "none" /\ rel'[r].own = "super" =>
          Loose(r) /\ ~(r = form[e].to /\ (LeftTo(e) \ WordsOf(g.todo)) \cap Owning # {})
    BY <1>f, <2>3, <2>4
  <2>6. \A r \in Places : rel'[r].policy /\ rel'[r].rls = "unset" =>
          Unbitten(r) /\ ~(r = form[e].to /\ "enable" \in LeftTo(e) \ WordsOf(g.todo))
    BY <1>f, <2>1, <2>3, <2>4
  <2>7. cache' = "stale" => cache = "stale" /\ "say" \notin LeftTo(e) \ WordsOf(g.todo)
    BY <1>f DEF Unsaid
  <2>8. cache' \in {"fresh", "stale", "untold"}
    BY <1>0, <1>f DEF Unsaid
  <2> QED
    BY <1>0, <1>f, <2>3, <2>4, <2>5, <2>6, <2>7, <2>8, RequestKeeps
<1>g. ASSUME NEW e \in Editors, form' = [form EXCEPT ![e] = Idle] PROVE RequestOn(e, Idle)
  BY <1>g, <1>i DEF RequestOn
<1>3. ASSUME NEW e \in Editors, StatementFails(e) PROVE SchemaInv'
  <2>1. PICK step, g : step = Head(form[e].todo) /\ g = Advance(form[e])
    OBVIOUS
  <2>2. form[e].todo # <<>> /\ extra' = extra /\ due' = due /\ forms' = forms
    BY <1>3 DEF StatementFails
  <2>3. CASE step \in BestEffort
    <3>1. /\ rel' = Forsaken({step}, form[e].at, form[e].to) /\ cache' = Unsaid({step})
          /\ form' = [form EXCEPT ![e] = g]
      BY <1>3, <2>1, <2>3 DEF StatementFails
    <3>2. /\ FormOK(g) /\ LeftTo(e) = {step} \cup WordsOf(g.todo)
          /\ WordsOf(g.todo) # {} => g.to = form[e].to
      BY <1>a, <2>1, <2>2
    <3>3. PICK dropped : dropped = {step}
      OBVIOUS
    <3>4. RequestOn(e, g) /\ dropped \subseteq LeftTo(e) /\ LeftTo(e) \subseteq dropped \cup WordsOf(g.todo)
      BY <3>1, <3>2, <3>3 DEF RequestOn
    <3> QED
      BY <1>f, <2>2, <3>1, <3>2, <3>3, <3>4
  <2>4. CASE step \notin BestEffort
    <3>1. /\ rel' = Forsaken(ToSet(form[e].todo), form[e].at, form[e].to)
          /\ cache' = Unsaid(ToSet(form[e].todo))
          /\ form' = [form EXCEPT ![e] = Idle]
      BY <1>3, <2>1, <2>4 DEF StatementFails
    <3>2. RequestOn(e, Idle) /\ WordsOf(Idle.todo) = {} /\ ToSet(form[e].todo) = LeftTo(e)
      BY <1>d, <1>g, <1>i, <2>2, <3>1
    <3> QED
      BY <1>f, <2>2, <3>1, <3>2
  <2> QED
    BY <2>3, <2>4
<1>4. ASSUME NEW e \in Editors, PanelStops(e) PROVE SchemaInv'
  <2>1. /\ rel' = Forsaken(ToSet(form[e].todo), form[e].at, form[e].to)
        /\ cache' = Unsaid(ToSet(form[e].todo)) /\ form[e].todo # <<>>
        /\ form' = [form EXCEPT ![e] = Idle] /\ extra' = extra /\ due' = due /\ forms' = forms
    BY <1>4 DEF PanelStops
  <2>2. RequestOn(e, Idle) /\ WordsOf(Idle.todo) = {} /\ ToSet(form[e].todo) = LeftTo(e)
    BY <1>d, <1>g, <1>i, <2>1
  <2> QED
    BY <1>f, <2>1, <2>2
<1>5. CASE PostgRESTReads
  <2>1. form' = form /\ rel' = rel /\ cache' = "fresh" /\ due' = FALSE /\ extra' = extra /\ forms' = forms
    BY <1>5 DEF PostgRESTReads
  <2>2. ChangesAreTold'
    BY <2>1 DEF ChangesAreTold
  <2>p. \A p, step : Pending(p, step)' <=> Pending(p, step)
    BY <2>1 DEF Pending
  <2>o. MadeIsOwned'
    BY <1>0, <2>1, <2>p DEF MadeIsOwned
  <2>3. PolicyBites'
    BY <1>0, <2>1, <2>p DEF PolicyBites
  <2>4. SchemaTypeOK'
    BY <1>0, <2>1 DEF SchemaTypeOK
  <2> QED
    BY <1>0, <2>1, <2>2, <2>o, <2>3, <2>4 DEF SchemaInv, FormsOK, SchemaFormsComplete
<1>6. CASE UNCHANGED schemaVars
  <2>1. form' = form /\ rel' = rel /\ cache' = cache /\ due' = due /\ extra' = extra /\ forms' = forms
    BY <1>6 DEF schemaVars
  <2>2. ChangesAreTold'
    BY <1>0, <2>1 DEF ChangesAreTold
  <2>p. \A p, step : Pending(p, step)' <=> Pending(p, step)
    BY <2>1 DEF Pending
  <2>o. MadeIsOwned'
    BY <1>0, <2>1, <2>p DEF MadeIsOwned
  <2>3. PolicyBites'
    BY <1>0, <2>1, <2>p DEF PolicyBites
  <2>4. SchemaTypeOK'
    BY <1>0, <2>1 DEF SchemaTypeOK
  <2> QED
    BY <1>0, <2>1, <2>2, <2>o, <2>3, <2>4 DEF SchemaInv, FormsOK, SchemaFormsComplete
<1> QED
  BY <1>1, <1>2, <1>3, <1>4, <1>5, <1>6 DEF SchemaNext

\* Every state keeps the invariant.
LEMMA SchemaAlways == SchemaSpec => []SchemaInv
<1>1. SchemaInit => SchemaInv
  <2>1. SUFFICES ASSUME SchemaInit PROVE SchemaInv
    OBVIOUS
  <2>2. FormOK(Idle)
    <3>1. <<>> \in Seq(Word)
      OBVIOUS
    <3> QED
      BY <3>1, NothingLeft DEF Idle, FormOK
  <2>3. MaxForms \in Nat /\ Nothing \in Things
    BY SchemaAssumption, ThingsAre
  <2>4. extra = FALSE /\ due = FALSE /\ forms = 0 /\ cache = "fresh" /\ rel = [p \in Places |-> Nothing]
    BY <2>1 DEF SchemaInit
  <2>r. rel \in [Places -> Things]
    BY <2>3, <2>4
  <2>b. extra \in BOOLEAN /\ due \in BOOLEAN
    BY <2>4
  <2>n. forms \in 0..MaxForms /\ cache \in {"fresh", "stale", "untold"}
    BY <2>3, <2>4
  <2>5. DOMAIN form = Editors /\ \A e \in Editors : FormOK(form[e])
    BY <2>1, <2>2 DEF SchemaInit
  <2>6. ASSUME NEW e \in Editors
        PROVE  {form[e].at, form[e].to} \subseteq Places \cup {NoPlace} /\ Len(form[e].todo) <= 4
    BY <2>5 DEF FormOK, Orderly
  <2>7. SchemaTypeOK
    BY <2>r, <2>b, <2>n, <2>6 DEF SchemaTypeOK
  <2>8. SchemaFormsComplete
    BY <2>1, ThingsAre DEF SchemaInit, SchemaFormsComplete, ChangesAreTold, MadeIsOwned, PolicyBites
  <2> QED
    BY <2>5, <2>7, <2>8 DEF SchemaInv
<1> QED
  BY <1>1, SchemaInvKept, PTL DEF SchemaSpec

\* However many editors hand in forms at once, and whichever of their statements
\* fail or are cut off: changes are told, what is made becomes the project's,
\* and a policy bites (editor.go, objects.go, rls.go).
THEOREM SchemaStaysComplete == SchemaSpec => []SchemaFormsComplete
<1>3. SchemaInv => SchemaFormsComplete
  BY DEF SchemaInv
<1> QED
  BY <1>3, SchemaAlways, PTL

-----------------------------------------------------------------------------
(* The rows of a table.                                                    *)

\* No two keys lead to one row, a row has a number that was given out, and
\* what was last typed is kept under it.
RowInv ==
    /\ RowTypeOK
    /\ \A k \in Keys : grid[k].id <= made
    /\ \A k, l \in Keys : Is(k) /\ grid[k].id = grid[l].id => k = l
    /\ RowsAsTyped

Rows == [id : 0..MaxRows, val : [Fields -> Entries]]

LEMMA RowBounds ==
  /\ MaxRows \in Nat /\ MaxPanels \in Nat
  /\ NoRow \in Rows /\ NoRow.id = 0 /\ NoRow.val \in [Fields -> Entries]
  /\ NoSheet \in [cells : SUBSET Cells, type : Types, imported : BOOLEAN]
<1>1. Entries # {} /\ MaxRows \in Nat /\ MaxPanels \in Nat
  BY RowAssumption
<1>2. (CHOOSE v \in Entries : TRUE) \in Entries
  BY <1>1
<1>3. NoRow \in Rows /\ NoRow.id = 0 /\ NoRow.val \in [Fields -> Entries]
  BY <1>1, <1>2 DEF NoRow, Rows
<1>4. NoSheet \in [cells : SUBSET Cells, type : Types, imported : BOOLEAN]
  BY DEF NoSheet, Types
<1> QED
  BY <1>1, <1>3, <1>4

\* The type that is guessed fits what it was guessed from.
LEMMA GuessFits ==
  ASSUME NEW cells \in SUBSET Cells
  PROVE  /\ inferColType(cells) \in Types
         /\ "blank" \notin cells => cells \subseteq Takes(inferColType(cells))
         /\ cells \cap {"zeros", "long"} # {} => inferColType(cells) = "text"
<1>1. CASE Telling(cells) = {}
  <2>1. inferColType(cells) = "text"
    BY <1>1 DEF inferColType
  <2> QED
    BY <2>1 DEF Types, Takes
<1>2. CASE Telling(cells) # {} /\ Telling(cells) \subseteq {"whole", "padded"}
  <2>1. inferColType(cells) = "bigint"
    BY <1>2 DEF inferColType
  <2> QED
    BY <1>2, <2>1 DEF Types, Takes, Telling
<1>3. CASE Telling(cells) # {} /\ Telling(cells) \subseteq {"decimal"}
  <2>1. inferColType(cells) = "numeric"
    BY <1>3 DEF inferColType
  <2> QED
    BY <1>3, <2>1 DEF Types, Takes, Telling
<1>4. CASE Telling(cells) # {} /\ Telling(cells) \subseteq {"truth"}
  <2>1. inferColType(cells) = "boolean"
    BY <1>4 DEF inferColType
  <2> QED
    BY <1>4, <2>1 DEF Types, Takes, Telling
<1>5. CASE Telling(cells) # {} /\ Telling(cells) \subseteq {"date"}
  <2>1. inferColType(cells) = "timestamptz"
    BY <1>5 DEF inferColType
  <2> QED
    BY <1>5, <2>1 DEF Types, Takes, Telling
<1>6. CASE /\ Telling(cells) # {} /\ ~(Telling(cells) \subseteq {"whole", "padded"})
           /\ ~(Telling(cells) \subseteq {"decimal"}) /\ ~(Telling(cells) \subseteq {"truth"})
           /\ ~(Telling(cells) \subseteq {"date"})
  <2>1. inferColType(cells) = "text"
    BY <1>6 DEF inferColType
  <2> QED
    BY <2>1 DEF Types, Takes
<1> QED
  BY <1>1, <1>2, <1>3, <1>4, <1>5, <1>6

\* One row is written, and what was typed into it: of the others nothing is.
LEMMA UpdateKept ==
  ASSUME RowInv, NEW k \in Keys, NEW posted \in [Fields -> Entries], NEW dirty \in SUBSET Fields,
         Update(k, posted, dirty), made' = made
  PROVE  /\ grid' \in [Keys -> Rows] /\ typed' \in [1..MaxRows -> [Fields -> Entries]]
         /\ \A l \in Keys : grid'[l].id <= made'
         /\ \A l, m \in Keys : grid'[l].id # 0 /\ grid'[l].id = grid'[m].id => l = m
         /\ NothingClobbered'
<1>0. /\ grid \in [Keys -> Rows] /\ typed \in [1..MaxRows -> [Fields -> Entries]]
      /\ \A l \in Keys : grid[l].id <= made
      /\ \A l, m \in Keys : grid[l].id # 0 /\ grid[l].id = grid[m].id => l = m
      /\ \A l \in Keys : grid[l].id # 0 => grid[l].val = typed[grid[l].id]
      /\ MaxRows \in Nat
  BY RowBounds DEF RowInv, RowTypeOK, Rows, Is, RowsAsTyped, NothingClobbered
<1>1. PICK val : val = [f \in Fields |-> IF f \in dirty THEN posted[f] ELSE grid[k].val[f]]
  OBVIOUS
<1>2. grid[k].val \in [Fields -> Entries] /\ grid[k].id \in 1..MaxRows /\ grid[k].id # 0
  <2>1. grid[k] \in Rows /\ grid[k].id # 0
    BY <1>0 DEF Update, Is
  <2> QED
    BY <1>0, <2>1 DEF Rows
<1>3. val \in [Fields -> Entries]
  BY <1>1, <1>2
<1>4. grid' = [grid EXCEPT ![k].val = val] /\ typed' = [typed EXCEPT ![grid[k].id] = val]
  <2>1. Sets(posted, grid[k].val, dirty) = val
    BY <1>1 DEF Sets
  <2>2. [f \in Fields |-> IF f \in dirty THEN posted[f] ELSE typed[grid[k].id][f]] = val
    BY <1>0, <1>1, <1>2
  <2>3. grid' = [grid EXCEPT ![k].val = Sets(posted, grid[k].val, dirty)]
    BY <1>0 DEF Update
  <2>4. typed' = [typed EXCEPT ![grid[k].id] =
                     [f \in Fields |-> IF f \in dirty THEN posted[f] ELSE typed[grid[k].id][f]]]
    BY <1>0, <1>2 DEF Update
  <2> QED
    BY <2>1, <2>2, <2>3, <2>4
<1>5. /\ \A l \in Keys : grid'[l].id = grid[l].id /\ (l # k => grid'[l] = grid[l])
      /\ grid'[k].val = val /\ grid' \in [Keys -> Rows]
  BY <1>0, <1>3, <1>4 DEF Rows
<1>6. /\ typed'[grid[k].id] = val /\ typed' \in [1..MaxRows -> [Fields -> Entries]]
      /\ \A i \in 1..MaxRows : i # grid[k].id => typed'[i] = typed[i]
  BY <1>0, <1>2, <1>3, <1>4
<1>7. ASSUME NEW l \in Keys, grid'[l].id # 0 PROVE grid'[l].val = typed'[grid'[l].id]
  <2>1. CASE l = k
    BY <1>5, <1>6, <2>1
  <2>2. CASE l # k
    <3>1. grid[l].id \in 1..MaxRows /\ grid[l].id # grid[k].id
      BY <1>0, <1>2, <1>5, <1>7, <2>2 DEF Rows
    <3> QED
      BY <1>0, <1>5, <1>6, <1>7, <2>2, <3>1
  <2> QED
    BY <2>1, <2>2
<1>8. \A l \in Keys : grid'[l].id <= made'
  <2>1. made' = made
    OBVIOUS
  <2> QED
    BY <1>0, <1>5, <2>1
<1>9. \A l, m \in Keys : grid'[l].id # 0 /\ grid'[l].id = grid'[m].id => l = m
  BY <1>0, <1>5
<1>10. NothingClobbered'
  BY <1>7 DEF NothingClobbered, Is
<1> QED
  BY <1>5, <1>6, <1>8, <1>9, <1>10

LEMMA RowInvKept ==
  ASSUME RowInv, [RowNext]_rowVars
  PROVE  RowInv'
<1>0. /\ grid \in [Keys -> Rows] /\ typed \in [1..MaxRows -> [Fields -> Entries]]
      /\ panel \in [RowEditors -> {Closed} \cup Panels] /\ made \in 0..MaxRows /\ opened \in 0..MaxPanels
      /\ sheet \in [cells : SUBSET Cells, type : Types, imported : BOOLEAN]
      /\ \A l \in Keys : grid[l].id <= made
      /\ \A l, m \in Keys : grid[l].id # 0 /\ grid[l].id = grid[m].id => l = m
      /\ \A l \in Keys : grid[l].id # 0 => grid[l].val = typed[grid[l].id]
      /\ TypeFitsCells
      /\ MaxRows \in Nat /\ MaxPanels \in Nat
  BY RowBounds DEF RowInv, RowTypeOK, Rows, Is, RowsAsTyped, NothingClobbered
<1>e. \A e \in RowEditors : panel[e].open => panel[e] \in Panels
  BY <1>0 DEF Closed
<1>c. \A e \in RowEditors : panel' = [panel EXCEPT ![e] = Closed] =>
        panel' \in [RowEditors -> {Closed} \cup Panels]
  BY <1>0
<1>z. ASSUME sheet' = sheet PROVE TypeFitsCells'
  BY <1>0, <1>z DEF TypeFitsCells
<1>1. ASSUME NEW k \in Keys, NEW val \in [Fields -> Entries], rowInsert(k, val) PROVE RowInv'
  <2>1. /\ made' = made + 1 /\ made + 1 \in 1..MaxRows /\ grid[k].id = 0
        /\ grid' = [grid EXCEPT ![k] = [id |-> made + 1, val |-> val]]
        /\ typed' = [typed EXCEPT ![made + 1] = val]
        /\ sheet' = NoSheet /\ panel' = panel /\ opened' = opened
    BY <1>0, <1>1 DEF rowInsert, Is
  <2>2. /\ grid' \in [Keys -> Rows] /\ grid'[k] = [id |-> made + 1, val |-> val]
        /\ \A l \in Keys : l # k => grid'[l] = grid[l]
    BY <1>0, <2>1 DEF Rows
  <2>3. /\ typed' \in [1..MaxRows -> [Fields -> Entries]] /\ typed'[made + 1] = val
        /\ \A i \in 1..MaxRows : i # made + 1 => typed'[i] = typed[i]
    BY <1>0, <2>1
  <2>4. \A l \in Keys : grid[l].id \in Nat /\ grid[l].id # made + 1 /\ (grid[l].id # 0 => grid[l].id \in 1..MaxRows)
    BY <1>0 DEF Rows
  <2>5. /\ \A l \in Keys : grid'[l].id <= made'
        /\ \A l, m \in Keys : grid'[l].id # 0 /\ grid'[l].id = grid'[m].id => l = m
        /\ \A l \in Keys : grid'[l].id # 0 => grid'[l].val = typed'[grid'[l].id]
    BY <1>0, <2>1, <2>2, <2>3, <2>4
  <2>6. TypeFitsCells'
    BY <2>1 DEF TypeFitsCells, NoSheet
  <2> QED
    BY <1>0, <2>1, <2>2, <2>3, <2>5, <2>6, RowBounds
    DEF RowInv, RowTypeOK, Rows, Is, RowsAsTyped, NothingClobbered
<1>2. ASSUME NEW e \in RowEditors, NEW k \in Keys, rowJSON(e, k) PROVE RowInv'
  <2>1. /\ opened' \in 0..MaxPanels /\ grid' = grid /\ made' = made /\ typed' = typed /\ sheet' = sheet
        /\ panel' = [panel EXCEPT ![e] = [open |-> TRUE, key |-> k, val |-> grid[k].val]]
    BY <1>0, <1>2 DEF rowJSON
  <2>2. [open |-> TRUE, key |-> k, val |-> grid[k].val] \in Panels
    BY <1>0 DEF Rows, Panels
  <2>3. panel' \in [RowEditors -> {Closed} \cup Panels]
    BY <1>0, <2>1, <2>2
  <2> QED
    BY <1>0, <1>z, <2>1, <2>3 DEF RowInv, RowTypeOK, Rows, Is, RowsAsTyped, NothingClobbered
<1>3. ASSUME NEW e \in RowEditors, NEW dirty \in SUBSET Fields, NEW val \in [Fields -> Entries],
             rowUpdateFull(e, dirty, val)
      PROVE  RowInv'
  <2>1. PICK posted : posted = [f \in Fields |-> IF f \in dirty THEN val[f] ELSE panel[e].val[f]]
    OBVIOUS
  <2>2. /\ panel[e].open /\ Update(panel[e].key, posted, dirty) /\ panel' = [panel EXCEPT ![e] = Closed]
        /\ made' = made /\ opened' = opened /\ sheet' = sheet
    BY <1>3, <2>1 DEF rowUpdateFull
  <2>3. panel[e].key \in Keys /\ panel[e].val \in [Fields -> Entries]
    BY <1>e, <2>2 DEF Panels
  <2>4. posted \in [Fields -> Entries]
    BY <2>1, <2>3
  <2>5. /\ grid' \in [Keys -> Rows] /\ typed' \in [1..MaxRows -> [Fields -> Entries]]
        /\ \A l \in Keys : grid'[l].id <= made'
        /\ \A l, m \in Keys : grid'[l].id # 0 /\ grid'[l].id = grid'[m].id => l = m
        /\ NothingClobbered'
    BY <2>2, <2>3, <2>4, UpdateKept
  <2> QED
    BY <1>0, <1>c, <1>z, <2>2, <2>5 DEF RowInv, RowTypeOK, Rows, Is, RowsAsTyped
<1>4. ASSUME NEW e \in RowEditors, UpdateMatchesNone(e) PROVE RowInv'
  BY <1>0, <1>c, <1>z, <1>4
  DEF UpdateMatchesNone, RowInv, RowTypeOK, Rows, Is, RowsAsTyped, NothingClobbered
<1>5. ASSUME NEW k \in Keys, NEW f \in Fields, NEW v \in Entries, rowUpdate(k, f, v) PROVE RowInv'
  <2>1. /\ Update(k, [g \in Fields |-> v], {f}) /\ panel' = panel
        /\ made' = made /\ opened' = opened /\ sheet' = sheet
    BY <1>5 DEF rowUpdate
  <2>2. /\ grid' \in [Keys -> Rows] /\ typed' \in [1..MaxRows -> [Fields -> Entries]]
        /\ \A l \in Keys : grid'[l].id <= made'
        /\ \A l, m \in Keys : grid'[l].id # 0 /\ grid'[l].id = grid'[m].id => l = m
        /\ NothingClobbered'
    <3>1. [g \in Fields |-> v] \in [Fields -> Entries] /\ {f} \in SUBSET Fields
      OBVIOUS
    <3> QED
      BY <2>1, <3>1, UpdateKept
  <2> QED
    BY <1>0, <1>z, <2>1, <2>2 DEF RowInv, RowTypeOK, Rows, Is, RowsAsTyped
<1>6. ASSUME NEW k \in Keys, NEW to \in Keys, Rekey(k, to) PROVE RowInv'
  <2>1. /\ grid[k].id # 0 /\ grid[to].id = 0 /\ grid' = [grid EXCEPT ![to] = grid[k], ![k] = NoRow]
        /\ panel' = panel /\ made' = made /\ opened' = opened /\ typed' = typed /\ sheet' = sheet
    BY <1>6 DEF Rekey, Is
  <2>2. /\ grid' \in [Keys -> Rows] /\ grid'[to] = grid[k] /\ grid'[k].id = 0
        /\ \A l \in Keys : l \notin {k, to} => grid'[l] = grid[l]
    BY <1>0, <2>1, RowBounds
  <2>3. /\ \A l \in Keys : grid'[l].id <= made'
        /\ \A l, m \in Keys : grid'[l].id # 0 /\ grid'[l].id = grid'[m].id => l = m
        /\ \A l \in Keys : grid'[l].id # 0 => grid'[l].val = typed'[grid'[l].id]
    BY <1>0, <2>1, <2>2
  <2> QED
    BY <1>0, <1>z, <2>1, <2>2, <2>3 DEF RowInv, RowTypeOK, Rows, Is, RowsAsTyped, NothingClobbered
<1>7. ASSUME NEW gone \in SUBSET Keys, bulkDeleteRows(gone) PROVE RowInv'
  <2>1. /\ grid' = [k \in Keys |-> IF k \in gone THEN NoRow ELSE grid[k]]
        /\ typed' = [i \in 1..MaxRows |->
                       IF i \in {grid[k].id : k \in gone} THEN NoRow.val ELSE typed[i]]
        /\ panel' = panel /\ made' = made /\ opened' = opened /\ sheet' = sheet
    BY <1>7 DEF bulkDeleteRows
  <2>2. /\ grid' \in [Keys -> Rows] /\ typed' \in [1..MaxRows -> [Fields -> Entries]]
        /\ \A l \in Keys : IF l \in gone THEN grid'[l].id = 0 ELSE grid'[l] = grid[l]
    BY <1>0, <2>1, RowBounds
  <2>3. ASSUME NEW l \in Keys, grid'[l].id # 0 PROVE grid'[l].val = typed'[grid'[l].id]
    <3>1. l \notin gone /\ grid'[l] = grid[l]
      BY <2>2, <2>3
    <3>2. grid[l].id \in 1..MaxRows /\ grid[l].id \notin {grid[k].id : k \in gone}
      BY <1>0, <2>3, <3>1 DEF Rows
    <3> QED
      BY <1>0, <2>1, <2>3, <3>1, <3>2
  <2>4. /\ \A l \in Keys : grid'[l].id <= made'
        /\ \A l, m \in Keys : grid'[l].id # 0 /\ grid'[l].id = grid'[m].id => l = m
    BY <1>0, <2>1, <2>2
  <2> QED
    BY <1>0, <1>z, <2>1, <2>2, <2>3, <2>4 DEF RowInv, RowTypeOK, Rows, Is, RowsAsTyped, NothingClobbered
<1>8. ASSUME NEW cells \in SUBSET Cells, importCSVColumn(cells) PROVE RowInv'
  <2>1. /\ sheet' = [cells |-> cells, type |-> inferColType(cells),
                     imported |-> cells \subseteq Takes(inferColType(cells))]
        /\ grid' = grid /\ panel' = panel /\ made' = made /\ opened' = opened /\ typed' = typed
    BY <1>8 DEF importCSVColumn
  <2>2. /\ sheet'.cells = cells /\ sheet'.type = inferColType(cells)
        /\ sheet'.imported = (cells \subseteq Takes(inferColType(cells)))
        /\ sheet' \in [cells : SUBSET Cells, type : Types, imported : BOOLEAN]
    BY <2>1, GuessFits
  <2>3. TypeFitsCells'
    BY <2>2, GuessFits DEF TypeFitsCells
  <2> QED
    BY <1>0, <2>1, <2>2, <2>3 DEF RowInv, RowTypeOK, Rows, Is, RowsAsTyped, NothingClobbered
<1>9. CASE UNCHANGED rowVars
  BY <1>0, <1>z, <1>9 DEF rowVars, RowInv, RowTypeOK, Rows, Is, RowsAsTyped, NothingClobbered
<1> QED
  BY <1>1, <1>2, <1>3, <1>4, <1>5, <1>6, <1>7, <1>8, <1>9 DEF RowNext

\* Every state keeps the invariant.
LEMMA RowsAlways == RowSpec => []RowInv
<1>1. RowInit => RowInv
  BY RowBounds DEF RowInit, RowInv, RowTypeOK, Rows, Is, RowsAsTyped, NothingClobbered, TypeFitsCells,
     NoSheet, NoRow
<1> QED
  BY <1>1, RowInvKept, PTL DEF RowSpec

\* Of every row each field is what was last typed into it, however many panels
\* are open over it and whatever becomes of its key, and the columns of an
\* import have a type that fits (editor.go).
THEOREM RowsStayTyped == RowSpec => []RowsAsTyped
<1>3. RowInv => RowsAsTyped
  BY DEF RowInv
<1> QED
  BY <1>3, RowsAlways, PTL

-----------------------------------------------------------------------------
(* The tools that keep SQL.                                                *)

LEMMA SomeLeast ==
  ASSUME NEW T, T \subseteq Nat, T # {}
  PROVE  \E m \in T : \A n \in T : m <= n
<1>1. PICK x \in T : \A y \in T : ~(<<y, x>> \in OpToRel(<, Nat))
  BY WFMin, NatLessThanWellFounded, Zenon
<1>2. \A y \in T : ~(y < x)
  BY <1>1 DEF OpToRel
<1> QED
  BY <1>2

ToolRecs == [pc : {"idle", "begin", "sql", "record", "commit", "schedule",
                   "toggle", "unschedule", "trim"},
             id : 0..MaxSql, version : 0..LastInstant, after : SUBSET (1..MaxSql)]
ToolsAt(pc) == {u \in SqlUsers : AtStep(u, pc)}
GoesTo(u, t) == t \in ToolRecs /\ tools' = [tools EXCEPT ![u] = t]

\* The migrations recorded or under way.
MigrationsUnderway == {u \in SqlUsers : tools[u].pc \in {"begin", "sql", "record", "commit"}}
Migrated == migrations \cup
    {[id |-> tools[u].id, version |-> tools[u].version, after |-> tools[u].after] : u \in MigrationsUnderway}

SqlTyped ==
    /\ instant \in 0..LastInstant /\ ids \in 0..MaxSql
    /\ tools \in [SqlUsers -> ToolRecs]
    /\ applied \subseteq 1..ids /\ ownCommit \subseteq 1..ids /\ ran \subseteq 1..ids
    /\ Migrated \subseteq [id : 1..ids, version : 0..instant, after : SUBSET (1..ids)]
    /\ jobs \subseteq [id : 1..ids, name : JobNames, active : BOOLEAN]
    /\ unread \subseteq {"jobs", "trim"}

\* What was there when a migration was handed in is not newer than it, and one
\* request at most is about to commit a version, which no row has yet.
MigrationsOrdered ==
    /\ \A m, n \in Migrated : m.id \in n.after => m.version <= n.version
    /\ \A m \in Migrated : m.id \notin m.after
    /\ \A m, n \in migrations : m.version = n.version => m = n
    /\ \A u \in ToolsAt("commit") : ~Conflicts(u) /\ ~Awaited(u)
MigrationsRecorded ==
    /\ applied \ ownCommit \subseteq {m.id : m \in migrations}
    /\ {m.id : m \in migrations} \subseteq applied

\* The jobs that are about to be scheduled are counted too.
JobsCounted ==
    /\ IsFiniteSet(jobs)
    /\ "jobs" \notin unread =>
         Cardinality(jobs) + Cardinality(ToolsAt("schedule")) <= JobLimit + Cardinality(SqlUsers) - 1
    /\ \A i, j \in jobs : i.name = j.name => i = j

\* And so are the trims that are still to come.
RunsCounted ==
    "trim" \notin unread => Cardinality(ran) <= HistoryLimit + Cardinality(ToolsAt("trim"))

SqlInv ==
    SqlTyped /\ MigrationsOrdered /\ MigrationsRecorded /\ JobsCounted /\ RunsCounted

LEMMA SqlBounds ==
  /\ IsFiniteSet(SqlUsers) /\ JobLimit \in Nat \ {0} /\ HistoryLimit \in Nat
  /\ LastInstant \in Nat /\ MaxSql \in Nat
  /\ AtEase \in ToolRecs
  /\ \A pc \in {"idle", "begin", "sql", "record", "commit", "schedule", "toggle", "unschedule", "trim"},
        i \in 0..MaxSql : Using(pc, i) \in ToolRecs /\ Using(pc, i).pc = pc
<1>1. /\ IsFiniteSet(SqlUsers) /\ JobLimit \in Nat \ {0} /\ HistoryLimit \in Nat
      /\ LastInstant \in Nat /\ MaxSql \in Nat
  BY SqlAssumption
<1>2. AtEase \in ToolRecs
  BY <1>1 DEF AtEase, ToolRecs
<1>3. ASSUME NEW pc \in {"idle", "begin", "sql", "record", "commit", "schedule", "toggle",
                         "unschedule", "trim"}, NEW i \in 0..MaxSql
      PROVE  Using(pc, i) \in ToolRecs /\ Using(pc, i).pc = pc
  BY <1>2 DEF Using, ToolRecs
<1> QED
  BY <1>1, <1>2, <1>3

\* How many requests are at a step, when one of them goes from there or to it.
LEMMA ToolsCounted ==
  ASSUME NEW pc
  PROVE  /\ IsFiniteSet(ToolsAt(pc)) /\ Cardinality(ToolsAt(pc)) \in Nat
         /\ Cardinality(ToolsAt(pc)) <= Cardinality(SqlUsers) /\ Cardinality(SqlUsers) \in Nat
         /\ \A u \in SqlUsers : ~AtStep(u, pc) => Cardinality(ToolsAt(pc)) < Cardinality(SqlUsers)
<1>1. IsFiniteSet(SqlUsers) /\ ToolsAt(pc) \subseteq SqlUsers
  BY SqlBounds DEF ToolsAt
<1>2. ASSUME NEW u \in SqlUsers, ~AtStep(u, pc)
      PROVE  Cardinality(ToolsAt(pc)) < Cardinality(SqlUsers)
  <2>1. u \notin ToolsAt(pc)
    BY <1>2 DEF ToolsAt
  <2> QED
    BY <1>1, <1>2, <2>1, FS_Subset, FS_CardinalityType
<1> QED
  BY <1>1, <1>2, FS_Subset, FS_CardinalityType

LEMMA ToolMoves ==
  ASSUME SqlTyped, NEW u \in SqlUsers, NEW t, GoesTo(u, t), NEW pc
  PROVE  /\ t.pc # pc => ToolsAt(pc)' = ToolsAt(pc) \ {u}
         /\ t.pc = pc => ToolsAt(pc)' = ToolsAt(pc) \cup {u}
         /\ IsFiniteSet(ToolsAt(pc)') /\ Cardinality(ToolsAt(pc)') \in Nat
         /\ tools[u].pc = pc /\ t.pc # pc =>
              Cardinality(ToolsAt(pc)') = Cardinality(ToolsAt(pc)) - 1
         /\ tools[u].pc # pc /\ t.pc # pc => ToolsAt(pc)' = ToolsAt(pc)
         /\ tools[u].pc # pc /\ t.pc = pc =>
              Cardinality(ToolsAt(pc)') = Cardinality(ToolsAt(pc)) + 1
<1>1. /\ t.pc # pc => ToolsAt(pc)' = ToolsAt(pc) \ {u}
      /\ t.pc = pc => ToolsAt(pc)' = ToolsAt(pc) \cup {u}
      /\ u \in ToolsAt(pc) <=> tools[u].pc = pc
  BY DEF SqlTyped, ToolsAt, AtStep, GoesTo
<1>2. IsFiniteSet(ToolsAt(pc)) /\ Cardinality(ToolsAt(pc)) \in Nat
  BY ToolsCounted
<1>3. IsFiniteSet(ToolsAt(pc)') /\ Cardinality(ToolsAt(pc)') \in Nat
  BY <1>1, <1>2, FS_AddElement, FS_RemoveElement, FS_CardinalityType
<1>4. ASSUME tools[u].pc = pc, t.pc # pc
      PROVE  Cardinality(ToolsAt(pc)') = Cardinality(ToolsAt(pc)) - 1
  BY <1>1, <1>2, <1>4, FS_RemoveElement
<1>5. ASSUME tools[u].pc # pc, t.pc # pc PROVE ToolsAt(pc)' = ToolsAt(pc)
  BY <1>1, <1>5
<1>6. ASSUME tools[u].pc # pc, t.pc = pc
      PROVE  Cardinality(ToolsAt(pc)') = Cardinality(ToolsAt(pc)) + 1
  BY <1>1, <1>2, <1>6, FS_AddElement
<1> QED
  BY <1>1, <1>3, <1>4, <1>5, <1>6

\* A migration under way is what its request holds.
LEMMA MigratedMoves ==
  ASSUME SqlTyped, NEW u \in SqlUsers, NEW t, GoesTo(u, t), migrations' = migrations
  PROVE  /\ Migrated' \subseteq Migrated \cup
              (IF t.pc \in {"begin", "sql", "record", "commit"}
               THEN {[id |-> t.id, version |-> t.version, after |-> t.after]} ELSE {})
         /\ t.pc \in {"begin", "sql", "record", "commit"}
              /\ tools[u].pc \in {"begin", "sql", "record", "commit"}
              /\ t.id = tools[u].id /\ t.version = tools[u].version /\ t.after = tools[u].after =>
            Migrated' \subseteq Migrated
  BY DEF SqlTyped, Migrated, MigrationsUnderway, GoesTo

\* The steps, by what they have to do with migrations, jobs and runs.
MigrationStep(u) ==
    TakeVersion(u) \/ BeginMigration(u) \/ RunMigration(u) \/ RecordMigration(u) \/ CommitMigration(u)
JobStep(u) ==
    \/ cronCreate(u) \/ cronToggle(u) \/ Alter(u) \/ cronDelete(u)
    \/ \E name \in JobNames : Schedule(u, name)
RunStep(u) == InsertRun(u) \/ TrimRuns(u)

\* What a step makes of its request, with what it leaves of the rest.
LEMMA StepsOfOne ==
  ASSUME SqlTyped, NEW u \in SqlUsers
  PROVE  /\ BeginMigration(u) => \E t :
              /\ GoesTo(u, t) /\ tools[u].pc = "begin"
              /\ t = [tools[u] EXCEPT !.pc = "sql"] \/ t = AtEase
         /\ RunMigration(u) => \E t :
              /\ GoesTo(u, t) /\ tools[u].pc = "sql"
              /\ t = [tools[u] EXCEPT !.pc = "record"] \/ t = AtEase
         /\ RecordMigration(u) => \E t :
              /\ GoesTo(u, t) /\ tools[u].pc = "record"
              /\ \/ t = [tools[u] EXCEPT !.pc = "commit"] /\ ~Conflicts(u) /\ ~Awaited(u)
                 \/ t = AtEase
<1>0. tools[u] \in ToolRecs /\ AtEase \in ToolRecs
  BY SqlBounds DEF SqlTyped
<1>1. \A pc \in {"sql", "record", "commit"} :
        /\ [tools[u] EXCEPT !.pc = pc] \in ToolRecs
        /\ [tools EXCEPT ![u].pc = pc] = [tools EXCEPT ![u] = [tools[u] EXCEPT !.pc = pc]]
  BY <1>0 DEF ToolRecs, SqlTyped
<1>2. ASSUME BeginMigration(u)
      PROVE  \E t :
              /\ GoesTo(u, t) /\ tools[u].pc = "begin"
              /\ t = [tools[u] EXCEPT !.pc = "sql"] \/ t = AtEase
  BY <1>0, <1>1, <1>2 DEF BeginMigration, AtStep, Ends, GoesTo
<1>3. ASSUME RunMigration(u)
      PROVE  \E t :
              /\ GoesTo(u, t) /\ tools[u].pc = "sql"
              /\ t = [tools[u] EXCEPT !.pc = "record"] \/ t = AtEase
  BY <1>0, <1>1, <1>3 DEF RunMigration, AtStep, Ends, GoesTo
<1>4. ASSUME RecordMigration(u)
      PROVE  \E t :
              /\ GoesTo(u, t) /\ tools[u].pc = "record"
              /\ \/ t = [tools[u] EXCEPT !.pc = "commit"] /\ ~Conflicts(u) /\ ~Awaited(u)
                 \/ t = AtEase
  BY <1>0, <1>1, <1>4 DEF RecordMigration, AtStep, Ends, GoesTo
<1> QED
  BY <1>2, <1>3, <1>4

\* --- Migrations

MigrationsKept == SqlTyped /\ MigrationsOrdered /\ MigrationsRecorded

\* A request that gives its migration up, goes on with it or has none leaves
\* what is recorded in order.
LEMMA MigrationsGoOn ==
  ASSUME SqlTyped, MigrationsOrdered, migrations' = migrations, Migrated' \subseteq Migrated,
         \A v \in ToolsAt("commit")' : ~Conflicts(v)' /\ ~Awaited(v)'
  PROVE  MigrationsOrdered'
  BY DEF MigrationsOrdered

LEMMA CommitsKept ==
  ASSUME SqlTyped, MigrationsOrdered, migrations' = migrations,
         NEW u \in SqlUsers, NEW t, GoesTo(u, t),
         t.pc = "commit" => ~Conflicts(u) /\ ~Awaited(u) /\ t.version = tools[u].version
  PROVE  \A v \in ToolsAt("commit")' : ~Conflicts(v)' /\ ~Awaited(v)'
<1>1. \A v \in SqlUsers : v # u => tools'[v] = tools[v]
  BY DEF SqlTyped, GoesTo
<1>2. tools'[u] = t
  BY DEF SqlTyped, GoesTo
<1>3. ASSUME NEW v \in ToolsAt("commit")' PROVE ~Conflicts(v)' /\ ~Awaited(v)'
  <2>1. v \in SqlUsers /\ tools'[v].pc = "commit"
    BY <1>3 DEF ToolsAt, AtStep
  <2>2. CASE v = u
    BY <1>1, <1>2, <2>1, <2>2 DEF Conflicts, Awaited, AtStep
  <2>3. CASE v # u
    <3>1. v \in ToolsAt("commit") /\ tools'[v] = tools[v]
      BY <1>1, <2>1, <2>3 DEF ToolsAt, AtStep
    <3>2. ~Conflicts(v) /\ ~Awaited(v)
      BY <3>1 DEF MigrationsOrdered
    <3>3. t.pc = "commit" => t.version # tools[v].version
      BY <2>3, <3>1 DEF Awaited, ToolsAt
    <3> QED
      BY <1>1, <1>2, <2>1, <3>1, <3>2, <3>3 DEF Conflicts, Awaited, AtStep
  <2> QED
    BY <2>2, <2>3
<1> QED
  BY <1>3

LEMMA MigrationsStay ==
  ASSUME SqlTyped, MigrationsOrdered, migrations' = migrations,
         NEW u \in SqlUsers, NEW t, GoesTo(u, t),
         \/ t.pc \notin {"begin", "sql", "record", "commit"}
         \/ \E pc \in {"sql", "record"} : t = [tools[u] EXCEPT !.pc = pc] /\ u \in MigrationsUnderway
         \/ t = [tools[u] EXCEPT !.pc = "commit"] /\ u \in MigrationsUnderway /\ ~Conflicts(u) /\ ~Awaited(u)
  PROVE  Migrated' \subseteq Migrated /\ MigrationsOrdered'
<1>0. tools[u] \in ToolRecs
  BY DEF SqlTyped
<1>1. /\ t.pc \in {"begin", "sql", "record", "commit"} =>
           /\ t.id = tools[u].id /\ t.version = tools[u].version /\ t.after = tools[u].after
           /\ tools[u].pc \in {"begin", "sql", "record", "commit"}
      /\ t.pc = "commit" => ~Conflicts(u) /\ ~Awaited(u)
  BY <1>0 DEF ToolRecs, MigrationsUnderway
<1>2. Migrated' \subseteq Migrated
  BY <1>1, MigratedMoves
<1> QED
  BY <1>1, <1>2, CommitsKept, MigrationsGoOn

LEMMA MigrationStepKept ==
  ASSUME MigrationsKept, NEW u \in SqlUsers, MigrationStep(u)
  PROVE  MigrationsKept'
<1>0. /\ LastInstant \in Nat /\ MaxSql \in Nat /\ AtEase \in ToolRecs /\ tools[u] \in ToolRecs
      /\ AtEase.pc = "idle"
      /\ SqlTyped /\ MigrationsOrdered /\ MigrationsRecorded
  BY SqlBounds DEF MigrationsKept, SqlTyped, AtEase
<1>1. ASSUME TakeVersion(u) PROVE MigrationsKept'
  <2> DEFINE m == [id |-> ids + 1, version |-> instant, after |-> applied]
             t == [pc |-> "begin", id |-> ids + 1, version |-> instant, after |-> applied]
  <2>1. /\ ids' = ids + 1 /\ ids < MaxSql /\ tools' = [tools EXCEPT ![u] = t]
        /\ UNCHANGED <<instant, applied, migrations, jobs, ran, ownCommit, unread>>
    BY <1>1 DEF TakeVersion, Makes1
  <2>2. t \in ToolRecs /\ GoesTo(u, t)
    BY <1>0, <2>1 DEF SqlTyped, ToolRecs, GoesTo
  <2>3. Migrated' \subseteq Migrated \cup {m}
    BY <1>0, <2>1, <2>2, MigratedMoves
  <2>4. m \in [id : 1..ids', version : 0..instant, after : SUBSET (1..ids')]
    BY <1>0, <2>1 DEF SqlTyped
  <2>5. /\ Migrated \subseteq [id : 1..ids, version : 0..instant, after : SUBSET (1..ids)]
        /\ \A n \in Migrated : n \in [id : 1..ids', version : 0..instant, after : SUBSET (1..ids')]
    BY <1>0, <2>1 DEF SqlTyped
  <2>6. SqlTyped'
    <3>1. Migrated' \subseteq [id : 1..ids', version : 0..instant', after : SUBSET (1..ids')]
      BY <2>1, <2>3, <2>4, <2>5
    <3>2. jobs' \subseteq [id : 1..ids', name : JobNames, active : BOOLEAN]
      <4>1. jobs \subseteq [id : 1..ids, name : JobNames, active : BOOLEAN] /\ 1..ids \subseteq 1..ids'
        BY <1>0, <2>1 DEF SqlTyped
      <4> QED
        BY <2>1, <4>1
    <3>3. tools' \in [SqlUsers -> ToolRecs]
      BY <1>0, <2>1, <2>2 DEF SqlTyped
    <3> QED
      BY <1>0, <2>1, <3>1, <3>2, <3>3 DEF SqlTyped
  <2>7. \A a, b \in Migrated' : a.id \in b.after => a.version <= b.version
    <3>1. /\ \A a \in Migrated : a.version <= m.version /\ m.id \notin a.after
          /\ m.id \notin m.after
      BY <1>0, <2>5 DEF SqlTyped
    <3>2. \A a, b \in Migrated : a.id \in b.after => a.version <= b.version
      BY <1>0 DEF MigrationsOrdered
    <3> HIDE DEF m
    <3> QED
      BY <2>3, <3>1, <3>2
  <2>8. \A a \in Migrated' : a.id \notin a.after
    <3>1. m.id \notin m.after
      BY <1>0 DEF SqlTyped
    <3> HIDE DEF m
    <3> QED
      BY <1>0, <2>3, <3>1 DEF MigrationsOrdered
  <2>9. \A v \in ToolsAt("commit")' : ~Conflicts(v)' /\ ~Awaited(v)'
    <3>1. t.pc # "commit"
      OBVIOUS
    <3> HIDE DEF t
    <3> QED
      BY <1>0, <2>1, <2>2, <3>1, CommitsKept
  <2> QED
    BY <1>0, <2>1, <2>6, <2>7, <2>8, <2>9 DEF MigrationsKept, MigrationsOrdered, MigrationsRecorded
<1>2. ASSUME BeginMigration(u) PROVE MigrationsKept'
  <2>1. PICK t : /\ GoesTo(u, t) /\ tools[u].pc = "begin"
                 /\ t = [tools[u] EXCEPT !.pc = "sql"] \/ t = AtEase
    BY <1>0, <1>2, StepsOfOne
  <2>2. UNCHANGED <<instant, applied, migrations, jobs, ran, ids, ownCommit, unread>>
    BY <1>2 DEF BeginMigration
  <2>3. Migrated' \subseteq Migrated /\ MigrationsOrdered'
    <3>1. u \in MigrationsUnderway
      BY <2>1 DEF MigrationsUnderway
    <3> QED
      BY <1>0, <2>1, <2>2, <3>1, MigrationsStay
  <2> QED
    BY <1>0, <2>1, <2>2, <2>3 DEF MigrationsKept, SqlTyped, MigrationsRecorded, GoesTo
<1>3. ASSUME RunMigration(u) PROVE MigrationsKept'
  <2>1. PICK t : /\ GoesTo(u, t) /\ tools[u].pc = "sql"
                 /\ t = [tools[u] EXCEPT !.pc = "record"] \/ t = AtEase
    BY <1>0, <1>3, StepsOfOne
  <2>2. /\ UNCHANGED <<instant, migrations, jobs, ran, ids, unread>>
        /\ \/ UNCHANGED <<applied, ownCommit>>
           \/ tools[u].id \in 1..ids /\ applied' = applied \cup {tools[u].id}
              /\ ownCommit' = ownCommit \cup {tools[u].id}
    <3>1. tools[u].id \in 1..ids
      <4>1. [id |-> tools[u].id, version |-> tools[u].version, after |-> tools[u].after] \in Migrated
        BY <2>1 DEF Migrated, MigrationsUnderway
      <4> QED
        BY <1>0, <4>1 DEF SqlTyped
    <3> QED
      BY <1>3, <3>1 DEF RunMigration
  <2>3. Migrated' \subseteq Migrated /\ MigrationsOrdered'
    <3>1. u \in MigrationsUnderway
      BY <2>1 DEF MigrationsUnderway
    <3> QED
      BY <1>0, <2>1, <2>2, <3>1, MigrationsStay
  <2>4. applied' \subseteq 1..ids' /\ ownCommit' \subseteq 1..ids'
    BY <1>0, <2>2 DEF SqlTyped
  <2>5. MigrationsRecorded'
    BY <1>0, <2>2 DEF MigrationsRecorded
  <2> QED
    BY <1>0, <2>1, <2>2, <2>3, <2>4, <2>5 DEF MigrationsKept, SqlTyped, GoesTo
<1>4. ASSUME RecordMigration(u) PROVE MigrationsKept'
  <2>1. PICK t : /\ GoesTo(u, t) /\ tools[u].pc = "record"
                 /\ \/ t = [tools[u] EXCEPT !.pc = "commit"] /\ ~Conflicts(u) /\ ~Awaited(u)
                    \/ t = AtEase
    BY <1>0, <1>4, StepsOfOne
  <2>2. UNCHANGED <<instant, applied, migrations, jobs, ran, ids, ownCommit, unread>>
    BY <1>4 DEF RecordMigration
  <2>3. Migrated' \subseteq Migrated /\ MigrationsOrdered'
    <3>1. u \in MigrationsUnderway
      BY <2>1 DEF MigrationsUnderway
    <3> QED
      BY <1>0, <2>1, <2>2, <3>1, MigrationsStay
  <2> QED
    BY <1>0, <2>1, <2>2, <2>3 DEF MigrationsKept, SqlTyped, MigrationsRecorded, GoesTo
<1>5. ASSUME CommitMigration(u) PROVE MigrationsKept'
  <2> DEFINE m == [id |-> tools[u].id, version |-> tools[u].version, after |-> tools[u].after]
  <2>1. /\ tools[u].pc = "commit" /\ tools' = [tools EXCEPT ![u] = AtEase]
        /\ UNCHANGED <<instant, jobs, ran, ids, ownCommit, unread>>
    BY <1>5 DEF CommitMigration, AtStep, Ends
  <2>2. u \in ToolsAt("commit") /\ m \in Migrated /\ u \in MigrationsUnderway
    BY <2>1 DEF ToolsAt, AtStep, Migrated, MigrationsUnderway
  <2>3. ~Conflicts(u) /\ ~Awaited(u)
    BY <1>0, <2>2 DEF MigrationsOrdered
  <2>4. \/ applied' = applied \cup {m.id} /\ migrations' = migrations \cup {m}
        \/ UNCHANGED <<applied, migrations>>
    BY <1>5, <2>3 DEF CommitMigration
  <2>5. \A v \in SqlUsers : v # u => tools'[v] = tools[v]
    BY <1>0, <2>1 DEF SqlTyped
  <2>6. tools'[u] = AtEase /\ tools' \in [SqlUsers -> ToolRecs]
    BY <1>0, <2>1 DEF SqlTyped
  <2>7. Migrated' \subseteq Migrated
    <3>1. migrations' \subseteq Migrated
      BY <2>2, <2>4 DEF Migrated
    <3> QED
      BY <1>0, <2>5, <2>6, <3>1 DEF Migrated, MigrationsUnderway
  <2>8. m.id \in 1..ids
    BY <1>0, <2>2 DEF SqlTyped
  <2>9. SqlTyped'
    <3>1. applied' \subseteq 1..ids'
      BY <1>0, <2>1, <2>4, <2>8 DEF SqlTyped
    <3> QED
      BY <1>0, <2>1, <2>6, <2>7, <3>1 DEF SqlTyped
  <2>10. MigrationsRecorded'
    <3>1. MigrationsRecorded /\ ownCommit' = ownCommit
      BY <1>0, <2>1
    <3>2. CASE UNCHANGED <<applied, migrations>>
      BY <3>1, <3>2 DEF MigrationsRecorded
    <3>3. CASE applied' = applied \cup {m.id} /\ migrations' = migrations \cup {m}
      <4>1. PICK n : n = m
        OBVIOUS
      <4>2. {o.id : o \in migrations'} = {o.id : o \in migrations} \cup {n.id}
        BY <3>3, <4>1
      <4> QED
        BY <3>1, <3>3, <4>1, <4>2 DEF MigrationsRecorded
    <3> QED
      BY <2>4, <3>2, <3>3
  <2>11. \A a, b \in migrations' : a.version = b.version => a = b
    <3>1. \A a \in migrations : a.version # m.version
      BY <2>3 DEF Conflicts
    <3> HIDE DEF m
    <3> QED
      BY <1>0, <2>4, <3>1 DEF MigrationsOrdered
  <2>12. ASSUME NEW v \in ToolsAt("commit")' PROVE ~Conflicts(v)' /\ ~Awaited(v)'
    <3>1. v \in SqlUsers /\ v # u /\ v \in ToolsAt("commit") /\ tools'[v] = tools[v]
      BY <1>0, <2>5, <2>6, <2>12 DEF ToolsAt, AtStep
    <3>2. ~Conflicts(v) /\ ~Awaited(v)
      BY <1>0, <3>1 DEF MigrationsOrdered
    <3>3. tools[v].version # m.version
      BY <2>3, <3>1 DEF Awaited, ToolsAt
    <3>4. ~Conflicts(v)'
      BY <2>4, <3>1, <3>2, <3>3 DEF Conflicts
    <3>5. ~Awaited(v)'
      BY <1>0, <2>5, <2>6, <3>1, <3>2 DEF Awaited, AtStep
    <3> QED
      BY <3>4, <3>5
  <2> QED
    BY <1>0, <2>7, <2>9, <2>10, <2>11, <2>12 DEF MigrationsKept, MigrationsOrdered
<1> QED
  BY <1>1, <1>2, <1>3, <1>4, <1>5 DEF MigrationStep

\* --- Jobs and runs

\* The rest of the types, when no migration moves.
LEMMA SqlTypesStay ==
  ASSUME SqlTyped, NEW u \in SqlUsers, NEW t, GoesTo(u, t),
         t.pc \notin {"begin", "sql", "record", "commit"},
         instant' = instant, applied' = applied, migrations' = migrations, ownCommit' = ownCommit,
         ids' \in 0..MaxSql, ids <= ids', ran' \subseteq 1..ids', unread' \subseteq {"jobs", "trim"},
         jobs' \subseteq [id : 1..ids', name : JobNames, active : BOOLEAN]
  PROVE  SqlTyped' /\ Migrated' \subseteq Migrated
<1>1. Migrated' \subseteq Migrated
  BY MigratedMoves
<1>2. 1..ids \subseteq 1..ids'
  BY SqlBounds DEF SqlTyped
<1>3. Migrated' \subseteq [id : 1..ids', version : 0..instant', after : SUBSET (1..ids')]
  <2>1. \A m \in [id : 1..ids, version : 0..instant, after : SUBSET (1..ids)] :
          m \in [id : 1..ids', version : 0..instant, after : SUBSET (1..ids')]
    BY <1>2
  <2> QED
    BY <1>1, <2>1 DEF SqlTyped
<1>4. applied' \subseteq 1..ids' /\ ownCommit' \subseteq 1..ids'
  BY <1>2 DEF SqlTyped
<1>5. tools' \in [SqlUsers -> ToolRecs]
  BY DEF SqlTyped, GoesTo
<1> QED
  BY <1>1, <1>3, <1>4, <1>5 DEF SqlTyped

LEMMA JobStepKept ==
  ASSUME SqlInv, NEW u \in SqlUsers, JobStep(u)
  PROVE  SqlTyped' /\ Migrated' \subseteq Migrated /\ JobsCounted'
<1>0. /\ LastInstant \in Nat /\ MaxSql \in Nat /\ JobLimit \in Nat \ {0} /\ AtEase \in ToolRecs
      /\ AtEase.pc = "idle" /\ SqlTyped /\ JobsCounted
      /\ jobs \subseteq [id : 1..ids, name : JobNames, active : BOOLEAN]
      /\ ids \in 0..MaxSql /\ unread \subseteq {"jobs", "trim"} /\ ran \subseteq 1..ids
  BY SqlBounds DEF SqlInv, SqlTyped, AtEase
<1>c. /\ IsFiniteSet(jobs) /\ Cardinality(jobs) \in Nat /\ Cardinality(SqlUsers) \in Nat
      /\ Cardinality(ToolsAt("schedule")) \in Nat
      /\ \A i, j \in jobs : i.name = j.name => i = j
  BY <1>0, ToolsCounted, FS_CardinalityType DEF JobsCounted
<1>1. ASSUME cronCreate(u) PROVE SqlTyped' /\ Migrated' \subseteq Migrated /\ JobsCounted'
  <2>1. PICK t \in ToolRecs : t = Using("schedule", 0) /\ t.pc = "schedule"
    BY <1>0, SqlBounds
  <2>2. /\ GoesTo(u, t) /\ tools[u].pc = "idle"
        /\ UNCHANGED <<instant, applied, migrations, jobs, ran, ids, ownCommit>>
        /\ \/ Cardinality(jobs) < JobLimit /\ UNCHANGED unread
           \/ unread' = unread \cup {"jobs"}
    BY <1>1, <2>1 DEF cronCreate, AtStep, GoesTo
  <2>3. SqlTyped' /\ Migrated' \subseteq Migrated
    <3>1. /\ unread' \subseteq {"jobs", "trim"} /\ ids' = ids /\ ran' = ran /\ jobs' = jobs
          /\ instant' = instant /\ applied' = applied /\ migrations' = migrations
          /\ ownCommit' = ownCommit
      BY <1>0, <2>2
    <3> QED
      BY <1>0, <2>1, <2>2, <3>1, SqlTypesStay
  <2>4. Cardinality(ToolsAt("schedule")') = Cardinality(ToolsAt("schedule")) + 1
    BY <1>0, <2>1, <2>2, ToolMoves
  <2>5. Cardinality(ToolsAt("schedule")) < Cardinality(SqlUsers)
    BY <2>2, ToolsCounted DEF AtStep
  <2>6. "jobs" \notin unread' =>
          Cardinality(jobs') + Cardinality(ToolsAt("schedule")') <= JobLimit + Cardinality(SqlUsers) - 1
    BY <1>0, <1>c, <2>2, <2>4, <2>5
  <2> QED
    BY <1>c, <2>2, <2>3, <2>6 DEF JobsCounted
<1>2. ASSUME cronToggle(u) PROVE SqlTyped' /\ Migrated' \subseteq Migrated /\ JobsCounted'
  <2>1. PICK j \in jobs, next \in {"toggle", "unschedule"} :
          tools' = [tools EXCEPT ![u] = Using(next, j.id)]
    BY <1>2 DEF cronToggle
  <2>2. j.id \in 0..MaxSql
    BY <1>0, <2>1
  <2>3. PICK t \in ToolRecs : t = Using(next, j.id) /\ t.pc = next
    BY <2>2, SqlBounds
  <2>4. /\ UNCHANGED <<instant, applied, migrations, jobs, ran, ids, ownCommit, unread>>
        /\ tools[u].pc = "idle" /\ GoesTo(u, t)
    BY <1>2, <2>1, <2>3 DEF cronToggle, AtStep, GoesTo
  <2>5. SqlTyped' /\ Migrated' \subseteq Migrated
    BY <1>0, <2>1, <2>3, <2>4, SqlTypesStay
  <2>6. ToolsAt("schedule")' = ToolsAt("schedule")
    BY <1>0, <2>1, <2>3, <2>4, ToolMoves
  <2> QED
    BY <1>0, <2>4, <2>5, <2>6 DEF JobsCounted
<1>3. ASSUME Alter(u) PROVE SqlTyped' /\ Migrated' \subseteq Migrated /\ JobsCounted'
  <2>1. PICK active \in BOOLEAN :
          jobs' = {IF j.id = tools[u].id THEN [j EXCEPT !.active = active] ELSE j : j \in jobs}
    BY <1>3 DEF Alter
  <2>2. /\ GoesTo(u, AtEase) /\ tools[u].pc = "toggle"
        /\ UNCHANGED <<instant, applied, migrations, ran, ids, ownCommit, unread>>
    BY <1>0, <1>3 DEF Alter, AtStep, Ends, GoesTo
  <2> DEFINE f(j) == IF j.id = tools[u].id THEN [j EXCEPT !.active = active] ELSE j
  <2>3. \A j \in jobs : f(j) \in [id : 1..ids, name : JobNames, active : BOOLEAN] /\ f(j).name = j.name
    BY <1>0
  <2>4. jobs' = {f(j) : j \in jobs}
    BY <2>1
  <2> HIDE DEF f
  <2>5. /\ jobs' \subseteq [id : 1..ids, name : JobNames, active : BOOLEAN]
        /\ IsFiniteSet(jobs') /\ Cardinality(jobs') <= Cardinality(jobs) /\ Cardinality(jobs') \in Nat
        /\ \A i, j \in jobs' : i.name = j.name => i = j
    <3>1. IsFiniteSet(jobs') /\ Cardinality(jobs') <= Cardinality(jobs)
      <4> DEFINE g == [j \in jobs |-> f(j)]
      <4>1. g \in Surjection(jobs, jobs')
        BY <2>4 DEF Surjection
      <4> QED
        BY <1>c, <4>1, FS_Surjection
    <3> QED
      BY <1>c, <2>3, <2>4, <3>1, FS_CardinalityType
  <2>6. SqlTyped' /\ Migrated' \subseteq Migrated
    BY <1>0, <2>2, <2>5, SqlTypesStay
  <2>7. ToolsAt("schedule")' = ToolsAt("schedule")
    BY <1>0, <2>2, ToolMoves
  <2> QED
    BY <1>0, <1>c, <2>2, <2>5, <2>6, <2>7 DEF JobsCounted
<1>4. ASSUME cronDelete(u) PROVE SqlTyped' /\ Migrated' \subseteq Migrated /\ JobsCounted'
  <2>1. /\ GoesTo(u, AtEase) /\ tools[u].pc = "unschedule"
        /\ jobs' \subseteq jobs
        /\ UNCHANGED <<instant, applied, migrations, ran, ids, ownCommit, unread>>
    BY <1>0, <1>4 DEF cronDelete, AtStep, Ends, GoesTo
  <2>2. SqlTyped' /\ Migrated' \subseteq Migrated
    <3>1. jobs' \subseteq [id : 1..ids', name : JobNames, active : BOOLEAN]
      BY <1>0, <2>1
    <3> QED
      BY <1>0, <2>1, <3>1, SqlTypesStay
  <2>3. ToolsAt("schedule")' = ToolsAt("schedule")
    BY <1>0, <2>1, ToolMoves
  <2>4. IsFiniteSet(jobs') /\ Cardinality(jobs') <= Cardinality(jobs) /\ Cardinality(jobs') \in Nat
    BY <1>c, <2>1, FS_Subset, FS_CardinalityType
  <2> QED
    BY <1>0, <1>c, <2>1, <2>2, <2>3, <2>4 DEF JobsCounted
<1>5. ASSUME NEW name \in JobNames, Schedule(u, name)
      PROVE  SqlTyped' /\ Migrated' \subseteq Migrated /\ JobsCounted'
  <2> DEFINE same == {j \in jobs : j.name = name}
  <2>1. /\ GoesTo(u, AtEase) /\ tools[u].pc = "schedule"
        /\ UNCHANGED <<instant, applied, migrations, ran, ownCommit, unread>>
    BY <1>0, <1>5 DEF Schedule, AtStep, Ends, GoesTo
  <2>2. Cardinality(ToolsAt("schedule")') = Cardinality(ToolsAt("schedule")) - 1
    BY <1>0, <2>1, ToolMoves
  <2>3. CASE same # {}
    <3>1. PICK j \in jobs : j.name = name /\ same = {j}
      BY <1>c, <2>3
    <3> DEFINE on == [j EXCEPT !.active = TRUE]
    <3>2. /\ jobs' = (jobs \ {j}) \cup {on} /\ ids' = ids
      BY <1>5, <2>3, <3>1 DEF Schedule
    <3>3. on \in [id : 1..ids, name : JobNames, active : BOOLEAN] /\ on.name = name
      BY <1>0, <3>1
    <3> HIDE DEF on
    <3>4. /\ jobs' \subseteq [id : 1..ids', name : JobNames, active : BOOLEAN]
          /\ \A i, k \in jobs' : i.name = k.name => i = k
      BY <1>0, <1>c, <3>1, <3>2, <3>3
    <3>5. IsFiniteSet(jobs') /\ Cardinality(jobs') <= Cardinality(jobs) /\ Cardinality(jobs') \in Nat
      <4>1. IsFiniteSet(jobs \ {j}) /\ Cardinality(jobs \ {j}) = Cardinality(jobs) - 1
        BY <1>c, <3>1, FS_RemoveElement
      <4>2. IsFiniteSet((jobs \ {j}) \cup {on}) /\ Cardinality((jobs \ {j}) \cup {on}) <= Cardinality(jobs)
        <5> DEFINE rest == jobs \ {j}
        <5>1. IsFiniteSet(rest) /\ Cardinality(rest) = Cardinality(jobs) - 1
          BY <4>1
        <5> HIDE DEF rest
        <5>2. /\ IsFiniteSet(rest \cup {on})
              /\ Cardinality(rest \cup {on}) \in {Cardinality(rest), Cardinality(rest) + 1}
          BY <5>1, FS_AddElement
        <5>3. IsFiniteSet(rest \cup {on}) /\ Cardinality(rest \cup {on}) <= Cardinality(jobs)
          BY <1>c, <5>1, <5>2
        <5> QED
          BY <5>3 DEF rest
      <4> QED
        BY <3>2, <4>2, FS_CardinalityType
    <3>6. SqlTyped' /\ Migrated' \subseteq Migrated
      BY <1>0, <2>1, <3>2, <3>4, SqlTypesStay
    <3> QED
      BY <1>0, <1>c, <2>1, <2>2, <3>4, <3>5, <3>6 DEF JobsCounted
  <2>4. CASE same = {}
    <3> DEFINE job == [id |-> ids + 1, name |-> name, active |-> TRUE]
    <3>1. ids < MaxSql /\ ids' = ids + 1 /\ jobs' = jobs \cup {job}
      BY <1>5, <2>4 DEF Schedule, Makes1
    <3>2. ids' \in 0..MaxSql /\ ran' \subseteq 1..ids' /\ 1..ids \subseteq 1..ids'
      BY <1>0, <2>1, <3>1
    <3>3. job \in [id : 1..ids', name : JobNames, active : BOOLEAN] /\ job.name = name
      BY <1>0, <3>1
    <3> HIDE DEF job
    <3>4. jobs' \subseteq [id : 1..ids', name : JobNames, active : BOOLEAN]
      <4>1. \A j \in jobs : j \in [id : 1..ids', name : JobNames, active : BOOLEAN]
        BY <1>0, <3>2
      <4> QED
        BY <3>1, <3>3, <4>1
    <3>5. \A i, k \in jobs' : i.name = k.name => i = k
      BY <1>c, <2>4, <3>1, <3>3
    <3>6. IsFiniteSet(jobs') /\ Cardinality(jobs') <= Cardinality(jobs) + 1 /\ Cardinality(jobs') \in Nat
      <4>1. /\ IsFiniteSet(jobs \cup {job})
            /\ Cardinality(jobs \cup {job}) = Cardinality(jobs) \/ Cardinality(jobs \cup {job}) = Cardinality(jobs) + 1
        BY <1>c, FS_AddElement
      <4> QED
        BY <1>c, <3>1, <4>1
    <3>7. SqlTyped' /\ Migrated' \subseteq Migrated
      BY <1>0, <2>1, <3>1, <3>2, <3>4, SqlTypesStay
    <3> QED
      BY <1>0, <1>c, <2>1, <2>2, <3>5, <3>6, <3>7 DEF JobsCounted
  <2> QED
    BY <2>3, <2>4
<1> QED
  BY <1>1, <1>2, <1>3, <1>4, <1>5 DEF JobStep

\* Of naturals that have fewer than H above them in the set there are H at most.
LEMMA NewestAreFew ==
  ASSUME NEW T \in SUBSET Nat, IsFiniteSet(T), NEW H \in Nat
  PROVE  LET kept == {r \in T : Cardinality({q \in T : q > r}) < H}
         IN  IsFiniteSet(kept) /\ Cardinality(kept) <= H
<1> DEFINE above(r) == {q \in T : q > r}
           kept == {r \in T : Cardinality(above(r)) < H}
<1>1. IsFiniteSet(kept)
  BY FS_Subset
<1>2. CASE kept = {}
  <2>1. Cardinality(kept) = 0
    BY <1>2, FS_EmptySet
  <2> QED
    BY <1>1, <2>1
<1>3. CASE kept # {}
  <2>1. PICK r \in kept : \A q \in kept : r <= q
    BY <1>3, SomeLeast
  <2>2. IsFiniteSet(above(r)) /\ Cardinality(above(r)) \in Nat
    BY FS_Subset, FS_CardinalityType
  <2>3. Cardinality(above(r)) < H
    BY <2>1
  <2> DEFINE mine == above(r)
  <2>4. kept \subseteq mine \cup {r}
    <3>1. kept \subseteq T /\ r \in Nat
      BY <2>1
    <3>2. ASSUME NEW q \in kept, q # r PROVE q \in T /\ q > r
      <4>1. q \in Nat /\ q \in T /\ r <= q
        BY <2>1, <3>1, <3>2
      <4> QED
        BY <3>1, <3>2, <4>1
    <3> HIDE DEF kept
    <3> QED
      BY <3>2
  <2> HIDE DEF mine, kept
  <2>5. IsFiniteSet(mine \cup {r}) /\ Cardinality(mine \cup {r}) \in {Cardinality(mine), Cardinality(mine) + 1}
    BY <2>2, FS_AddElement DEF mine
  <2>6. Cardinality(kept) <= Cardinality(mine \cup {r})
    BY <2>4, <2>5, FS_Subset
  <2>7. Cardinality(mine) \in Nat /\ Cardinality(mine) < H
    BY <2>2, <2>3 DEF mine
  <2>8. Cardinality(kept) \in Nat
    BY <1>1, FS_CardinalityType
  <2>9. Cardinality(kept) <= H
    BY <2>5, <2>6, <2>7, <2>8
  <2> QED
    BY <1>1, <2>9 DEF kept
<1> QED
  BY <1>2, <1>3

LEMMA RunStepKept ==
  ASSUME SqlInv, NEW u \in SqlUsers, RunStep(u)
  PROVE  SqlTyped' /\ Migrated' \subseteq Migrated /\ RunsCounted'
<1>0. /\ LastInstant \in Nat /\ MaxSql \in Nat /\ HistoryLimit \in Nat /\ AtEase \in ToolRecs
      /\ AtEase.pc = "idle" /\ SqlTyped /\ RunsCounted
      /\ jobs \subseteq [id : 1..ids, name : JobNames, active : BOOLEAN]
      /\ ids \in 0..MaxSql /\ unread \subseteq {"jobs", "trim"} /\ ran \subseteq 1..ids
  BY SqlBounds DEF SqlInv, SqlTyped, AtEase
<1>c. /\ IsFiniteSet(ran) /\ Cardinality(ran) \in Nat /\ ran \in SUBSET Nat
      /\ Cardinality(ToolsAt("trim")) \in Nat
  <2>1. IsFiniteSet(1..ids)
    BY <1>0, FS_Interval
  <2>2. IsFiniteSet(ran)
    BY <1>0, <2>1, FS_Subset
  <2>3. ids \in Nat /\ \A r \in 1..ids : r \in Nat
    BY <1>0
  <2>4. ran \in SUBSET Nat
    BY <1>0, <2>3
  <2> QED
    BY <2>2, <2>4, ToolsCounted, FS_CardinalityType
<1>1. ASSUME InsertRun(u) PROVE SqlTyped' /\ Migrated' \subseteq Migrated /\ RunsCounted'
  <2>1. /\ ids < MaxSql /\ ids' = ids + 1 /\ ran' = ran \cup {ids'} /\ tools[u].pc = "idle"
        /\ tools' = [tools EXCEPT ![u] = Using("trim", ids')]
        /\ instant' = instant /\ applied' = applied /\ migrations' = migrations /\ jobs' = jobs
        /\ ownCommit' = ownCommit /\ unread' = unread
    BY <1>1 DEF InsertRun, Makes1, AtStep
  <2>2. ids' \in 0..MaxSql
    BY <1>0, <2>1
  <2>3. PICK t : t = Using("trim", ids') /\ t \in ToolRecs /\ t.pc = "trim"
    BY <2>2, SqlBounds
  <2>4. GoesTo(u, t)
    BY <2>1, <2>3 DEF GoesTo
  <2>5. ran' \subseteq 1..ids' /\ jobs' \subseteq [id : 1..ids', name : JobNames, active : BOOLEAN]
    <3>1. 1..ids \subseteq 1..ids' /\ ids' \in 1..ids'
      BY <1>0, <2>1
    <3>2. \A j \in jobs : j \in [id : 1..ids', name : JobNames, active : BOOLEAN]
      BY <1>0, <3>1
    <3> QED
      BY <1>0, <2>1, <3>1, <3>2
  <2>6. SqlTyped' /\ Migrated' \subseteq Migrated
    <3>1. ids <= ids' /\ unread' \subseteq {"jobs", "trim"}
      BY <1>0, <2>1
    <3> QED
      BY <1>0, <2>1, <2>2, <2>3, <2>4, <2>5, <3>1, SqlTypesStay
  <2>7. Cardinality(ToolsAt("trim")') = Cardinality(ToolsAt("trim")) + 1
    BY <1>0, <2>1, <2>3, <2>4, ToolMoves
  <2>8. Cardinality(ran') \in {Cardinality(ran), Cardinality(ran) + 1}
    BY <1>c, <2>1, FS_AddElement
  <2> QED
    BY <1>0, <1>c, <2>1, <2>6, <2>7, <2>8 DEF RunsCounted
<1>2. ASSUME TrimRuns(u) PROVE SqlTyped' /\ Migrated' \subseteq Migrated /\ RunsCounted'
  <2>1. /\ GoesTo(u, AtEase) /\ tools[u].pc = "trim"
        /\ instant' = instant /\ applied' = applied /\ migrations' = migrations /\ jobs' = jobs
        /\ ownCommit' = ownCommit /\ ids' = ids
        /\ \/ ran' = {r \in ran : Cardinality(Newer(r)) < HistoryLimit} /\ unread' = unread
           \/ unread' = unread \cup {"trim"} /\ ran' = ran
    BY <1>0, <1>2 DEF TrimRuns, AtStep, Ends, GoesTo
  <2>2. SqlTyped' /\ Migrated' \subseteq Migrated
    <3>0. ran' \subseteq ran
      BY <2>1
    <3>1. ids \in Nat /\ ids <= ids'
      BY <1>0, <2>1
    <3>2. unread' \subseteq {"jobs", "trim"}
      BY <1>0, <2>1
    <3>3. ran' \subseteq 1..ids'
      BY <1>0, <2>1, <3>0
    <3> QED
      BY <1>0, <2>1, <3>1, <3>2, <3>3, SqlTypesStay
  <2>3. Cardinality(ToolsAt("trim")') \in Nat
    BY <1>0, <2>1, ToolMoves
  <2>4. ASSUME ran' = {r \in ran : Cardinality(Newer(r)) < HistoryLimit}
        PROVE  Cardinality(ran') <= HistoryLimit /\ Cardinality(ran') \in Nat
    <3>1. ran' = {r \in ran : Cardinality({q \in ran : q > r}) < HistoryLimit}
      BY <2>4 DEF Newer
    <3>2. IsFiniteSet(ran') /\ Cardinality(ran') <= HistoryLimit
      BY <1>0, <1>c, <3>1, NewestAreFew
    <3> QED
      BY <3>2, FS_CardinalityType
  <2> QED
    BY <1>0, <2>1, <2>2, <2>3, <2>4 DEF RunsCounted
<1> QED
  BY <1>1, <1>2 DEF RunStep

\* Steps of the one leave what is kept of the others as it is.
LEMMA SqlInvKept ==
  ASSUME SqlInv, [SqlNext]_sqlVars
  PROVE  SqlInv'
<1>0. /\ SqlTyped /\ MigrationsOrdered /\ MigrationsRecorded /\ JobsCounted /\ RunsCounted
      /\ AtEase \in ToolRecs /\ AtEase.pc = "idle" /\ LastInstant \in Nat
      /\ JobLimit \in Nat \ {0} /\ HistoryLimit \in Nat
  BY SqlBounds DEF SqlInv, AtEase
<1>1. ASSUME NEW u \in SqlUsers, NEW t, GoesTo(u, t), NEW pc,
             (tools[u].pc = pc) <=> (t.pc = pc)
      PROVE  Cardinality(ToolsAt(pc)') = Cardinality(ToolsAt(pc))
  <2>1. CASE tools[u].pc # pc
    BY <1>0, <1>1, <2>1, ToolMoves
  <2>2. CASE tools[u].pc = pc
    BY <1>0, <1>1, <2>2 DEF SqlTyped, GoesTo, ToolsAt, AtStep
  <2> QED
    BY <2>1, <2>2
<1>2. ASSUME NEW u \in SqlUsers, MigrationStep(u) PROVE SqlInv'
  <2>1. SqlTyped' /\ MigrationsOrdered' /\ MigrationsRecorded'
    BY <1>0, <1>2, MigrationStepKept DEF MigrationsKept
  <2>2. UNCHANGED <<jobs, ran, unread>>
    BY <1>2 DEF MigrationStep, TakeVersion, BeginMigration, RunMigration, RecordMigration, CommitMigration
  <2>3. PICK t : /\ GoesTo(u, t) /\ tools[u].pc \notin {"schedule", "trim"}
                 /\ t.pc \notin {"schedule", "trim"}
    <3>1. CASE TakeVersion(u)
      <4>1. tools[u].pc = "idle" /\ tools'[u].pc = "begin" /\ tools' = [tools EXCEPT ![u] = tools'[u]]
        BY <1>0, <3>1 DEF TakeVersion, AtStep, SqlTyped
      <4>2. GoesTo(u, tools'[u])
        BY <2>1, <4>1 DEF GoesTo, SqlTyped
      <4> QED
        BY <4>1, <4>2
    <3>2. CASE CommitMigration(u)
      <4>1. tools[u].pc = "commit" /\ GoesTo(u, AtEase)
        BY <1>0, <3>2 DEF CommitMigration, AtStep, Ends, GoesTo
      <4> QED
        BY <1>0, <4>1
    <3>3. CASE BeginMigration(u) \/ RunMigration(u) \/ RecordMigration(u)
      <4>1. \E t : /\ GoesTo(u, t) /\ tools[u].pc \in {"begin", "sql", "record"}
                   /\ t = AtEase \/ \E pc \in {"sql", "record", "commit"} : t = [tools[u] EXCEPT !.pc = pc]
        BY <1>0, <3>3, StepsOfOne
      <4>2. tools[u] \in ToolRecs
        BY <1>0 DEF SqlTyped
      <4> QED
        BY <1>0, <4>1, <4>2 DEF ToolRecs
    <3> QED
      BY <1>2, <3>1, <3>2, <3>3 DEF MigrationStep
  <2>4. /\ Cardinality(ToolsAt("schedule")') = Cardinality(ToolsAt("schedule"))
        /\ Cardinality(ToolsAt("trim")') = Cardinality(ToolsAt("trim"))
    BY <1>1, <2>3
  <2>5. JobsCounted' /\ RunsCounted'
    BY <1>0, <2>2, <2>4 DEF JobsCounted, RunsCounted
  <2> QED
    BY <2>1, <2>5 DEF SqlInv
<1>3. ASSUME NEW u \in SqlUsers, JobStep(u) \/ RunStep(u), SqlTyped', Migrated' \subseteq Migrated
      PROVE  /\ MigrationsOrdered' /\ MigrationsRecorded'
             /\ JobStep(u) => RunsCounted'
             /\ RunStep(u) => JobsCounted'
  <2>1. /\ applied' = applied /\ migrations' = migrations /\ ownCommit' = ownCommit
        /\ JobStep(u) => ran' = ran /\ ("trim" \in unread => "trim" \in unread')
        /\ RunStep(u) => jobs' = jobs /\ ("jobs" \in unread => "jobs" \in unread')
    <3>1. ASSUME JobStep(u)
          PROVE  /\ applied' = applied /\ migrations' = migrations /\ ownCommit' = ownCommit
                 /\ ran' = ran /\ ("trim" \in unread => "trim" \in unread')
      BY <3>1 DEF JobStep, cronCreate, cronToggle, Alter, cronDelete, Schedule
    <3>2. ASSUME RunStep(u)
          PROVE  /\ applied' = applied /\ migrations' = migrations /\ ownCommit' = ownCommit
                 /\ jobs' = jobs /\ ("jobs" \in unread => "jobs" \in unread')
      BY <3>2 DEF RunStep, InsertRun, TrimRuns
    <3> QED
      BY <1>3, <3>1, <3>2
  <2>2. PICK t : /\ GoesTo(u, t) /\ t.pc \notin {"commit"}
                 /\ JobStep(u) => tools[u].pc # "trim" /\ t.pc # "trim"
                 /\ RunStep(u) => tools[u].pc # "schedule" /\ t.pc # "schedule"
    <3>1. /\ tools' = [tools EXCEPT ![u] = tools'[u]] /\ tools'[u].pc # "commit"
          /\ JobStep(u) => tools[u].pc # "trim" /\ tools'[u].pc # "trim"
          /\ RunStep(u) => tools[u].pc # "schedule" /\ tools'[u].pc # "schedule"
      <4>0. /\ DOMAIN tools = SqlUsers
            /\ tools[u].pc = "idle" => ~Alter(u) /\ ~cronDelete(u) /\ ~TrimRuns(u)
                                       /\ (\A name \in JobNames : ~Schedule(u, name))
        BY <1>0 DEF SqlTyped, Alter, cronDelete, TrimRuns, Schedule, AtStep
      <4>1. CASE cronCreate(u)
        <5>1. tools[u].pc = "idle" /\ tools' = [tools EXCEPT ![u] = Using("schedule", 0)]
          BY <4>1 DEF cronCreate, AtStep
        <5>2. tools'[u].pc = "schedule" /\ tools' = [tools EXCEPT ![u] = tools'[u]]
          BY <4>0, <5>1 DEF Using, AtEase
        <5>3. ~RunStep(u)
          <6>1. ~InsertRun(u)
            <7>1. SUFFICES ASSUME InsertRun(u) PROVE FALSE
              OBVIOUS
            <7>2. tools'[u].pc = "trim"
              BY <4>0, <7>1 DEF InsertRun, Using, AtEase
            <7> QED
              BY <5>2, <7>2
          <6> QED
            BY <4>0, <5>1, <6>1 DEF RunStep
        <5> QED
          BY <5>1, <5>2, <5>3
      <4>2. CASE cronToggle(u)
        <5>1. /\ tools[u].pc = "idle"
              /\ \E j \in jobs, next \in {"toggle", "unschedule"} :
                   tools' = [tools EXCEPT ![u] = Using(next, j.id)]
          BY <4>2 DEF cronToggle, AtStep
        <5>2. tools'[u].pc \in {"toggle", "unschedule"} /\ tools' = [tools EXCEPT ![u] = tools'[u]]
          BY <4>0, <5>1 DEF Using, AtEase
        <5> QED
          BY <5>1, <5>2
      <4>3. CASE InsertRun(u)
        <5>1. tools[u].pc = "idle" /\ tools' = [tools EXCEPT ![u] = Using("trim", ids')]
          BY <4>3 DEF InsertRun, AtStep
        <5>2. tools'[u].pc = "trim" /\ tools' = [tools EXCEPT ![u] = tools'[u]]
          BY <4>0, <5>1 DEF Using, AtEase
        <5>3. ~JobStep(u)
          <6>1. ~cronCreate(u) /\ ~cronToggle(u)
            <7>1. ASSUME cronCreate(u) PROVE FALSE
              <8>1. tools'[u].pc = "schedule"
                BY <4>0, <7>1 DEF cronCreate, Using, AtEase
              <8> QED
                BY <5>2, <8>1
            <7>2. ASSUME cronToggle(u) PROVE FALSE
              <8>1. \E j \in jobs, next \in {"toggle", "unschedule"} :
                      tools' = [tools EXCEPT ![u] = Using(next, j.id)]
                BY <7>2 DEF cronToggle
              <8>2. tools'[u].pc \in {"toggle", "unschedule"}
                BY <4>0, <8>1 DEF Using, AtEase
              <8> QED
                BY <5>2, <8>2
            <7> QED
              BY <7>1, <7>2
          <6> QED
            BY <4>0, <5>1, <6>1 DEF JobStep
        <5> QED
          BY <5>1, <5>2, <5>3
      <4>4. CASE Alter(u) \/ cronDelete(u) \/ TrimRuns(u) \/ \E name \in JobNames : Schedule(u, name)
        BY <1>0, <4>4 DEF Alter, cronDelete, TrimRuns, Schedule, Ends, AtStep, SqlTyped, AtEase,
          JobStep, RunStep, cronCreate, cronToggle, InsertRun
      <4> QED
        BY <1>3, <4>1, <4>2, <4>3, <4>4 DEF JobStep, RunStep
    <3>2. GoesTo(u, tools'[u])
      BY <1>3, <3>1 DEF GoesTo, SqlTyped
    <3> QED
      BY <3>1, <3>2
  <2>3. MigrationsOrdered' /\ MigrationsRecorded'
    <3>1. \A v \in ToolsAt("commit")' : ~Conflicts(v)' /\ ~Awaited(v)'
      BY <1>0, <2>1, <2>2, CommitsKept
    <3> QED
      BY <1>0, <1>3, <2>1, <3>1, MigrationsGoOn DEF MigrationsRecorded
  <2>4. ASSUME JobStep(u) PROVE RunsCounted'
    <3>1. Cardinality(ToolsAt("trim")') = Cardinality(ToolsAt("trim"))
      BY <1>1, <2>2, <2>4
    <3> QED
      BY <1>0, <2>1, <2>4, <3>1 DEF RunsCounted
  <2>5. ASSUME RunStep(u) PROVE JobsCounted'
    <3>1. Cardinality(ToolsAt("schedule")') = Cardinality(ToolsAt("schedule"))
      BY <1>1, <2>2, <2>5
    <3> QED
      BY <1>0, <2>1, <2>5, <3>1 DEF JobsCounted
  <2> QED
    BY <2>3, <2>4, <2>5
<1>4. ASSUME NEW u \in SqlUsers, JobStep(u) \/ RunStep(u) PROVE SqlInv'
  BY <1>3, <1>4, JobStepKept, RunStepKept DEF SqlInv
<1>5. CASE InstantPasses
  <2>1. /\ instant' = instant + 1 /\ instant < LastInstant
        /\ UNCHANGED <<tools, applied, migrations, jobs, ran, ids, ownCommit, unread>>
    BY <1>5 DEF InstantPasses
  <2>2. Migrated' = Migrated /\ \A pc : ToolsAt(pc)' = ToolsAt(pc)
    BY <2>1 DEF Migrated, MigrationsUnderway, ToolsAt, AtStep
  <2>3. SqlTyped'
    <3>1. \A m \in [id : 1..ids, version : 0..instant, after : SUBSET (1..ids)] :
            m \in [id : 1..ids, version : 0..instant', after : SUBSET (1..ids)]
      BY <1>0, <2>1 DEF SqlTyped
    <3> QED
      BY <1>0, <2>1, <2>2, <3>1 DEF SqlTyped
  <2>4. MigrationsOrdered' /\ MigrationsRecorded'
    BY <1>0, <2>1, <2>2 DEF MigrationsOrdered, MigrationsRecorded, Conflicts, Awaited, AtStep
  <2>5. JobsCounted' /\ RunsCounted'
    BY <1>0, <2>1, <2>2 DEF JobsCounted, RunsCounted
  <2> QED
    BY <2>3, <2>4, <2>5 DEF SqlInv
<1>6. CASE ToolsStop
  <2>1. /\ tools' = [u \in SqlUsers |-> AtEase]
        /\ unread' = unread \cup (IF \E u \in SqlUsers : AtStep(u, "trim") THEN {"trim"} ELSE {})
        /\ UNCHANGED <<instant, applied, migrations, jobs, ran, ids, ownCommit>>
    BY <1>6 DEF ToolsStop
  <2>2. Migrated' \subseteq Migrated
    BY <1>0, <2>1 DEF Migrated, MigrationsUnderway
  <2>3. ASSUME NEW pc, pc # "idle" PROVE ToolsAt(pc)' = {}
    BY <1>0, <2>1, <2>3 DEF ToolsAt, AtStep
  <2>4. SqlTyped'
    <3>1. tools' \in [SqlUsers -> ToolRecs] /\ unread' \subseteq {"jobs", "trim"}
      BY <1>0, <2>1 DEF SqlTyped
    <3> QED
      BY <1>0, <2>1, <2>2, <3>1 DEF SqlTyped
  <2>5. MigrationsOrdered' /\ MigrationsRecorded'
    BY <1>0, <2>1, <2>2, <2>3 DEF MigrationsOrdered, MigrationsRecorded
  <2>6. JobsCounted'
    <3>1. /\ Cardinality(ToolsAt("schedule")') = 0 /\ Cardinality(ToolsAt("schedule")) \in Nat
          /\ Cardinality(jobs) \in Nat /\ Cardinality(SqlUsers) \in Nat
      BY <1>0, <2>3, FS_EmptySet, ToolsCounted, FS_CardinalityType DEF JobsCounted
    <3>2. "jobs" \in unread => "jobs" \in unread'
      BY <2>1
    <3> QED
      BY <1>0, <2>1, <3>1, <3>2 DEF JobsCounted
  <2>7. RunsCounted'
    <3>1. "trim" \notin unread' => "trim" \notin unread /\ ToolsAt("trim") = {}
      BY <2>1 DEF ToolsAt
    <3>2. Cardinality(ToolsAt("trim")') = 0 /\ (ToolsAt("trim") = {} => Cardinality(ToolsAt("trim")) = 0)
      BY <2>3, FS_EmptySet
    <3> QED
      BY <1>0, <2>1, <3>1, <3>2 DEF RunsCounted
  <2> QED
    BY <2>4, <2>5, <2>6, <2>7 DEF SqlInv
<1>7. CASE UNCHANGED sqlVars
  BY <1>0, <1>7 DEF sqlVars, SqlInv, SqlTyped, Migrated, MigrationsUnderway, MigrationsOrdered, MigrationsRecorded,
     JobsCounted, RunsCounted, ToolsAt, AtStep, Conflicts, Awaited
<1> QED
  BY <1>2, <1>4, <1>5, <1>6, <1>7 DEF SqlNext, MigrationStep, JobStep, RunStep

\* Every state keeps the invariant.
LEMMA SqlAlways == SqlSpec => []SqlInv
<1>1. ASSUME SqlInit PROVE SqlInv
  <2>1. ToolsAt("schedule") = {} /\ ToolsAt("trim") = {} /\ ToolsAt("commit") = {} /\ MigrationsUnderway = {}
    BY <1>1 DEF SqlInit, ToolsAt, AtStep, AtEase, MigrationsUnderway
  <2>2. Migrated = {}
    BY <1>1, <2>1 DEF SqlInit, Migrated
  <2>3. SqlTyped
    BY <1>1, <2>2, SqlBounds DEF SqlInit, SqlTyped
  <2>4. MigrationsOrdered /\ MigrationsRecorded
    BY <1>1, <2>1, <2>2 DEF SqlInit, MigrationsOrdered, MigrationsRecorded
  <2>5. IsFiniteSet({}) /\ Cardinality({}) = 0 /\ Cardinality(SqlUsers) \in Nat
    BY FS_EmptySet, SqlBounds, FS_CardinalityType
  <2>6. JobLimit \in Nat /\ JobLimit > 0 /\ HistoryLimit \in Nat /\ jobs = {} /\ ran = {}
    BY <1>1, SqlBounds, SqlAssumption DEF SqlInit
  <2>7. JobsCounted
    <3>1. \A c \in Nat : 0 + 0 <= JobLimit + c - 1
      BY <2>6
    <3>2. Cardinality(jobs) + Cardinality(ToolsAt("schedule")) <= JobLimit + Cardinality(SqlUsers) - 1
      BY <2>1, <2>5, <2>6, <3>1
    <3> QED
      BY <2>5, <2>6, <3>2 DEF JobsCounted
  <2>8. RunsCounted
    BY <2>1, <2>5, <2>6 DEF RunsCounted
  <2> QED
    BY <2>3, <2>4, <2>7, <2>8 DEF SqlInv
<1> QED
  BY <1>1, SqlInvKept, PTL DEF SqlSpec

\* The history of migrations, the jobs and the runs are kept in whatever order
\* any number of requests come, fail and are cut off (migrations.go, cron.go,
\* editor.go).
THEOREM SqlStaysKept == SqlSpec => []SqlKept
<1>2. ASSUME SqlInv PROVE SqlKept
  <2>1. \A m, n \in migrations : m.id \in n.after => m.version < n.version
    <3>1. migrations \subseteq Migrated
      BY DEF Migrated
    <3>2. SUFFICES ASSUME NEW m \in migrations, NEW n \in migrations, m.id \in n.after
                   PROVE  m.version < n.version
      OBVIOUS
    <3>3. m.version <= n.version /\ m # n /\ (m.version = n.version => m = n)
      BY <1>2, <3>1, <3>2 DEF SqlInv, MigrationsOrdered
    <3>4. m.version \in Nat /\ n.version \in Nat
      BY <1>2, <3>1, SqlBounds DEF SqlInv, SqlTyped
    <3> QED
      BY <3>3, <3>4
  <2>2. "jobs" \notin unread => Cardinality(jobs) <= JobLimit + Cardinality(SqlUsers) - 1
    <3>1. /\ Cardinality(ToolsAt("schedule")) \in Nat /\ Cardinality(SqlUsers) \in Nat
          /\ Cardinality(jobs) \in Nat
      BY <1>2, ToolsCounted, FS_CardinalityType DEF SqlInv, JobsCounted
    <3> QED
      BY <1>2, <3>1, SqlBounds DEF SqlInv, JobsCounted
  <2>3. "trim" \notin unread /\ (\A u \in SqlUsers : ~AtStep(u, "trim")) => Cardinality(ran) <= HistoryLimit
    <3>1. (\A u \in SqlUsers : ~AtStep(u, "trim")) => Cardinality(ToolsAt("trim")) = 0
      BY FS_EmptySet DEF ToolsAt
    <3> QED
      BY <1>2, <3>1, SqlBounds DEF SqlInv, RunsCounted
  <2> QED
    BY <1>2, <2>1, <2>2, <2>3 DEF SqlInv, SqlKept, MigrationsRecorded, JobsCounted
<1> QED
  BY <1>2, SqlAlways, PTL

-----------------------------------------------------------------------------
(* A foreign server.                                                       *)

\* Nothing is left of a server that is gone, and of one that is there whatever
\* is missing is what the request that made it, or one that undoes it, is about
\* to do.
FdwAt(pcs) == \E c \in FdwClients : fdw[c].pc \in pcs /\ fdw[c].n = server
FdwUndone == \E c \in FdwClients : fdw[c].pc = "undo"
FdwWhole ==
    /\ server = 0 => mapping = 0 /\ ~usable /\ foreign = "none"
    /\ server # 0 /\ mapping # server => FdwAt({"mapping"}) \/ FdwUndone
    /\ server # 0 /\ ~usable => FdwAt({"mapping", "grant"}) \/ FdwUndone
    /\ foreign = "there" => \E c \in FdwClients : fdw[c].pc = "select"

FdwInv == FdwTypeOK /\ (~killed => FdwWhole)

LEMMA FdwTypesKept ==
  ASSUME FdwTypeOK, [FdwNext]_fdwVars
  PROVE  FdwTypeOK'
<1>0. MaxServers \in Nat
  BY FdwAssumption
<1>1. NoFdw \in [pc : {"idle", "server", "mapping", "grant", "undo", "select"}, n : 0..MaxServers]
  BY <1>0 DEF NoFdw
<1>2. ASSUME NEW c \in FdwClients, FdwCreate(c) PROVE FdwTypeOK'
  BY <1>0, <1>2 DEF FdwCreate, FdwTypeOK
<1>3. ASSUME NEW c \in FdwClients, CreateServer(c) PROVE FdwTypeOK'
  BY <1>0, <1>3 DEF CreateServer, FdwGoes, FdwTypeOK
<1>4. ASSUME NEW c \in FdwClients, CreateMapping(c) PROVE FdwTypeOK'
  BY <1>0, <1>4 DEF CreateMapping, FdwGoes, FdwTypeOK
<1>5. ASSUME NEW c \in FdwClients, GrantUsage(c) PROVE FdwTypeOK'
  <2>1. usable' \in BOOLEAN
    BY <1>5 DEF GrantUsage, FdwTypeOK
  <2>2. fdw' \in [FdwClients -> [pc : {"idle", "server", "mapping", "grant", "undo", "select"},
                               n : 0..MaxServers]]
    BY <1>1, <1>5 DEF GrantUsage, FdwGoes, FdwRests, FdwTypeOK
  <2> QED
    BY <1>5, <2>1, <2>2 DEF GrantUsage, FdwTypeOK
<1>6. ASSUME NEW c \in FdwClients, UndoServer(c) PROVE FdwTypeOK'
  <2>1. usable' \in BOOLEAN /\ foreign' \in {"none", "there", "granted"}
    BY <1>6 DEF UndoServer, ServerGone
  <2>2. fdw' \in [FdwClients -> [pc : {"idle", "server", "mapping", "grant", "undo", "select"},
                               n : 0..MaxServers]]
    BY <1>1, <1>6 DEF UndoServer, FdwRests, FdwTypeOK
  <2>3. server' \in 0..MaxServers /\ mapping' \in 0..MaxServers
    BY <1>0, <1>6 DEF UndoServer, ServerGone
  <2> QED
    BY <1>6, <2>1, <2>2, <2>3 DEF UndoServer, FdwTypeOK
<1>7. ASSUME NEW c \in FdwClients, FdwImport(c) PROVE FdwTypeOK'
  BY <1>0, <1>7 DEF FdwImport, FdwGoes, FdwTypeOK
<1>8. ASSUME NEW c \in FdwClients, GrantSelect(c) PROVE FdwTypeOK'
  BY <1>0, <1>1, <1>8 DEF GrantSelect, FdwRests, FdwTypeOK
<1>9. ASSUME NEW c \in FdwClients, FdwDrop(c) PROVE FdwTypeOK'
  <2>1. usable' \in BOOLEAN /\ foreign' \in {"none", "there", "granted"}
    BY <1>9 DEF FdwDrop, ServerGone
  <2>2. server' \in 0..MaxServers /\ mapping' \in 0..MaxServers
    BY <1>0, <1>9 DEF FdwDrop, ServerGone
  <2> QED
    BY <1>9, <2>1, <2>2 DEF FdwDrop, FdwTypeOK
<1>10. CASE FdwKilled
  BY <1>0, <1>1, <1>10 DEF FdwKilled, FdwTypeOK
<1>11. CASE UNCHANGED fdwVars
  BY <1>11 DEF fdwVars, FdwTypeOK
<1> QED
  BY <1>2, <1>3, <1>4, <1>5, <1>6, <1>7, <1>8, <1>9, <1>10, <1>11 DEF FdwNext

LEMMA FdwInvKept ==
  ASSUME FdwInv, [FdwNext]_fdwVars
  PROVE  FdwInv'
<1>0. FdwTypeOK /\ FdwTypeOK'
  BY FdwTypesKept DEF FdwInv
<1> SUFFICES ASSUME ~killed' PROVE FdwWhole'
  BY <1>0 DEF FdwInv
<1>1. ASSUME ~killed PROVE FdwWhole
  BY <1>1 DEF FdwInv
<1>2. ASSUME NEW c \in FdwClients, FdwCreate(c) PROVE FdwWhole'
  BY <1>0, <1>1, <1>2 DEF FdwCreate, FdwTypeOK, FdwWhole, FdwAt, FdwUndone, NoFdw
<1>3. ASSUME NEW c \in FdwClients, CreateServer(c) PROVE FdwWhole'
  <2>1. FdwWhole
    BY <1>1, <1>3 DEF CreateServer
  <2>2. CASE FdwGoes(c, "undo") /\ UNCHANGED server
    <3>1. FdwUndone'
      BY <1>0, <2>2 DEF FdwGoes, FdwUndone, FdwTypeOK
    <3> QED
      BY <1>0, <1>3, <2>1, <2>2, <3>1 DEF CreateServer, FdwGoes, FdwWhole, FdwTypeOK
  <2>3. CASE server = 0 /\ server' = fdw[c].n /\ FdwGoes(c, "mapping")
    <3>1. fdw'[c].pc = "mapping" /\ fdw'[c].n = server'
      BY <1>0, <2>3 DEF FdwGoes, FdwTypeOK
    <3> QED
      BY <1>0, <1>3, <2>1, <2>3, <3>1 DEF CreateServer, FdwWhole, FdwAt, FdwTypeOK
  <2> QED
    BY <1>3, <2>2, <2>3 DEF CreateServer
<1>4. ASSUME NEW c \in FdwClients, CreateMapping(c) PROVE FdwWhole'
  <2>1. FdwWhole /\ UNCHANGED <<server, usable, foreign>>
    BY <1>1, <1>4 DEF CreateMapping
  <2>2. \A d \in FdwClients : d # c => fdw'[d] = fdw[d]
    BY <1>0, <1>4 DEF CreateMapping, FdwGoes, FdwTypeOK
  <2>3. CASE FdwGoes(c, "undo") /\ UNCHANGED mapping
    <3>1. FdwUndone'
      BY <1>0, <2>3 DEF FdwGoes, FdwUndone, FdwTypeOK
    <3> QED
      BY <1>0, <1>4, <2>1, <2>2, <2>3, <3>1 DEF CreateMapping, FdwWhole, FdwTypeOK
  <2>4. CASE server # 0 /\ mapping = 0 /\ mapping' = fdw[c].n /\ FdwGoes(c, "grant")
    <3>1. fdw'[c].pc = "grant" /\ fdw'[c].n = fdw[c].n
      BY <1>0, <2>4 DEF FdwGoes, FdwTypeOK
    <3>2. FdwAt({"mapping"}) \/ FdwUndone
      BY <2>1, <2>4 DEF FdwWhole
    <3>3. CASE fdw[c].n = server
      <4>1. FdwAt({"mapping", "grant"})'
        BY <2>1, <3>1, <3>3 DEF FdwAt
      <4> QED
        BY <1>4, <2>1, <2>2, <2>4, <3>3, <4>1 DEF CreateMapping, FdwWhole
    <3>4. CASE fdw[c].n # server
      <4>1. FdwAt({"mapping"})' \/ FdwUndone'
        BY <1>4, <2>1, <2>2, <3>2, <3>4 DEF CreateMapping, FdwAt, FdwUndone
      <4>2. FdwAt({"mapping", "grant"})' \/ FdwUndone'
        BY <4>1 DEF FdwAt
      <4> QED
        BY <1>4, <2>1, <2>2, <2>4, <4>1, <4>2 DEF CreateMapping, FdwWhole
    <3> QED
      BY <3>3, <3>4
  <2> QED
    BY <1>4, <2>3, <2>4 DEF CreateMapping
<1>5. ASSUME NEW c \in FdwClients, GrantUsage(c) PROVE FdwWhole'
  <2>1. FdwWhole /\ UNCHANGED <<server, mapping, foreign>>
    BY <1>1, <1>5 DEF GrantUsage
  <2>2. \A d \in FdwClients : d # c => fdw'[d] = fdw[d]
    BY <1>0, <1>5 DEF GrantUsage, FdwGoes, FdwRests, FdwTypeOK
  <2>3. CASE FdwGoes(c, "undo") /\ UNCHANGED usable
    <3>1. FdwUndone'
      BY <1>0, <2>3 DEF FdwGoes, FdwUndone, FdwTypeOK
    <3> QED
      BY <1>0, <1>5, <2>1, <2>2, <2>3, <3>1 DEF GrantUsage, FdwWhole, FdwTypeOK
  <2>4. CASE server # 0 /\ usable' = TRUE /\ FdwRests(c)
    <3>1. FdwAt({"mapping"}) \/ FdwUndone => FdwAt({"mapping"})' \/ FdwUndone'
      BY <1>5, <2>1, <2>2 DEF GrantUsage, FdwAt, FdwUndone
    <3> QED
      BY <1>5, <2>1, <2>2, <2>4, <3>1 DEF GrantUsage, FdwWhole
  <2> QED
    BY <1>5, <2>3, <2>4 DEF GrantUsage
<1>6. ASSUME NEW c \in FdwClients, UndoServer(c) PROVE FdwWhole'
  BY <1>6 DEF UndoServer, ServerGone, FdwWhole
<1>7. ASSUME NEW c \in FdwClients, FdwImport(c) PROVE FdwWhole'
  BY <1>0, <1>1, <1>7 DEF FdwImport, FdwGoes, FdwTypeOK, FdwWhole, FdwAt, FdwUndone, NoFdw
<1>8. ASSUME NEW c \in FdwClients, GrantSelect(c) PROVE FdwWhole'
  <2>1. FdwWhole /\ UNCHANGED <<server, mapping, usable>> /\ foreign' # "there"
    BY <1>0, <1>1, <1>8 DEF GrantSelect, FdwTypeOK
  <2>2. /\ FdwAt({"mapping"}) => FdwAt({"mapping"})' 
        /\ FdwAt({"mapping", "grant"}) => FdwAt({"mapping", "grant"})'
        /\ FdwUndone => FdwUndone'
    BY <1>0, <1>8 DEF GrantSelect, FdwRests, FdwAt, FdwUndone, FdwTypeOK
  <2>3. foreign = "none" => foreign' = "none"
    BY <1>8 DEF GrantSelect
  <2> QED
    BY <2>1, <2>2, <2>3 DEF FdwWhole
<1>9. ASSUME NEW c \in FdwClients, FdwDrop(c) PROVE FdwWhole'
  BY <1>9 DEF FdwDrop, ServerGone, FdwWhole
<1>10. CASE FdwKilled
  BY <1>10 DEF FdwKilled
<1>11. CASE UNCHANGED fdwVars
  BY <1>1, <1>11 DEF fdwVars, FdwWhole, FdwAt, FdwUndone
<1> QED
  BY <1>2, <1>3, <1>4, <1>5, <1>6, <1>7, <1>8, <1>9, <1>10, <1>11 DEF FdwNext

\* Every state keeps the invariant.
LEMMA FdwAlways == FdwSpec => []FdwInv
<1>1. FdwInit => FdwInv
  <2> SUFFICES ASSUME FdwInit PROVE FdwInv
    OBVIOUS
  <2>1. /\ usable \in BOOLEAN /\ killed \in BOOLEAN
        /\ foreign \in {"none", "there", "granted"}
    BY DEF FdwInit
  <2>2. /\ server \in 0..MaxServers /\ mapping \in 0..MaxServers /\ asked \in 0..MaxServers
        /\ fdw \in [FdwClients -> [pc : {"idle", "server", "mapping", "grant", "undo", "select"},
                                   n : 0..MaxServers]]
    BY FdwAssumption DEF FdwInit, NoFdw
  <2>3. FdwWhole
    BY DEF FdwInit, FdwWhole
  <2> QED
    BY <2>1, <2>2, <2>3 DEF FdwInv, FdwTypeOK
<1> QED
  BY <1>1, FdwInvKept, PTL DEF FdwSpec

\* In whatever order any number of requests for the same name create, fail,
\* undo, import and drop, a server at rest is whole (fdw.go).
THEOREM ServersStayWhole == FdwSpec => []ServersWhole
<1>2. FdwInv => ServersWhole
  BY DEF FdwInv, FdwWhole, FdwTypeOK, ServersWhole, FdwAt, FdwUndone, NoFdw
<1> QED
  BY <1>2, FdwAlways, PTL

-----------------------------------------------------------------------------
(* Host names.                                                             *)

\* Between a row and its copy.
HostBusy(c) == routing[c].pc \in {"write", "store", "keep"}

\* The values of a setting that are in its row, in its copy or on their way.
HostValues(k) ==
    {hostRow[k]} \cup ({hostCopy[k]} \ {Unread})
      \cup {routing[c].val : c \in {d \in HostClients : HostBusy(d) /\ routing[d].key = k}}

\* Whatever the status host may come to be is outside of the primary domain, and
\* whatever the secondary domain may come to be is beside it.
StatusOutside == \A v \in HostValues("status") : ~Under(v, Primary)
SecondaryBeside ==
    \A v \in HostValues("secondary") : ~Under(v, Primary) /\ ~Below(Primary, v)

\* A status host set last is outside of every secondary domain still on its way.
StatusBeside ==
    ~aliasLate =>
      \A v \in HostValues("status"), d \in HostValues("secondary") : ~Under(v, d)

\* Of a setting that nobody met over, one request at most is under way, and what
\* it stores in memory is in the row.
HostStep(c) ==
    CASE routing[c].pc = "write" -> hostCopy[routing[c].key] \in {Unread, hostRow[routing[c].key]}
      [] routing[c].pc = "store" -> routing[c].val = hostRow[routing[c].key]
      [] routing[c].pc = "keep"  -> /\ routing[c].val = hostRow[routing[c].key]
                                    /\ hostCopy[routing[c].key] \in {Unread, hostRow[routing[c].key]}
      [] OTHER -> TRUE
HostsAlone ==
    /\ \A c, d \in HostClients :
         HostBusy(c) /\ HostBusy(d) /\ routing[c].key = routing[d].key
           /\ routing[c].key \notin overlap => c = d
    /\ \A c \in HostClients : routing[c].key \notin overlap => HostStep(c)

HostInv ==
    /\ HostTypeOK /\ StatusOutside /\ SecondaryBeside /\ StatusBeside
    /\ HostsAlone /\ CopiesFollowRows

HostSteps(c) ==
    \/ \E k \in HostKeys : HostRead(c, k)
    \/ HostKeep(c)
    \/ \E d \in Hosts \cup {NoHost} : SecondaryAsked(c, d) \/ StatusAsked(c, d)
    \/ HostWrite(c) \/ HostStore(c)
    \/ \E on \in BOOLEAN : RedirectSet(c, on)

LEMMA HostValuesSeen ==
  ASSUME HostTypeOK, NEW k \in HostKeys
  PROVE  /\ hostRow[k] \in HostValues(k) /\ HostKnown(k) \in HostValues(k)
         /\ hostCopy[k] # Unread => hostCopy[k] \in HostValues(k)
         /\ \A c \in HostClients :
              HostBusy(c) /\ routing[c].key = k => routing[c].val \in HostValues(k)
         /\ HostValues(k) \subseteq Hosts \cup {NoHost}
  BY HostsAssumption DEF HostTypeOK, HostValues, HostKnown

LEMMA HostTypesKept ==
  ASSUME HostTypeOK, [HostNext]_hostVars
  PROVE  HostTypeOK'
<1>0. NoRoute \in [pc : {"idle", "write", "store", "flag", "keep"}, key : HostKeys,
                   val : Hosts \cup {NoHost}]
  BY DEF NoRoute, HostKeys
<1>1. ASSUME NEW c \in HostClients, NEW k \in HostKeys, HostRead(c, k) PROVE HostTypeOK'
  BY <1>0, <1>1 DEF HostRead, RouteTo, HostTypeOK
<1>2. ASSUME NEW c \in HostClients, HostKeep(c) PROVE HostTypeOK'
  BY <1>0, <1>2 DEF HostKeep, RouteRests, HostTypeOK
<1>3. ASSUME NEW c \in HostClients, NEW d \in Hosts \cup {NoHost}, SecondaryAsked(c, d) PROVE HostTypeOK'
  <2>1. aliasLate' \in BOOLEAN /\ overlap' \subseteq HostKeys
    BY <1>3 DEF SecondaryAsked, HostTypeOK, HostKeys
  <2> QED
    BY <1>0, <1>3, <2>1, HostsAssumption DEF SecondaryAsked, RouteTo, HostTypeOK, HostKeys
<1>4. ASSUME NEW c \in HostClients, NEW d \in Hosts \cup {NoHost}, StatusAsked(c, d) PROVE HostTypeOK'
  <2>1. aliasLate' \in BOOLEAN /\ overlap' \subseteq HostKeys
    BY <1>4 DEF StatusAsked, HostTypeOK, HostKeys
  <2> QED
    BY <1>0, <1>4, <2>1, HostsAssumption DEF StatusAsked, RouteTo, HostTypeOK, HostKeys
<1>5. ASSUME NEW c \in HostClients, HostWrite(c) PROVE HostTypeOK'
  BY <1>0, <1>5 DEF HostWrite, RouteTo, HostTypeOK
<1>6. ASSUME NEW c \in HostClients, HostStore(c) PROVE HostTypeOK'
  <2>1. routing' \in [HostClients -> [pc : {"idle", "write", "store", "flag", "keep"},
                        key : HostKeys, val : Hosts \cup {NoHost}]]
    BY <1>0, <1>6 DEF HostStore, RouteTo, RouteRests, HostTypeOK, HostKeys
  <2> QED
    BY <1>6, <2>1 DEF HostStore, HostTypeOK
<1>7. ASSUME NEW c \in HostClients, NEW on \in BOOLEAN, RedirectSet(c, on) PROVE HostTypeOK'
  BY <1>0, <1>7 DEF RedirectSet, RouteRests, HostTypeOK
<1>8. CASE RouterRestarts
  BY <1>0, <1>8 DEF RouterRestarts, HostTypeOK
<1>9. CASE UNCHANGED hostVars
  BY <1>9 DEF hostVars, HostTypeOK
<1> QED
  BY <1>1, <1>2, <1>3, <1>4, <1>5, <1>6, <1>7, <1>8, <1>9 DEF HostNext

\* A setting takes no value but one that a form asks for.
LEMMA HostValuesFrom ==
  ASSUME HostTypeOK, [HostNext]_hostVars, NEW k \in HostKeys
  PROVE  \/ HostValues(k)' \subseteq HostValues(k)
         \/ \E c \in HostClients, d \in Hosts \cup {NoHost} :
              /\ HostValues(k)' \subseteq HostValues(k) \cup {d}
              /\ \/ k = "secondary" /\ SecondaryAsked(c, d)
                 \/ k = "status" /\ StatusAsked(c, d)
<1>0. HostTypeOK'
  BY HostTypesKept
<1>1. ASSUME NEW c \in HostClients, NEW j \in HostKeys, HostRead(c, j)
      PROVE  HostValues(k)' \subseteq HostValues(k)
  BY <1>0, <1>1 DEF HostRead, RouteTo, HostTypeOK, HostValues, HostBusy
<1>2. ASSUME NEW c \in HostClients, HostKeep(c) PROVE HostValues(k)' \subseteq HostValues(k)
  BY <1>0, <1>2 DEF HostKeep, RouteRests, HostTypeOK, HostValues, HostBusy, NoRoute
<1>3. ASSUME NEW c \in HostClients, NEW d \in Hosts \cup {NoHost}, SecondaryAsked(c, d)
      PROVE  /\ k = "status" => HostValues(k)' \subseteq HostValues(k)
             /\ HostValues(k)' \subseteq HostValues(k) \cup {d}
  BY <1>0, <1>3 DEF SecondaryAsked, RouteTo, HostTypeOK, HostValues, HostBusy
<1>4. ASSUME NEW c \in HostClients, NEW d \in Hosts \cup {NoHost}, StatusAsked(c, d)
      PROVE  /\ k = "secondary" => HostValues(k)' \subseteq HostValues(k)
             /\ HostValues(k)' \subseteq HostValues(k) \cup {d}
  BY <1>0, <1>4 DEF StatusAsked, RouteTo, HostTypeOK, HostValues, HostBusy
<1>5. ASSUME NEW c \in HostClients, HostWrite(c) PROVE HostValues(k)' \subseteq HostValues(k)
  BY <1>0, <1>5 DEF HostWrite, RouteTo, HostTypeOK, HostValues, HostBusy
<1>6. ASSUME NEW c \in HostClients, HostStore(c) PROVE HostValues(k)' \subseteq HostValues(k)
  <2>1. routing'[c].pc \in {"idle", "flag"} /\ \A d \in HostClients \ {c} : routing'[d] = routing[d]
    BY <1>6 DEF HostStore, RouteTo, RouteRests, NoRoute, HostTypeOK
  <2> QED
    BY <1>0, <1>6, <2>1 DEF HostStore, HostTypeOK, HostValues, HostBusy
<1>7. ASSUME NEW c \in HostClients, NEW on \in BOOLEAN, RedirectSet(c, on)
      PROVE  HostValues(k)' \subseteq HostValues(k)
  BY <1>0, <1>7 DEF RedirectSet, RouteRests, HostTypeOK, HostValues, HostBusy, NoRoute
<1>8. CASE RouterRestarts
  BY <1>0, <1>8 DEF RouterRestarts, HostTypeOK, HostValues, HostBusy, NoRoute
<1>9. CASE UNCHANGED hostVars
  BY <1>9 DEF hostVars, HostValues, HostBusy
<1> QED
  BY <1>1, <1>2, <1>3, <1>4, <1>5, <1>6, <1>7, <1>8, <1>9 DEF HostNext, HostKeys

LEMMA HostsOutsideKept ==
  ASSUME HostTypeOK, [HostNext]_hostVars, StatusOutside, SecondaryBeside
  PROVE  StatusOutside' /\ SecondaryBeside'
<1>1. ~Under(NoHost, Primary) /\ ~Below(Primary, NoHost)
  <2>1. Primary \in Seq(Label) /\ Primary # NoHost
    BY HostsAssumption
  <2>2. Len(Primary) > 0 /\ Len(NoHost) = 0
    BY <2>1 DEF NoHost
  <2> QED
    BY <2>2 DEF Under, Below, IsPrefix
<1>2. ASSUME NEW v \in HostValues("status")' PROVE ~Under(v, Primary)
  <2>1. \/ v \in HostValues("status")
        \/ \E c \in HostClients : StatusAsked(c, v)
    BY <1>2, HostValuesFrom DEF HostKeys
  <2>2. ASSUME NEW c \in HostClients, StatusAsked(c, v) PROVE ~Under(v, Primary)
    BY <1>1, <2>2 DEF StatusAsked
  <2> QED
    BY <2>1, <2>2 DEF StatusOutside
<1>3. ASSUME NEW v \in HostValues("secondary")' PROVE ~Under(v, Primary) /\ ~Below(Primary, v)
  <2>1. \/ v \in HostValues("secondary")
        \/ \E c \in HostClients : SecondaryAsked(c, v)
    BY <1>3, HostValuesFrom DEF HostKeys
  <2>2. ASSUME NEW c \in HostClients, SecondaryAsked(c, v) PROVE ~Under(v, Primary) /\ ~Below(Primary, v)
    BY <1>1, <2>2 DEF SecondaryAsked
  <2> QED
    BY <2>1, <2>2 DEF SecondaryBeside
<1> QED
  BY <1>2, <1>3 DEF StatusOutside, SecondaryBeside

\* One request under way for a setting, unless two met over it.
HostOrder == HostsAlone /\ CopiesFollowRows

LEMMA HostAsks ==
  ASSUME HostTypeOK, HostOrder, NEW c \in HostClients, NEW k \in HostKeys,
         NEW pc \in {"write", "keep"}, NEW v, routing[c] = NoRoute,
         overlap' = (IF AtWork(k) THEN overlap \cup {k} ELSE overlap),
         RouteTo(c, pc, k, v), pc = "keep" => v = hostRow[k] /\ hostCopy[k] = Unread,
         UNCHANGED <<hostRow, hostCopy>>
  PROVE  HostOrder'
<1>1. /\ routing' = [routing EXCEPT ![c] = [pc |-> pc, key |-> k, val |-> v]]
      /\ routing'[c] = [pc |-> pc, key |-> k, val |-> v]
      /\ \A d \in HostClients : d # c => routing'[d] = routing[d]
      /\ ~HostBusy(c) /\ HostBusy(c)'
  BY DEF HostTypeOK, RouteTo, HostBusy, NoRoute
<1>2. AtWork(k) <=> \E d \in HostClients : HostBusy(d) /\ routing[d].key = k
  BY DEF AtWork, HostBusy
<1>3. ASSUME NEW a \in HostClients, NEW b \in HostClients, HostBusy(a)', HostBusy(b)',
             routing'[a].key = routing'[b].key, routing'[a].key \notin overlap'
      PROVE  a = b
  <2>1. CASE a # c /\ b # c
    BY <1>1, <1>3, <2>1 DEF HostOrder, HostsAlone, HostBusy
  <2>2. CASE (a = c) # (b = c)
    BY <1>1, <1>2, <1>3, <2>2 DEF HostBusy
  <2> QED
    BY <2>1, <2>2
<1>4. k \notin overlap' => hostCopy[k] \in {Unread, hostRow[k]}
  BY DEF HostOrder, CopiesFollowRows
<1>5. ASSUME NEW a \in HostClients, routing'[a].key \notin overlap' PROVE HostStep(a)'
  <2>1. CASE a = c
    BY <1>1, <1>4, <1>5, <2>1 DEF HostStep
  <2>2. CASE a # c
    <3>1. routing[a].key \notin overlap /\ routing'[a] = routing[a]
      BY <1>1, <1>5, <2>2
    <3> QED
      BY <3>1 DEF HostOrder, HostsAlone, HostStep
  <2> QED
    BY <2>1, <2>2
<1>6. CopiesFollowRows'
  BY <1>1 DEF HostOrder, CopiesFollowRows, AtWork, HostBusy
<1> QED
  BY <1>3, <1>5, <1>6 DEF HostOrder, HostsAlone

\* What one request does with its own row or copy is nothing to the others.
LEMMA HostOthers ==
  ASSUME HostTypeOK, HostOrder, NEW c \in HostClients, HostBusy(c), overlap' = overlap,
         \A d \in HostClients : d # c => routing'[d] = routing[d],
         \A j \in HostKeys : j # routing[c].key => hostRow'[j] = hostRow[j] /\ hostCopy'[j] = hostCopy[j],
         HostBusy(c)' => routing'[c].key = routing[c].key,
         routing[c].key \notin overlap => HostStep(c)' \/ ~HostBusy(c)',
         routing[c].key \notin overlap =>
           HostBusy(c)' \/ hostCopy'[routing[c].key] \in {Unread, hostRow'[routing[c].key]},
         routing' \in [HostClients -> [pc : {"idle", "write", "store", "flag", "keep"},
                        key : HostKeys, val : Hosts \cup {NoHost}]]
  PROVE  HostOrder'
<1>1. ASSUME NEW a \in HostClients, NEW b \in HostClients, HostBusy(a)', HostBusy(b)',
             routing'[a].key = routing'[b].key, routing'[a].key \notin overlap'
      PROVE  a = b
  BY <1>1 DEF HostOrder, HostsAlone, HostBusy
<1>2. ASSUME NEW a \in HostClients, routing'[a].key \notin overlap' PROVE HostStep(a)'
  <2>1. CASE ~HostBusy(a)'
    BY <2>1 DEF HostBusy, HostStep
  <2>2. CASE HostBusy(a)' /\ a = c
    BY <1>2, <2>2
  <2>3. CASE HostBusy(a)' /\ a # c
    <3>1. routing'[a] = routing[a] /\ HostBusy(a) /\ routing[a].key \in HostKeys
      BY <2>3 DEF HostBusy, HostTypeOK
    <3>2. routing[a].key # routing[c].key
      BY <1>2, <2>3, <3>1 DEF HostOrder, HostsAlone
    <3> QED
      BY <1>2, <3>1, <3>2 DEF HostOrder, HostsAlone, HostStep
  <2> QED
    BY <2>1, <2>2, <2>3
<1>3. ASSUME NEW k \in HostKeys, ~AtWork(k)', k \notin overlap'
      PROVE  hostCopy'[k] \in {Unread, hostRow'[k]}
  <2>1. CASE k = routing[c].key
    BY <1>3, <2>1 DEF AtWork, HostBusy
  <2>2. CASE k # routing[c].key
    BY <1>3, <2>2 DEF AtWork, HostBusy, HostOrder, CopiesFollowRows
  <2> QED
    BY <2>1, <2>2
<1> QED
  BY <1>1, <1>2, <1>3 DEF HostOrder, HostsAlone, CopiesFollowRows

LEMMA HostOrderKept ==
  ASSUME HostTypeOK, HostOrder, [HostNext]_hostVars
  PROVE  HostOrder'
<1>0. HostTypeOK'
  BY HostTypesKept
<1>1. ASSUME NEW c \in HostClients, NEW k \in HostKeys, HostRead(c, k) PROVE HostOrder'
  BY <1>1, HostAsks DEF HostRead
<1>2. ASSUME NEW c \in HostClients, HostKeep(c) PROVE HostOrder'
  <2>1. HostBusy(c) /\ ~HostBusy(c)' /\ routing[c].key \in HostKeys
    BY <1>2 DEF HostKeep, HostBusy, RouteRests, NoRoute, HostTypeOK
  <2>2. routing[c].key \notin overlap => hostCopy'[routing[c].key] = hostRow'[routing[c].key]
    BY <1>2 DEF HostKeep, HostOrder, HostsAlone, HostStep, HostTypeOK
  <2>3. /\ \A d \in HostClients : d # c => routing'[d] = routing[d]
        /\ \A j \in HostKeys : j # routing[c].key => hostRow'[j] = hostRow[j] /\ hostCopy'[j] = hostCopy[j]
        /\ overlap' = overlap
    BY <1>2 DEF HostKeep, RouteRests, HostTypeOK
  <2> QED
    BY <1>0, <2>1, <2>2, <2>3, HostOthers DEF HostTypeOK
<1>3. ASSUME NEW c \in HostClients, NEW d \in Hosts \cup {NoHost}, SecondaryAsked(c, d) PROVE HostOrder'
  BY <1>3, HostAsks DEF SecondaryAsked, HostKeys
<1>4. ASSUME NEW c \in HostClients, NEW d \in Hosts \cup {NoHost}, StatusAsked(c, d) PROVE HostOrder'
  BY <1>4, HostAsks DEF StatusAsked, HostKeys
<1>5. ASSUME NEW c \in HostClients, HostWrite(c) PROVE HostOrder'
  <2>1. /\ HostBusy(c) /\ HostBusy(c)' /\ routing[c].key \in HostKeys
        /\ routing'[c] = [pc |-> "store", key |-> routing[c].key, val |-> routing[c].val]
    BY <1>5 DEF HostWrite, HostBusy, RouteTo, HostTypeOK
  <2>2. HostStep(c)'
    BY <1>5, <2>1 DEF HostWrite, HostStep, HostTypeOK
  <2>3. /\ \A d \in HostClients : d # c => routing'[d] = routing[d]
        /\ \A j \in HostKeys : j # routing[c].key => hostRow'[j] = hostRow[j] /\ hostCopy'[j] = hostCopy[j]
        /\ overlap' = overlap
    BY <1>5 DEF HostWrite, RouteTo, HostTypeOK
  <2> QED
    BY <1>0, <2>1, <2>2, <2>3, HostOthers DEF HostTypeOK
<1>6. ASSUME NEW c \in HostClients, HostStore(c) PROVE HostOrder'
  <2>1. HostBusy(c) /\ ~HostBusy(c)' /\ routing[c].key \in HostKeys
    BY <1>6 DEF HostStore, HostBusy, RouteRests, RouteTo, NoRoute, HostTypeOK
  <2>2. routing[c].key \notin overlap => hostCopy'[routing[c].key] = hostRow'[routing[c].key]
    BY <1>6 DEF HostStore, HostOrder, HostsAlone, HostStep, HostTypeOK
  <2>3. /\ \A d \in HostClients : d # c => routing'[d] = routing[d]
        /\ \A j \in HostKeys : j # routing[c].key => hostRow'[j] = hostRow[j] /\ hostCopy'[j] = hostCopy[j]
        /\ overlap' = overlap
    BY <1>6 DEF HostStore, RouteRests, RouteTo, HostTypeOK
  <2> QED
    BY <1>0, <2>1, <2>2, <2>3, HostOthers DEF HostTypeOK
<1>7. ASSUME NEW c \in HostClients, NEW on \in BOOLEAN, RedirectSet(c, on) PROVE HostOrder'
  <2>1. /\ ~HostBusy(c) /\ ~HostBusy(c)' /\ UNCHANGED <<hostRow, hostCopy, overlap>>
        /\ \A d \in HostClients : d # c => routing'[d] = routing[d]
    BY <1>7 DEF RedirectSet, RouteRests, NoRoute, HostBusy, HostTypeOK
  <2>2. HostsAlone'
    BY <2>1 DEF HostOrder, HostsAlone, HostBusy, HostStep
  <2>3. CopiesFollowRows'
    BY <2>1 DEF HostOrder, CopiesFollowRows, AtWork, HostBusy
  <2> QED
    BY <2>2, <2>3 DEF HostOrder
<1>8. CASE RouterRestarts
  BY <1>8 DEF RouterRestarts, HostOrder, HostsAlone, HostBusy, HostStep, NoRoute, CopiesFollowRows
<1>9. CASE UNCHANGED hostVars
  BY <1>9 DEF hostVars, HostOrder, HostsAlone, HostBusy, HostStep, CopiesFollowRows, AtWork
<1> QED
  BY <1>1, <1>2, <1>3, <1>4, <1>5, <1>6, <1>7, <1>8, <1>9 DEF HostNext

LEMMA StatusBesideKept ==
  ASSUME HostTypeOK, HostOrder, StatusBeside, [HostNext]_hostVars
  PROVE  StatusBeside'
<1>0. "status" \in HostKeys /\ "secondary" \in HostKeys
  BY DEF HostKeys
<1>1. ASSUME NEW c \in HostClients, NEW d \in Hosts \cup {NoHost}, SecondaryAsked(c, d), ~aliasLate'
      PROVE  /\ HostValues("status") \subseteq {NoHost} /\ ~aliasLate
  <2>1. ~AtWork("status") /\ hostRow["status"] = NoHost /\ HostKnown("status") = NoHost /\ ~aliasLate
    BY <1>1 DEF SecondaryAsked
  <2> QED
    BY <2>1 DEF HostValues, AtWork, HostBusy, HostKnown
<1>2. ASSUME NEW c \in HostClients, NEW d \in Hosts \cup {NoHost}, StatusAsked(c, d), ~aliasLate'
      PROVE  /\ HostValues("secondary") = {HostKnown("secondary")} /\ ~aliasLate
             /\ d = NoHost \/ ~Under(d, HostKnown("secondary"))
  <2>1. ~AtWork("secondary") /\ "secondary" \notin overlap /\ ~aliasLate
    BY <1>2 DEF StatusAsked
  <2>2. hostCopy["secondary"] \in {Unread, hostRow["secondary"]}
    BY <1>0, <2>1 DEF HostOrder, CopiesFollowRows
  <2>3. HostValues("secondary") = {HostKnown("secondary")}
    BY <2>1, <2>2 DEF HostValues, AtWork, HostBusy, HostKnown
  <2> QED
    BY <1>2, <2>1, <2>3 DEF StatusAsked
<1>3. \A v \in HostValues("secondary") \cup HostValues("secondary")' : ~Under(NoHost, v)
  <2>1. HostTypeOK'
    BY HostTypesKept
  <2>2. HostValues("secondary") \cup HostValues("secondary")' \subseteq Hosts \cup {NoHost}
    <3>1. HostValues("secondary")' \subseteq Hosts \cup {NoHost}
      BY <2>1, HostsAssumption DEF HostValues, HostTypeOK, HostKeys
    <3> QED
      BY <1>0, <3>1, HostValuesSeen
  <2>3. ASSUME NEW v \in Hosts \cup {NoHost} PROVE ~Under(NoHost, v)
    <3>1. CASE v = NoHost
      BY <3>1 DEF Under
    <3>2. CASE v # NoHost
      <4>1. v \in Seq(Label)
        BY <3>2, HostsAssumption
      <4>2. Len(v) > 0 /\ Len(NoHost) = 0
        BY <3>2, <4>1 DEF NoHost
      <4> QED
        BY <4>2 DEF Under, IsPrefix
    <3> QED
      BY <3>1, <3>2
  <2> QED
    BY <2>2, <2>3
<1>4. aliasLate => aliasLate'
  <2>1. ASSUME NEW c \in HostClients, NEW d \in Hosts \cup {NoHost},
               SecondaryAsked(c, d) \/ StatusAsked(c, d), aliasLate
        PROVE  aliasLate'
    BY <2>1 DEF SecondaryAsked, StatusAsked
  <2> QED
    BY <2>1 DEF HostNext, HostRead, HostKeep, HostWrite, HostStore, RedirectSet, RouterRestarts, hostVars
<1>5. ASSUME ~aliasLate', NEW v \in HostValues("status")', NEW d \in HostValues("secondary")'
      PROVE  ~Under(v, d)
  <2>1. ~aliasLate
    BY <1>4, <1>5
  <2>2. v \in HostValues("status") \/ \E c \in HostClients : v \in Hosts \cup {NoHost} /\ StatusAsked(c, v)
    BY <1>0, <1>5, HostValuesFrom
  <2>3. d \in HostValues("secondary") \/ \E c \in HostClients : d \in Hosts \cup {NoHost} /\ SecondaryAsked(c, d)
    BY <1>0, <1>5, HostValuesFrom
  <2>4. CASE v \in HostValues("status") /\ d \in HostValues("secondary")
    BY <2>1, <2>4 DEF StatusBeside
  <2>5. ASSUME NEW c \in HostClients, v \in Hosts \cup {NoHost}, StatusAsked(c, v) PROVE ~Under(v, d)
    <3>1. HostValues("secondary")' \subseteq HostValues("secondary")
      <4>1. ~\E b \in HostClients, e \in Hosts \cup {NoHost} : SecondaryAsked(b, e)
        <5>1. routing'[c].pc = "write" /\ routing'[c].key = "status"
          BY <2>5 DEF StatusAsked, RouteTo, HostTypeOK
        <5>2. ASSUME NEW b \in HostClients, NEW e \in Hosts \cup {NoHost}, SecondaryAsked(b, e)
              PROVE  FALSE
          <6>1. /\ routing'[b].key = "secondary"
                /\ b # c => routing'[c] = routing[c]
            BY <5>2 DEF SecondaryAsked, RouteTo, HostTypeOK
          <6>2. routing[c] = NoRoute
            BY <2>5 DEF StatusAsked
          <6> QED
            BY <5>1, <6>1, <6>2 DEF NoRoute
        <5> QED
          BY <5>2
      <4> QED
        BY <1>0, <4>1, HostValuesFrom
    <3> QED
      BY <1>2, <1>3, <1>5, <2>5, <3>1
  <2>6. ASSUME NEW c \in HostClients, d \in Hosts \cup {NoHost}, SecondaryAsked(c, d),
               v \in HostValues("status")
        PROVE  ~Under(v, d)
    <3>1. v = NoHost
      BY <1>1, <1>5, <2>6
    <3> QED
      BY <1>3, <1>5, <3>1
  <2> QED
    BY <2>2, <2>3, <2>4, <2>5, <2>6
<1> QED
  BY <1>5 DEF StatusBeside

LEMMA HostInvKept ==
  ASSUME HostInv, [HostNext]_hostVars
  PROVE  HostInv'
<1>1. HostOrder
  BY DEF HostInv, HostOrder
<1>2. HostTypeOK' /\ StatusOutside' /\ SecondaryBeside' /\ StatusBeside'
  BY <1>1, HostTypesKept, HostsOutsideKept, StatusBesideKept DEF HostInv
<1>3. HostOrder'
  BY <1>1, HostOrderKept DEF HostInv
<1> QED
  BY <1>2, <1>3 DEF HostInv, HostOrder

LEMMA HostInvInit == HostInit => HostInv
<1> SUFFICES ASSUME HostInit PROVE HostInv
  OBVIOUS
<1>1. HostTypeOK
  <2>1. MaxHostSets \in Nat
    BY HostsAssumption
  <2>2. routing \in [HostClients -> [pc : {"idle", "write", "store", "flag", "keep"},
                        key : HostKeys, val : Hosts \cup {NoHost}]]
    BY DEF HostInit, NoRoute, HostKeys
  <2>3. /\ hostRow \in [HostKeys -> Hosts \cup {NoHost}]
        /\ hostCopy \in [HostKeys -> Hosts \cup {NoHost, Unread}]
    BY DEF HostInit
  <2>4. hostSets \in 0..MaxHostSets
    BY <2>1 DEF HostInit
  <2>5. redirect \in BOOLEAN /\ overlap \subseteq HostKeys /\ aliasLate \in BOOLEAN
    BY DEF HostInit
  <2> QED
    BY <2>2, <2>3, <2>4, <2>5 DEF HostTypeOK
<1>2. \A k \in HostKeys : HostValues(k) = {NoHost}
  BY DEF HostInit, HostValues, HostBusy, NoRoute
<1>3. Primary \in Seq(Label) /\ Primary # NoHost /\ Len(NoHost) = 0 /\ Len(Primary) > 0
  BY HostsAssumption DEF NoHost
<1>4. ~Under(NoHost, Primary) /\ ~Under(NoHost, NoHost) /\ ~Below(Primary, NoHost)
  BY <1>3 DEF Under, Below, IsPrefix
<1>5. StatusOutside /\ SecondaryBeside /\ StatusBeside
  BY <1>2, <1>4 DEF StatusOutside, SecondaryBeside, StatusBeside, HostKeys, Below
<1>6. HostsAlone /\ CopiesFollowRows
  BY DEF HostInit, HostsAlone, CopiesFollowRows, HostBusy, HostStep, NoRoute
<1> QED
  BY <1>1, <1>5, <1>6 DEF HostInv

\* The host of a domain is what is left of it when the domain is taken away.
LEMMA SubOfDomain ==
  /\ SubOf(Primary, Primary) = <<>>
  /\ \A p \in Projects : /\ Append(Primary, p) # Primary
                         /\ Under(Append(Primary, p), Primary)
                         /\ SubOf(Append(Primary, p), Primary) = <<p>>
  /\ Under(Primary, Primary)
<1>0. Primary \in Seq(Label) /\ Primary # NoHost
  BY HostsAssumption
<1>1. SubOf(Primary, Primary) = <<>>
  BY <1>0, SubSeqEmpty DEF SubOf
<1>2. Under(Primary, Primary)
  BY <1>0 DEF Under, IsPrefix
<1>3. ASSUME NEW p \in Projects
      PROVE  /\ Append(Primary, p) # Primary /\ Under(Append(Primary, p), Primary)
             /\ SubOf(Append(Primary, p), Primary) = <<p>>
  <2> DEFINE h == Append(Primary, p)
  <2>1. /\ p \in Label /\ h \in Seq(Label) /\ Len(h) = Len(Primary) + 1
        /\ \A i \in 1..Len(Primary) : h[i] = Primary[i]
        /\ h[Len(Primary) + 1] = p /\ Len(Primary) \in Nat
    BY <1>0, HostsAssumption
  <2> HIDE DEF h
  <2>2. SubSeq(h, 1, Len(Primary)) = SubSeq(Primary, 1, Len(Primary))
    <3> DEFINE left == SubSeq(h, 1, Len(Primary))
               right == SubSeq(Primary, 1, Len(Primary))
    <3>1. /\ left \in Seq(Label) /\ Len(left) = Len(Primary)
          /\ \A i \in 1..Len(Primary) : left[i] = h[i]
      BY <2>1, SubSeqProperties
    <3>2. /\ right \in Seq(Label) /\ Len(right) = Len(Primary)
          /\ \A i \in 1..Len(Primary) : right[i] = Primary[i]
      BY <1>0, <2>1, SubSeqProperties
    <3> QED
      BY <2>1, <3>1, <3>2, SeqEqual
  <2>3. SubSeq(h, Len(Primary) + 1, Len(h)) = <<p>>
    <3> DEFINE left == SubSeq(h, Len(Primary) + 1, Len(h))
               m == Len(Primary) + 1
    <3>1. m \in Int /\ m <= m /\ m - m + 1 = 1 /\ m + 1 - 1 = m /\ Len(h) = m
      BY <2>1
    <3>2. \A i \in m..m : h[i] \in Label
      BY <2>1, <3>1
    <3>3. left \in Seq(Label) /\ Len(left) = 1 /\ left[1] = h[m]
      BY <3>1, <3>2, SubSeqProperties
    <3>4. <<p>> \in Seq(Label) /\ Len(<<p>>) = 1 /\ <<p>>[1] = p
      BY <2>1
    <3>5. \A i \in 1..Len(left) : left[i] = <<p>>[i]
      BY <2>1, <3>3, <3>4
    <3> QED
      BY <3>3, <3>4, <3>5, SeqEqual
  <2>4. h # Primary
    <3>1. Len(h) # Len(Primary)
      BY <2>1
    <3> QED
      BY <3>1
  <2>5. Under(h, Primary) /\ SubOf(h, Primary) = <<p>>
    <3>1. IsPrefix(Primary, h)
      BY <2>1, <2>2 DEF IsPrefix
    <3> QED
      BY <1>0, <2>3, <3>1 DEF Under, SubOf
  <2> QED
    BY <2>4, <2>5 DEF h
<1> QED
  BY <1>1, <1>2, <1>3

\* Routes, certificates and the copies they are read from, for any hosts, any
\* number of requests and any forms (domains.go, status.go, main.go).
THEOREM HostsStayKept == HostSpec => []HostsKept
<1>1. ASSUME HostInv PROVE NothingShadowed
  <2>0. Primary \in Seq(Label) /\ Primary # NoHost
    BY HostsAssumption
  <2>1. /\ HostKnown("status") \in HostValues("status")
        /\ HostKnown("secondary") \in HostValues("secondary")
    BY <1>1, HostValuesSeen DEF HostInv, HostKeys
  <2>2. ~Under(HostKnown("status"), Primary)
    BY <1>1, <2>1 DEF HostInv, StatusOutside
  <2>3. Reaches(Primary, "GET") = "panel"
    <3>1. DomainOf(Primary) = Primary /\ SubOf(Primary, Primary) = <<>>
      BY SubOfDomain DEF DomainOf
    <3>2. Primary # HostKnown("status") /\ <<>> # <<"status">> /\ Len(<<>>) = 0
      BY <2>2, SubOfDomain
    <3> QED
      BY <3>1, <3>2 DEF Reaches
  <2>4. ASSUME NEW p \in Projects PROVE Reaches(Append(Primary, p), "GET") = "api"
    <3> DEFINE h == Append(Primary, p)
    <3>1. DomainOf(h) = Primary /\ SubOf(h, Primary) = <<p>> /\ h # HostKnown("status")
      BY <2>2, SubOfDomain DEF DomainOf
    <3>2. <<p>> # <<"status">> /\ Len(<<p>>) = 1 /\ <<p>>[1] \in Projects /\ <<p>> # <<>>
      BY HostsAssumption
    <3>3. Reaches(h, "GET") = "api"
      BY <2>0, <3>1, <3>2 DEF Reaches
    <3> QED
      BY <3>3
  <2>5. ~aliasLate => ~Under(HostKnown("status"), HostKnown("secondary"))
    BY <1>1, <2>1 DEF HostInv, StatusBeside
  <2> QED
    BY <2>3, <2>4, <2>5 DEF NothingShadowed
<1>2. ASSUME HostInv, NothingShadowed PROVE AnsweredIsCertified
  <2>1. ASSUME NEW h \in Hosts, Reaches(h, "GET") # "panel", h # HostKnown("status")
        PROVE  Certified(h)
    <3> DEFINE dom == DomainOf(h)
               sub == SubOf(h, dom)
    <3>1. dom # NoHost /\ \/ sub = <<"status">>
                          \/ Len(sub) = 1 /\ sub[1] \in Projects
                          \/ sub = <<>>
      BY <2>1, Zenon DEF Reaches
    <3>2. dom \in {Primary, HostKnown("secondary")} /\ Under(h, dom)
      BY <3>1 DEF DomainOf
    <3>3. dom \in Seq(Label) /\ h \in Seq(Label)
      BY <1>2, <3>1, <3>2, HostValuesSeen, HostsAssumption DEF HostInv, HostKeys
    <3>4. sub \in Seq(Label)
      BY <3>3, SubSeqProperties DEF SubOf
    <3>5. Len(sub) = 1 => sub = <<sub[1]>>
      BY <3>4
    <3>6. sub \in {<<>>, <<"db">>, <<"status">>} \cup {<<p>> : p \in Projects}
      BY <3>1, <3>5
    <3> QED
      BY <3>2, <3>6 DEF Certified
  <2>2. ASSUME NEW h \in Hosts, h = HostKnown("status") PROVE Certified(h)
    BY <2>2 DEF Certified
  <2> QED
    BY <1>2, <2>1, <2>2 DEF AnsweredIsCertified, NothingShadowed
<1>3. HostInv => HostsKept
  BY <1>1, <1>2 DEF HostsKept, HostInv
<1> QED
  BY <1>3, HostInvInit, HostInvKept, PTL DEF HostSpec

-----------------------------------------------------------------------------
(* The types, which the invariants above hold or imply.                    *)

LEMMA SchemaTypes == SchemaSpec => []SchemaTypeOK
<1>1. SchemaInv => SchemaTypeOK
  BY DEF SchemaInv
<1> QED
  BY <1>1, SchemaAlways, PTL

LEMMA RowsTypes == RowSpec => []RowTypeOK
<1>1. RowInv => RowTypeOK
  BY DEF RowInv
<1> QED
  BY <1>1, RowsAlways, PTL

LEMMA FdwTypes == FdwSpec => []FdwTypeOK
<1>1. FdwInv => FdwTypeOK
  BY DEF FdwInv
<1> QED
  BY <1>1, FdwAlways, PTL

LEMMA HostTypes == HostSpec => []HostTypeOK
<1>1. HostInv => HostTypeOK
  BY DEF HostInv
<1> QED
  BY <1>1, HostInvInit, HostInvKept, PTL DEF HostSpec

LEMMA SqlTypes == SqlSpec => []SqlTypeOK
<1>1. ASSUME SqlInv PROVE SqlTypeOK
  <2>1. /\ instant \in 0..LastInstant /\ ids \in 0..MaxSql /\ LastInstant \in Nat /\ MaxSql \in Nat
        /\ tools \in [SqlUsers -> ToolRecs]
    BY <1>1, SqlBounds DEF SqlInv, SqlTyped
  <2>2. ASSUME NEW m \in migrations PROVE m.id \in 1..ids /\ m.version \in 0..LastInstant
    <3>1. m \in [id : 1..ids, version : 0..instant, after : SUBSET (1..ids)]
      BY <1>1 DEF SqlInv, SqlTyped, Migrated
    <3>2. m.id \in 1..ids /\ m.version \in 0..instant
      BY <3>1
    <3> QED
      BY <2>1, <3>2
  <2>3. ASSUME NEW j \in jobs PROVE j.id \in 1..ids /\ j.name \in JobNames
    <3>1. j \in [id : 1..ids, name : JobNames, active : BOOLEAN]
      BY <1>1 DEF SqlInv, SqlTyped
    <3> QED
      BY <3>1
  <2> QED
    BY <1>1, <2>1, <2>2, <2>3 DEF SqlInv, SqlTyped, SqlTypeOK, ToolRecs
<1> QED
  BY <1>1, SqlAlways, PTL

=============================================================================
