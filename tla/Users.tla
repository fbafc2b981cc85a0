------------------------------- MODULE Users -------------------------------
(***************************************************************************)
(* vcam-server/users.js as functions of the database, a partial function   *)
(* from user names to accounts.  A call of the store is a record           *)
(* [kind, name, fields].  Time 0 stands for null.                          *)
(***************************************************************************)
EXTENDS Naturals

CONSTANT None   \* null

\* Object.assign: the members of g over those of f.
Assign(f, g) ==
  [x \in DOMAIN f \cup DOMAIN g |-> IF x \in DOMAIN g THEN g[x] ELSE f[x]]

\* Mutant: the other accounts are lost.
WithOnly(db, n, account) == [x \in {n} |-> account]

With(db, n, account) == Assign(db, [x \in {n} |-> account])
Without(db, n) == [x \in DOMAIN db \ {n} |-> db[x]]

get(db, n) == IF n \in DOMAIN db THEN db[n] ELSE None

\* Mutant: a user added again is created anew.
upsertAnew(db, n, fields, now) ==
  With(db, n, Assign(fields, [createdAt |-> now, lastLoginAt |-> 0]))

\* A user added again keeps the times of creation and of the last login.
upsert(db, n, fields, now) ==
  LET times == IF n \notin DOMAIN db THEN [createdAt |-> now, lastLoginAt |-> 0]
               ELSE [createdAt |-> db[n].createdAt, lastLoginAt |-> db[n].lastLoginAt]
  IN  With(db, n, Assign(fields, times))

patch(db, n, fields) == With(db, n, Assign(db[n], fields))

\* Whether call o, made at db, writes the file.
Writes(o, db) ==
  \/ o.kind = "upsert"
  \/ o.kind \in {"patch", "remove"} /\ o.name \in DOMAIN db

\* The database that call o leaves, and what the call returns: accounts, one
\* account (for true, the one removed), or None for null and false.
Effect(o, db, now) ==
  IF ~Writes(o, db) THEN db
  ELSE CASE o.kind = "upsert" -> upsert(db, o.name, o.fields, now)
         [] o.kind = "patch"  -> patch(db, o.name, o.fields)
         [] o.kind = "remove" -> Without(db, o.name)

Result(o, db, now) ==
  CASE o.kind = "all"             -> db
    [] o.kind \in {"get", "remove"} -> get(db, o.name)
    [] OTHER                      -> get(Effect(o, db, now), o.name)
=============================================================================
