--------------------------- MODULE MCCertPublisher --------------------------
(***************************************************************************)
(* Two hosts of a job with a group and a task, a service that can have a   *)
(* certificate and one that cannot.                                        *)
(***************************************************************************)
EXTENDS CertPublisher, TLC

CONSTANTS h1, h2, web, db, d1, d2, group, task, s1

Domains == web :> d1 @@ db :> d2

Decl(p, s, literal, tags) ==
    [place |-> p, service |-> s, literal |-> literal, tags |-> tags]

\* web in the task and db beside it; web moved to the group, with a name
\* that only its registration spells out; and both with such names.
Both == {Decl(task, web, TRUE, "literal"), Decl(group, db, TRUE, "literal")}
Moved == {Decl(group, web, FALSE, "literal")}
Unclear ==
    {Decl(task, web, FALSE, "literal"), Decl(group, db, FALSE, "literal")}

Versions == {Both, Moved, Unclear}

\* Both, and then without db.
Without == {Decl(task, web, TRUE, "literal")}
Shrinks == {Both, Without}
=============================================================================
