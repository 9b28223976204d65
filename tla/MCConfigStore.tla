--------------------------- MODULE MCConfigStore ---------------------------
(* Forms and first records for TLC.                                         *)
EXTENDS ConfigStore

CONSTANTS h1, h2, c1, c2, n1, n2

MCHosts == {h1, h2}
MCCreds == {c1, c2}
\* n2 is asked for without its password only, which is refused.
MCNetworks == {n1}

Form(host, cred) == [host |-> host, cred |-> cred, blank |-> {}, ssid |-> {}, pass |-> "none"]

MCForms ==
    {Form(h1, Unset), Form(h2, Unset), Form("bad", c2),
     [Form(h2, c2) EXCEPT !.blank = {2}],
     [Form(h1, c1) EXCEPT !.blank = {BlankMax + 1}],
     [Form(h1, c1) EXCEPT !.ssid = {n1}, !.pass = "good"],
     [Form(h1, c1) EXCEPT !.ssid = {n2}]}

Record(schema, cred) == [schema |-> schema, host |-> h1, cred |-> cred]

Full(blank) == [k \in Keys |-> IF k = "blank" THEN blank ELSE Record(SchemaVersion, c1)[k]]

\* Nothing; a record of the first version, without a credential as an earlier
\* firmware accepted it; one of this version; one whose period is out of range.
MCFirstRecords ==
    {[k \in {} |-> 0], Record(SchemaVersion - 1, Unset), Full(2)} \cup {Full(b) : b \in StrayBlanks}
=============================================================================
