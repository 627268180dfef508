----------------------------- MODULE ConfigRows -----------------------------
(***************************************************************************)
(* The rows of config.yaml and what one save does to them.  A row belongs  *)
(* to a section of the file (model.Config has one list per section) and    *)
(* has a key in it; the other fields are up to the users of this module.   *)
(***************************************************************************)
CONSTANT None

SameRow(x, y) == x.section = y.section /\ x.key = y.key

\* What no YAML parser takes.
Corrupt == [section |-> "corrupt", key |-> "corrupt"]

\* Content written from the start of a file that holds other content: the end
\* of the longer one may stay.
Overwritten(content, rows) == IF content = {} THEN {rows} ELSE {rows, rows \cup {Corrupt}}

\* DeleteConfig: the named rows leave their section.
Without(content, rows) == {x \in content : ~ \E y \in rows : SameRow(x, y)}

\* Mutant of Put: a row is appended although its key is in the file.
PutAppends(content, rows) == content \cup rows

\* UpdateConfig: rows whose key is in the file replace that row; the rows of a
\* section none of whose keys is in the file are appended.
Put(content, rows) ==
    LET known == {y \in rows : \E x \in content : SameRow(x, y)}
        fresh == {y \in rows : ~ \E z \in known : z.section = y.section}
    IN  Without(content, known) \cup known \cup fresh

\* A change puts rows, deletes rows, or asks for both of nothing.
Applied(content, change) == Put(Without(content, change.gone), change.rows)
=============================================================================
