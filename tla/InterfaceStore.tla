--------------------------- MODULE InterfaceStore ---------------------------
(***************************************************************************)
(* interface_config.yaml: its sections, the lock its writers hold, and     *)
(* what one save does to a section.  UpdateConfig, DeleteConfig,           *)
(* UpdateConfigSpecificFields and UpdateStaticRouteConfig hold the lock    *)
(* from the read to the end of the write; every other read takes no lock.  *)
(* os.WriteFile truncates the file before it writes it: a reader in        *)
(* between, and a restart, meet a file with no rows.                       *)
(***************************************************************************)
EXTENDS Naturals, Sequences, SequencesExt

CONSTANTS
    None,
    Plain,         \* no serving location, domain name nor zone (the zero fields)
    Requests,      \* the requests of a behaviour, each made once
    MaxInFlight    \* bound: how many are served at once

ASSUME StoreAssumption == None \notin Requests /\ MaxInFlight \in Nat

VARIABLES
    file,      \* the rows of each section, in the order of the file
    lock,      \* mu: the request that holds it
    save,      \* the file the holder of mu read and the one it will write
    job,       \* what each request asks and the step it is at
    contended  \* history: requests in flight that have met another request

fileVars == <<file, lock, save>>
storeVars == <<fileVars, job, contended>>

RouteKinds == {"ipv4_unicast", "ipv6_unicast", "multicast"}
Sections == {"device", "bond", "bridge", "vlan"} \cup RouteKinds
EmptyFile == [s \in Sections |-> <<>>]
Torn == lock # None

-----------------------------------------------------------------------------
RowOf(rows, name) == SelectInSeq(rows, LAMBDA x : x.name = name)

\* newData[0] is taken of an empty list: the request panics.
Panics(rows, name, new) == RowOf(rows, name) # 0 /\ new = <<>>

\* Mutant of Stored: the row found stays and the new one is appended.
StoredTwice(rows, name, new) == rows \o new

\* UpdateConfig: the first row of that name is replaced by the first new row;
\* with no such row all the new rows are appended.
Stored(rows, name, new) ==
    LET i == RowOf(rows, name)
    IN  IF i = 0 THEN rows \o new ELSE ReplaceAt(rows, i, new[1])

\* DeleteConfig: the first row of that name.
Deleted(rows, name) ==
    LET i == RowOf(rows, name)
    IN  IF i = 0 THEN rows ELSE RemoveAt(rows, i)

\* UpdateConfigSpecificFields: every row of that name.
WithFields(rows, name, fields) ==
    [i \in DOMAIN rows |->
        IF rows[i].name = name THEN [rows[i] EXCEPT !.fields = fields] ELSE rows[i]]

\* FetchConfigSpecificFields: a map, so that the last row of a name counts.
FieldsOf(rows, name) ==
    LET i == SelectLastInSeq(rows, LAMBDA x : x.name = name)
    IN  IF i = 0 THEN Plain ELSE rows[i].fields

CheckIfInterfaceTypeIsEmpty(section) == file[section] = <<>>

-----------------------------------------------------------------------------
\* Requests.
Ended == {"unasked", "ok", "failed", "killed"}
InFlight == {r \in Requests : job[r].step \notin Ended}
At(r, step) == job[r].step = step

Begin(r, asked) ==
    /\ At(r, "unasked")
    /\ Cardinality(InFlight) < MaxInFlight
    /\ job' = [job EXCEPT ![r] = asked]
    /\ contended' = IF InFlight = {} THEN {} ELSE InFlight \cup {r}

Goto(r, step) == job' = [job EXCEPT ![r].step = step] /\ UNCHANGED contended

Finish(r, result) ==
    /\ job' = [job EXCEPT ![r] = [step |-> result]]
    /\ contended' = contended \ {r}

-----------------------------------------------------------------------------
\* mu is taken, the file read and truncated.
LockAndTruncate(r, section, rows) ==
    /\ lock = None
    /\ lock' = r
    /\ save' = [was |-> file, next |-> [file EXCEPT ![section] = rows]]
    /\ file' = EmptyFile

\* Mutant of WriteAndUnlock: mu stays locked.
WriteOnly(r) ==
    /\ lock = r
    /\ file' = save.next
    /\ UNCHANGED <<lock, save>>

\* The new content is written and mu released.
WriteAndUnlock(r) ==
    /\ lock = r
    /\ file' = save.next
    /\ lock' = None /\ save' = None

\* LOCK_TIME_OUT passes while another request holds mu.
LockTimedOut(r) == lock \notin {None, r} /\ UNCHANGED fileVars
=============================================================================
