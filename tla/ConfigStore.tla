---------------------------- MODULE ConfigStore ----------------------------
(***************************************************************************)
(* config.yaml and the licence file.  Writers hold WriteMu from the read   *)
(* of the file to the end of its rewriting; readers take no lock.          *)
(* os.WriteFile truncates the file and then writes it, so that a reader,   *)
(* and a restart, may meet the file empty: it parses as no rows.           *)
(***************************************************************************)
EXTENDS ConfigRows, FiniteSets

CONSTANT Requests     \* the goroutines that serve requests

VARIABLES
    config,     \* the rows of config.yaml
    license,    \* the key of the licence file, or None
    writer,     \* the holder of WriteMu: its request, step and result
    change      \* what a request has passed to SaveProfile or DeleteProfile

storeVars == <<config, license, writer, change>>

WriterSteps == {"computed", "licensing", "licenceTorn", "torn"}

Unlocked == [step |-> "unlocked"]
Torn == writer.step = "torn"
LicenceTorn == writer.step = "licenceTorn"

StoreTypeOK ==
    /\ writer # Unlocked => /\ writer.request \in Requests
                        /\ writer.step \in WriterSteps
                        /\ change[writer.request] # None
    /\ DOMAIN change = Requests

StoreInit ==
    /\ writer = Unlocked
    /\ change = [r \in Requests |-> None]

-----------------------------------------------------------------------------
\* Mutant of LockAndRead: WriteMu is not taken.
ReadUnlocked(r) ==
    /\ change[r] # None
    /\ writer' = [request |-> r, rows |-> Applied(config, change[r]), step |-> "computed"]
    /\ UNCHANGED <<config, license, change>>

\* WriteMu is taken and the file read: the result is computed from that read.
LockAndRead(r) ==
    /\ writer = Unlocked /\ change[r] # None
    /\ writer' = [request |-> r, rows |-> Applied(config, change[r]),
                  step |-> IF change[r].license = None THEN "computed" ELSE "licensing"]
    /\ UNCHANGED <<config, license, change>>

TruncateLicence ==
    /\ writer.step = "licensing"
    /\ license' = None
    /\ writer' = [writer EXCEPT !.step = "licenceTorn"]
    /\ UNCHANGED <<config, change>>

WriteLicence ==
    /\ LicenceTorn
    /\ license' = change[writer.request].license
    /\ writer' = [writer EXCEPT !.step = "computed"]
    /\ UNCHANGED <<config, change>>

TruncateConfig ==
    /\ writer.step = "computed"
    /\ config' = {}
    /\ writer' = [writer EXCEPT !.step = "torn"]
    /\ UNCHANGED <<license, change>>

\* The file is written and WriteMu released: the request has its answer.
WriteConfig(r) ==
    /\ Torn /\ writer.request = r
    /\ config' \in Overwritten(config, writer.rows)
    /\ writer' = Unlocked
    /\ change' = [change EXCEPT ![r] = None]
    /\ UNCHANGED license

\* The same on a file that was removed: nothing is left of it.
StopWriter(r) ==
    /\ Torn /\ writer.request = r
    /\ writer' = Unlocked
    /\ change' = [change EXCEPT ![r] = None]
    /\ UNCHANGED <<config, license>>

\* LOCK_TIME_OUT passes while another request holds WriteMu.
LockTimeout(r) ==
    /\ change[r] # None
    /\ writer # Unlocked /\ writer.request # r
    /\ change' = [change EXCEPT ![r] = None]
    /\ UNCHANGED <<config, license, writer>>

Rewrite == TruncateLicence \/ WriteLicence \/ TruncateConfig

\* The process ends: the files stay as they are.
StopStore ==
    /\ writer' = Unlocked
    /\ change' = [r \in Requests |-> None]
    /\ UNCHANGED <<config, license>>

-----------------------------------------------------------------------------
\* A save counts from the truncation on: no writer reads the file before it is
\* whole again.
StoredRows == IF Torn THEN writer.rows ELSE config
PendingChanges ==
    [r \in Requests |-> IF Torn /\ writer.request = r THEN None ELSE change[r]]

Promise == INSTANCE ConfigMap WITH stored <- StoredRows, pending <- PendingChanges

(* The saves of config.yaml take effect at once and whole, one request at a *)
(* time, although UpdateConfig reads, computes, truncates and writes in     *)
(* separate steps: no writer computes from a torn file or from rows another *)
(* writer has replaced since.                                               *)
SavesAreAtomic == Promise!MapSpec
=============================================================================
