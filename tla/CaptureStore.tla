------------------------------ MODULE CaptureStore ------------------------------
(***************************************************************************)
(* The file of a capture and those who want it: makers, each of which      *)
(* constructs a CapturedRunBuilder on the same path, and a reader that     *)
(* constructs a CapturedRunIR on it (src/hilrig/results/sqlite_store.py,   *)
(* ir.py).  The builder of the maker that succeeds is the one of           *)
(* CaptureWriter.                                                          *)
(*                                                                         *)
(* A step ends where the file system or SQLite makes the change visible to *)
(* other processes; a maker may die between any two.                       *)
(***************************************************************************)
EXTENDS CaptureWriter

CONSTANT Makers

VARIABLES
  content,  \* the file: "absent", "empty", "tables" (some of the schema) or "capture"
  owner,    \* the maker that created the file, None for none
  maker,    \* [m -> how far initialize_capture_database is for m]
  reader    \* "idle", "found" (is_file said yes) or "open"

storeVars == <<content, owner, maker, reader>>

StoreInit ==
  /\ Init
  /\ content = "absent" /\ owner = None
  /\ maker = [m \in Makers |-> "idle"]
  /\ reader = "idle"

-----------------------------------------------------------------------------
(* initialize_capture_database *)

\* Mistake: touch(exist_ok=True).
TouchAnything(m) ==
  /\ maker[m] = "idle"
  /\ content' = IF content = "absent" THEN "empty" ELSE content
  /\ owner' = m
  /\ maker' = [maker EXCEPT ![m] = "touched"]
  /\ UNCHANGED <<reader, vars>>

\* touch(exist_ok=False): a file that exists is refused, whatever it holds.
Touch(m) ==
  /\ maker[m] = "idle"
  /\ content = "absent"
  /\ content' = "empty" /\ owner' = m
  /\ maker' = [maker EXCEPT ![m] = "touched"]
  /\ UNCHANGED <<reader, vars>>

\* executescript commits each statement of the schema by itself.
CreateTables(m) ==
  /\ maker[m] = "touched"
  /\ content' = "tables"
  /\ maker' = [maker EXCEPT ![m] = "filling"]
  /\ UNCHANGED <<owner, reader, vars>>

\* One transaction: the version, the metadata and the assertions.
CommitCapture(m) ==
  /\ maker[m] = "filling"
  /\ content' = "capture"
  /\ maker' = [maker EXCEPT ![m] = "made"]
  /\ UNCHANGED <<owner, reader, vars>>

\* Any statement raises: the file is removed, unless removing it fails as well (as it does on
\* Windows while a reader has it open).  The caller may try again.
CreationFails(m) ==
  /\ maker[m] \in {"touched", "filling"}
  /\ content' \in {"absent", content}
  /\ owner' = IF content' = "absent" THEN None ELSE owner
  /\ maker' = [maker EXCEPT ![m] = "idle"]
  /\ UNCHANGED <<reader, vars>>

MakerDies(m) ==
  /\ maker[m] \in {"touched", "filling"}
  /\ maker' = [maker EXCEPT ![m] = "dead"]
  /\ UNCHANGED <<content, owner, reader, vars>>

Make(m) == Touch(m) \/ CreateTables(m) \/ CommitCapture(m) \/ CreationFails(m) \/ MakerDies(m)

-----------------------------------------------------------------------------
(* CapturedRunIR *)

\* Mistake: the tables alone make a capture.
HasTables == content \in {"tables", "capture"}

\* _validate_schema looks for the row with the version before anything else.
Valid == content = "capture"

Find ==
  /\ reader = "idle" /\ content # "absent"
  /\ reader' = "found"
  /\ UNCHANGED <<content, owner, maker, vars>>

\* sqlite3.connect makes an empty file when there is none any more: validation then refuses it
\* and leaves it there.
OpenReader ==
  /\ reader = "found"
  /\ content' = IF content = "absent" THEN "empty" ELSE content
  /\ reader' = IF Valid THEN "open" ELSE "idle"
  /\ UNCHANGED <<owner, maker, vars>>

-----------------------------------------------------------------------------
\* The builder exists, and its thread runs, once its capture is made.
BuilderRuns ==
  /\ \E m \in Makers : maker[m] = "made"
  /\ Next
  /\ UNCHANGED storeVars

StoreNext == (\E m \in Makers : Make(m)) \/ Find \/ OpenReader \/ BuilderRuns

\* The fairness of CaptureWriter; nobody is obliged to make a capture or to read one.
StoreFairness ==
  /\ WF_<<storeVars, vars>>(BuilderRuns /\ Writer)
  /\ \A p \in Threads : WF_<<storeVars, vars>>(BuilderRuns /\ Progress(p))

StoreSpec == StoreInit /\ [][StoreNext]_<<storeVars, vars>> /\ StoreFairness

-----------------------------------------------------------------------------
(* Properties *)

\* A capture that was made stays what it is, whoever wants its path, fails, dies or reads
\* meanwhile: no creation overwrites it, and no failed creation removes it.
CapturesAreKept == [][content = "capture" => UNCHANGED <<content, owner>>]_storeVars

\* Only one maker gets the file, and what is left by one that failed or died is never taken for a
\* capture, neither by a builder nor by a reader that found the file before it was removed.
PartialFilesAreRefused ==
  /\ reader = "open" => content = "capture"
  /\ \A m \in Makers : maker[m] = "made" => content = "capture" /\ owner = m
=============================================================================
