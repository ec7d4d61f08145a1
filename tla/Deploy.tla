------------------------------- MODULE Deploy -------------------------------
(***************************************************************************)
(* Deployment: internal/deploy (Function, Application, LoadManifest), the  *)
(* store of modules by content and the function registry of internal/state.*)
(* Deployers are processes (the deploy command) or calls of one process    *)
(* (the desktop application) that share the files and the database.        *)
(*                                                                         *)
(* A stored module is a directory entry that points to a file of two       *)
(* halves, so that a file can be seen half written, truncated under a      *)
(* writer, or removed while a writer still has it open. A single function  *)
(* is a list of one entry that LoadManifest does not see. A definition     *)
(* marked (slip) is not part of the model but a plausible mistake in the   *)
(* one after it.                                                           *)
(***************************************************************************)
EXTENDS Naturals, Sequences

CONSTANTS
  Deployers,
  Manifest,   \* Manifest[d]: d's entries, see Entries
  Singles,    \* the deployers of a single function
  Names, Contents,
  Compilable, \* the contents that are valid Wasm
  Before, OldContent, \* the functions deployed earlier, all of this content
  None

\* An entry without a route gets the one made from its name, here the name.
Entries == [name : Names, route : Names \cup {None}, content : Contents,
            enabled : BOOLEAN, wellFormed : BOOLEAN]

ASSUME DeployAssumption ==
  /\ Manifest \in [Deployers -> Seq(Entries)]
  /\ \A d \in Singles : Len(Manifest[d]) = 1
  /\ Compilable \subseteq Contents /\ None \notin Names
  /\ Before \subseteq Names /\ OldContent \in Contents

VARIABLES
  dpc, at,   \* where deployer d stands, in which entry; "broken": it failed on a module it stored
  fd,        \* fd[d]: the file it writes
  stored,    \* stored[k]: the file that the path of content k leads to
  data,      \* data[f]: the halves that are in file f
  rows,      \* rows[n]: the registry's record of function n
  schema     \* the functions table: "none", "old" without the later columns, "new"

dvars == <<dpc, at, fd, stored, data, rows, schema>>

\* A file is named by the deployer and entry that created it.
OldFile == <<None, 0>>
Files == {OldFile} \cup UNION {{<<d, i>> : i \in DOMAIN Manifest[d]} : d \in Deployers}
Whole == {1, 2}

\* A row of the functions table.
Rows == [content : Contents, route : Names, by : Files]

ASSUME NoneAssumption ==
  None \notin Deployers /\ None \notin Files /\ None \notin Rows

Entry(d) == Manifest[d][at[d]]
Content(d) == Entry(d).content
RouteOf(e) == IF e.route = None THEN e.name ELSE e.route

DInit ==
  /\ dpc = [d \in Deployers |-> "start"]
  /\ at = [d \in Deployers |-> 1]
  /\ fd = [d \in Deployers |-> None]
  /\ stored = [k \in Contents |-> IF k = OldContent /\ Before # {} THEN OldFile ELSE None]
  /\ data = [f \in Files |-> IF f = OldFile THEN Whole ELSE {}]
  /\ rows = [n \in Names |->
       IF n \in Before THEN [content |-> OldContent, route |-> n, by |-> OldFile] ELSE None]
  /\ schema = IF Before = {} THEN "none" ELSE "old"

DGoto(d, label) == dpc' = [dpc EXCEPT ![d] = label]

-----------------------------------------------------------------------------
(* LoadManifest *)

\* (slip) only the fields of each entry are checked, one by one.
EachWellFormed(s) == \A i \in DOMAIN s : s[i].wellFormed

\* Every entry, enabled or not, is checked before the first is deployed.
Loadable(s) ==
  /\ s # <<>>
  /\ \A i \in DOMAIN s : s[i].wellFormed
  /\ \A i, j \in DOMAIN s :
       i # j => s[i].name # s[j].name /\ RouteOf(s[i]) # RouteOf(s[j])

Load(d) ==
  /\ dpc[d] = "start"
  /\ DGoto(d, IF d \in Singles \/ Loadable(Manifest[d]) THEN "entry" ELSE "failed")
  /\ UNCHANGED <<at, fd, stored, data, rows, schema>>

-----------------------------------------------------------------------------
(* Application's loop, and Function for one entry. *)

Advance(d) ==
  /\ at' = [at EXCEPT ![d] = @ + 1]
  /\ DGoto(d, IF at[d] = Len(Manifest[d]) THEN "done" ELSE "entry")

SkipDisabled(d) ==
  /\ dpc[d] = "entry" /\ ~Entry(d).enabled
  /\ Advance(d)
  /\ UNCHANGED <<fd, stored, data, rows, schema>>

\* The source cannot be read, or the store cannot be written to.
SourceFails(d) ==
  /\ dpc[d] = "entry" /\ Entry(d).enabled
  /\ DGoto(d, "failed")
  /\ UNCHANGED <<at, fd, stored, data, rows, schema>>

\* O_CREATE and O_TRUNC: the file that is there already is emptied.
Truncate(d) ==
  LET f == IF stored[Content(d)] = None THEN <<d, at[d]>> ELSE stored[Content(d)] IN
  /\ dpc[d] = "entry" /\ Entry(d).enabled
  /\ stored' = [stored EXCEPT ![Content(d)] = f]
  /\ fd' = [fd EXCEPT ![d] = f]
  /\ data' = [data EXCEPT ![f] = {}]
  /\ DGoto(d, "first")
  /\ UNCHANGED <<at, rows, schema>>

WriteFirst(d) ==
  /\ dpc[d] = "first"
  /\ data' = [data EXCEPT ![fd[d]] = @ \cup {1}]
  /\ DGoto(d, "second")
  /\ UNCHANGED <<at, fd, stored, rows, schema>>

WriteSecond(d) ==
  /\ dpc[d] = "second"
  /\ data' = [data EXCEPT ![fd[d]] = @ \cup {2}]
  /\ DGoto(d, "validate")
  /\ UNCHANGED <<at, fd, stored, rows, schema>>

\* (slip) an error of the copy is ignored, as that of the validation is.
CarryOn(d) == DGoto(d, "validate")

Abort(d) == DGoto(d, "broken")

\* What was written stays in the store.
WriteFails(d) ==
  /\ dpc[d] \in {"first", "second"}
  /\ Abort(d)
  /\ UNCHANGED <<at, fd, stored, data, rows, schema>>

\* ValidateModule compiles the file and returns nil whatever the result.
Validate(d) ==
  /\ dpc[d] = "validate"
  /\ DGoto(d, "register")
  /\ UNCHANGED <<at, fd, stored, data, rows, schema>>

\* Its engine does not start: the path is removed, whoever else uses it.
ValidateFails(d) ==
  /\ dpc[d] = "validate"
  /\ stored' = [stored EXCEPT ![Content(d)] = None]
  /\ DGoto(d, "broken")
  /\ UNCHANGED <<at, fd, data, rows, schema>>

\* Name, route and domain are checked with the module already in the store.
\* Even then the registry may refuse.
RegisterFails(d) ==
  /\ dpc[d] = "register"
  /\ DGoto(d, "failed")
  /\ UNCHANGED <<at, fd, stored, data, rows, schema>>

\* SaveFunction: one transaction, in a database made ready by this process.
Save(d) ==
  /\ dpc[d] = "register" /\ Entry(d).wellFormed
  /\ rows' = [rows EXCEPT ![Entry(d).name] =
                [content |-> Content(d), route |-> RouteOf(Entry(d)), by |-> <<d, at[d]>>]]
  /\ schema' = "new"
  /\ Advance(d)
  /\ UNCHANGED <<fd, stored, data>>

-----------------------------------------------------------------------------
DeployStep(d) ==
  \/ Load(d) \/ SkipDisabled(d) \/ SourceFails(d) \/ Truncate(d) \/ WriteFirst(d)
  \/ WriteSecond(d) \/ WriteFails(d) \/ Validate(d) \/ ValidateFails(d)
  \/ RegisterFails(d) \/ Save(d)

Ended(d) == dpc[d] \in {"done", "failed", "broken"}

-----------------------------------------------------------------------------
(* Properties. *)

Registered == {n \in Names : rows[n] # None}

DTypeOK ==
  /\ dpc \in [Deployers -> {"start", "entry", "first", "second", "validate",
                            "register", "done", "failed", "broken"}]
  /\ \A d \in Deployers : at[d] \in 1..(Len(Manifest[d]) + 1)
  /\ fd \in [Deployers -> Files \cup {None}]
  /\ stored \in [Contents -> Files \cup {None}]
  /\ data \in [Files -> SUBSET Whole]
  /\ \A n \in Registered : rows[n] \in Rows
  /\ schema \in {"none", "old", "new"}
  /\ Registered # {} => schema # "none"

Intact(k) == stored[k] # None /\ data[stored[k]] = Whole

\* d is writing content k into the store, or gave up on it.
Disturbs(d, k) ==
  dpc[d] \in {"first", "second", "broken"} /\ Content(d) = k

\* The module of a registered function is in the store, whole; it is missing or
\* damaged only while another deployment of the same content is being written,
\* or because one failed (deploy.go:75-92). What it excepts is what the code does to a
\* function that is in use.
RegisteredIsStored ==
  \A n \in Registered :
    Intact(rows[n].content) \/ \E d \in Deployers : Disturbs(d, rows[n].content)

\* What a deployment has registered is exactly its enabled entries before the one
\* it is at, also when it failed there; another deployment of the name may have
\* replaced one since. A manifest that repeats a name or a route registers
\* nothing (manifest.go:55-88, 121-150).
ManifestIsPrefix ==
  \A d \in Deployers :
    /\ \A n \in Registered :
         rows[n].by[1] = d =>
           /\ rows[n].by[2] < at[d]
           /\ \A m \in Registered : m # n /\ rows[m].by[1] = d => rows[m].route # rows[n].route
    /\ \A i \in 1..(at[d] - 1) : LET e == Manifest[d][i] IN
         e.enabled => /\ e.name \in Registered
                      /\ rows[e.name].by[1] = d => rows[e.name].by[2] = i

\* executor.go:418: "ValidateModule compiles a Wasm module once to catch invalid
\* binaries during deploy".
OnlyValidModules == \A n \in Registered : rows[n].content \in Compilable
=============================================================================
