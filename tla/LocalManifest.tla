----------------------------- MODULE LocalManifest -----------------------------
(***************************************************************************)
(* The canonical manifest on the automation host and its two writers: the  *)
(* Python commands (configure writes the deployed hosts, teardown rewrites *)
(* what it reads as removed) and the Go utility (`inventory manifest       *)
(* mark-removed', on the Store of the service).  They share no lock.       *)
(* Python opens the file with write_bytes, which truncates it first; Go    *)
(* writes a temporary file and renames it.  Go loads an empty file as an   *)
(* empty registry, Python refuses it.                                      *)
(*                                                                         *)
(* `ideal' is the manifest as the commands would leave it one after        *)
(* another, each taking effect when it commits.                            *)
(***************************************************************************)
EXTENDS Naturals

CONSTANTS
    Hosts,      \* hostnames ever configured
    Addrs,      \* addresses a deployment may give
    NoAddr,     \* the empty address
    MaxPy,      \* bound: Python commands
    MaxGo       \* bound: runs of the utility

ManifestAssumption ==
    NoAddr \notin Addrs /\ Hosts # {} /\ MaxPy \in Nat /\ MaxGo \in Nat

Entry == [status: {"absent", "Deployed", "Removed"}, addr: Addrs \union {NoAddr}]
Absent == [status |-> "absent", addr |-> NoAddr]
Registry == [Hosts -> Entry]
NoRecords == [h \in Hosts |-> Absent]

VARIABLES
    kind,       \* the file at manifest_file: "missing", "empty" or "whole"
    recs,       \* its records, when whole
    diverted,   \* a rename replaced the file Python holds open
    pyPc, pyCmd, pyConf, pyMem, pyRuns,     \* the Python command: its configured hosts,
                                            \* what it will write
    goPc, goMem, goRuns,            \* the utility and what it will save
    ideal,      \* history: the serial outcome
    overlap,    \* history: the utility ran while a Python command did
    killed      \* history: a Python command was killed between truncation and write

fileVars == <<kind, recs, diverted>>
pyVars == <<pyPc, pyCmd, pyConf, pyMem, pyRuns>>
goVars == <<goPc, goMem, goRuns>>
history == <<ideal, overlap, killed>>
vars == <<fileVars, pyVars, goVars, history>>

Init ==
    /\ kind = "missing" /\ recs = NoRecords /\ diverted = FALSE
    /\ pyPc = "idle" /\ pyCmd = "configure" /\ pyConf = {} /\ pyMem = NoRecords /\ pyRuns = 0
    /\ goPc = "idle" /\ goMem = NoRecords /\ goRuns = 0
    /\ ideal = NoRecords /\ overlap = FALSE /\ killed = FALSE

-----------------------------------------------------------------------------
(* What the commands do to a registry. *)

\* build_records: every configured host, with the address it has now.
Deployed(conf, a) ==
    [h \in Hosts |-> IF h \in conf THEN [status |-> "Deployed", addr |-> a] ELSE Absent]

\* The utility marks what is recorded; the address stays.
MarkRemoved(r) ==
    [h \in Hosts |-> IF r[h].status = "absent" THEN r[h] ELSE [r[h] EXCEPT !.status = "Removed"]]

\* mark_manifest_removed also adds the configured hosts that are not recorded.
TornDown(r, conf) ==
    [h \in Hosts |-> IF r[h].status # "absent" \/ h \in conf
                     THEN [status |-> "Removed", addr |-> r[h].addr] ELSE Absent]

\* What Store.Load returns: no file and an empty file are an empty registry.
GoLoads == IF kind = "whole" THEN recs ELSE NoRecords

-----------------------------------------------------------------------------
(* The Python commands.  The set of configured hosts may change between    *)
(* two of them.                                                            *)

PyBegin(cmd, start, conf, mem) ==
    /\ pyPc = "idle"
    /\ pyRuns < MaxPy
    /\ pyRuns' = pyRuns + 1
    /\ pyCmd' = cmd /\ pyConf' = conf
    /\ pyPc' = start
    /\ pyMem' = mem
    /\ UNCHANGED <<fileVars, goVars, ideal, killed>>
    /\ overlap' = (overlap \/ (start # "idle" /\ goPc # "idle"))

\* The last step of configure.
Configure ==
    \E conf \in SUBSET Hosts \ {{}}, a \in Addrs :
        PyBegin("configure", "truncate", conf, Deployed(conf, a))

\* Mutant: the manifest is made from the configuration alone.
TeardownFresh ==
    \E conf \in SUBSET Hosts \ {{}} :
        /\ kind # "empty"
        /\ PyBegin("teardown", "truncate", conf, TornDown(NoRecords, conf))

\* The last step of teardown: a missing manifest has no records.
Teardown ==
    \E conf \in SUBSET Hosts \ {{}} :
        /\ kind # "empty"
        /\ PyBegin("teardown", "truncate", conf,
                   TornDown(IF kind = "whole" THEN recs ELSE NoRecords, conf))

\* An empty file is a DecryptionError, which cmd_teardown logs and forgets.
TeardownUnreadable ==
    /\ kind = "empty"
    /\ PyBegin("teardown", "idle", {}, NoRecords)

\* The file is opened for writing.
PyTruncate ==
    /\ pyPc = "truncate"
    /\ pyPc' = "write"
    /\ kind' = "empty" /\ recs' = NoRecords /\ diverted' = FALSE
    /\ UNCHANGED <<pyCmd, pyConf, pyMem, pyRuns, goVars, history>>

\* The bytes go to the file that was opened, wherever it is now.
PyWrite ==
    /\ pyPc = "write"
    /\ pyPc' = "idle"
    /\ IF diverted THEN UNCHANGED <<kind, recs>> ELSE kind' = "whole" /\ recs' = pyMem
    /\ diverted' = FALSE
    /\ ideal' = IF pyCmd = "configure" THEN pyMem
                ELSE TornDown(ideal, pyConf)
    /\ UNCHANGED <<pyCmd, pyConf, pyMem, pyRuns, goVars, overlap, killed>>

\* Ctrl-C, a crash, a full disk.
PyKilled ==
    /\ pyPc # "idle"
    /\ pyPc' = "idle"
    /\ killed' = (killed \/ pyPc = "write")
    /\ diverted' = FALSE
    /\ UNCHANGED <<kind, recs, pyCmd, pyConf, pyMem, pyRuns, goVars, ideal, overlap>>

Python == Configure \/ Teardown \/ TeardownUnreadable \/ PyTruncate \/ PyWrite \/ PyKilled

-----------------------------------------------------------------------------
(* The utility. *)

GoLoad ==
    /\ goPc = "idle"
    /\ goRuns < MaxGo
    /\ goRuns' = goRuns + 1
    /\ goPc' = "save"
    /\ goMem' = MarkRemoved(GoLoads)
    /\ overlap' = (overlap \/ pyPc # "idle")
    /\ UNCHANGED <<fileVars, pyVars, ideal, killed>>

\* Mutant: the datastore is rewritten in place and the utility may die halfway.
GoSaveInPlace ==
    /\ goPc = "save"
    /\ goPc' = "idle"
    /\ \/ kind' = "empty" /\ recs' = NoRecords /\ UNCHANGED ideal
       \/ kind' = "whole" /\ recs' = goMem /\ ideal' = MarkRemoved(ideal)
    /\ UNCHANGED <<diverted, pyVars, goMem, goRuns, overlap, killed>>

\* Store.Save: a temporary file, then a rename, which may come while Python has the
\* old file open.
GoSave ==
    /\ goPc = "save"
    /\ goPc' = "idle"
    /\ kind' = "whole" /\ recs' = goMem
    /\ diverted' = (pyPc = "write")
    /\ ideal' = MarkRemoved(ideal)
    /\ UNCHANGED <<pyVars, goMem, goRuns, overlap, killed>>

\* No temporary file, a rename refused (Windows, while Python has the file open), or the
\* utility killed before it.
GoSaveFails ==
    /\ goPc = "save"
    /\ goPc' = "idle"
    /\ UNCHANGED <<fileVars, pyVars, goMem, goRuns, history>>

Utility == GoLoad \/ GoSave \/ GoSaveFails

Next == Python \/ Utility

Spec == Init /\ [][Next]_vars

-----------------------------------------------------------------------------
(* Properties. *)

\* Every variable keeps its type.
TypeOK ==
    /\ kind \in {"missing", "empty", "whole"}
    /\ {recs, pyMem, goMem, ideal} \subseteq Registry
    /\ pyPc \in {"idle", "truncate", "write"} /\ pyCmd \in {"configure", "teardown"} /\ pyConf \subseteq Hosts
    /\ goPc \in {"idle", "save"}
    /\ pyRuns \in 0..MaxPy /\ goRuns \in 0..MaxGo
    /\ diverted \in BOOLEAN /\ overlap \in BOOLEAN /\ killed \in BOOLEAN

Quiet == ~overlap /\ ~killed

\* The audit trail: as long as no writer overlapped another and none died between
\* truncating and writing, the manifest is what the commands make of it one after
\* another: last-known addresses, hosts that left the configuration and all.
AuditTrailKept ==
    Quiet /\ kind # "empty" => GoLoads = ideal

\* An unreadable manifest at rest is the work of a killed Python writer: the utility
\* leaves none, whenever it runs and however it fails.
OnlyPythonTruncates ==
    pyPc = "idle" /\ kind = "empty" => killed

\* The manifest that can be read is the serial outcome, and only a killed Python
\* command leaves one that cannot.
ManifestKept == AuditTrailKept /\ OnlyPythonTruncates

\* While all is quiet, what the file holds is the serial outcome until Python truncates it,
\* and what a command will write is what it makes of the serial outcome.
QuietInv ==
    Quiet => /\ kind # "empty" => GoLoads = ideal
             /\ pyPc # "idle" /\ pyCmd = "teardown" => pyMem = TornDown(ideal, pyConf)
             /\ goPc = "save" => goMem = MarkRemoved(ideal)

\* Two writers at once are an overlap; only Python, writing or killed, leaves an empty file,
\* and the file that took the place of the one it writes is whole.
WritersInv ==
    /\ pyPc = "idle" \/ goPc = "idle" \/ overlap
    /\ kind = "empty" => pyPc = "write" \/ killed
    /\ diverted => pyPc = "write" /\ kind = "whole" /\ overlap

\* The inductive invariant.
IInv == TypeOK /\ QuietInv /\ WritersInv

-----------------------------------------------------------------------------
(* What the documentation says, and the code does not keep. *)

LastKnownKept == \A h \in Hosts : ideal[h].status # "absent" => recs[h].addr = ideal[h].addr

\* manifest.go: mark-removed "preserv[es] last-known addresses ... so the record can be
\* reconciled by hand if a teardown was interrupted".
ReconcilesInterrupted ==
    ~overlap /\ pyPc = "idle" /\ kind = "whole" => LastKnownKept

\* README.md: "Both lifecycle commands rewrite it, so it never goes stale".
NeverStale ==
    ~killed /\ pyPc = "idle" /\ kind = "whole" => LastKnownKept
================================================================================
