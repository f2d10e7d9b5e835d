-------------------------- MODULE Workstation_proofs --------------------------
(***************************************************************************)
(* Proofs about the components that run against the workstation's own      *)
(* files, for every value of the constants: the local manifest, the build  *)
(* of the service binary and the preflight checks.  Each section proves an *)
(* inductive invariant (IInv of the component's module) and from it the    *)
(* properties the Workstation run checks.                                  *)
(***************************************************************************)
EXTENDS WorkstationSetup_proofs, SequenceTheorems, TLAPS

-----------------------------------------------------------------------------
(* The local manifest. *)

\* What the commands make of a registry is a registry.
LEMMA ManifestCommandTypes ==
    ASSUME NEW r \in Manifest!Registry, NEW conf \in SUBSET Hosts, NEW a \in Addrs
    PROVE  /\ Manifest!NoRecords \in Manifest!Registry
           /\ Manifest!Deployed(conf, a) \in Manifest!Registry
           /\ Manifest!MarkRemoved(r) \in Manifest!Registry
           /\ Manifest!TornDown(r, conf) \in Manifest!Registry
BY DEF Manifest!Registry, Manifest!Entry, Manifest!NoRecords, Manifest!Absent, Manifest!Deployed,
   Manifest!MarkRemoved, Manifest!TornDown

\* An empty registry is a registry.
LEMMA ManifestNoRecords == Manifest!NoRecords \in Manifest!Registry
BY DEF Manifest!Registry, Manifest!Entry, Manifest!NoRecords, Manifest!Absent

\* The initial state satisfies the invariant.
LEMMA ManifestInitInv == Manifest!Init => Manifest!IInv
<1> SUFFICES ASSUME Manifest!Init PROVE Manifest!IInv
  OBVIOUS
<1>1. Manifest!TypeOK
  <2>1. {recs, pyMem, goMem, ideal} \subseteq Manifest!Registry
    BY ManifestNoRecords DEF Manifest!Init
  <2>2. pyRuns \in 0..MaxPy /\ goRuns \in 0..MaxGo
    BY ManifestHolds DEF Manifest!Init, Manifest!ManifestAssumption
  <2> QED
    BY <2>1, <2>2 DEF Manifest!Init, Manifest!TypeOK
<1>2. Manifest!QuietInv
  BY DEF Manifest!Init, Manifest!QuietInv, Manifest!GoLoads
<1>3. Manifest!WritersInv
  BY DEF Manifest!Init, Manifest!WritersInv
<1> QED
  BY <1>1, <1>2, <1>3 DEF Manifest!IInv

\* Every step keeps the types.
LEMMA ManifestTypeStep == Manifest!IInv /\ [Manifest!Next]_Manifest!vars => Manifest!TypeOK'
<1> SUFFICES ASSUME Manifest!IInv, [Manifest!Next]_Manifest!vars PROVE Manifest!TypeOK'
  OBVIOUS
<1> USE ManifestHolds DEF Manifest!ManifestAssumption, Manifest!IInv, Manifest!TypeOK,
   Manifest!fileVars, Manifest!pyVars, Manifest!goVars, Manifest!history
<1>1. CASE Manifest!Configure
  <2>1. PICK conf \in SUBSET Hosts \ {{}}, a \in Addrs :
            Manifest!PyBegin("configure", "truncate", conf, Manifest!Deployed(conf, a))
    BY <1>1 DEF Manifest!Configure
  <2>2. Manifest!Deployed(conf, a) \in Manifest!Registry
    BY ManifestNoRecords, ManifestCommandTypes
  <2> QED
    BY <2>1, <2>2 DEF Manifest!PyBegin
<1>2. CASE Manifest!Teardown
  <2> DEFINE old == IF kind = "whole" THEN recs ELSE Manifest!NoRecords
  <2>1. PICK conf \in SUBSET Hosts \ {{}} :
            Manifest!PyBegin("teardown", "truncate", conf, Manifest!TornDown(old, conf))
    BY <1>2 DEF Manifest!Teardown
  <2>2. old \in Manifest!Registry
    BY ManifestNoRecords
  <2>3. Manifest!TornDown(old, conf) \in Manifest!Registry
    BY <2>2 DEF Manifest!TornDown, Manifest!Registry, Manifest!Entry, Manifest!Absent
  <2> QED
    BY <2>1, <2>3 DEF Manifest!PyBegin
<1>3. CASE Manifest!TeardownUnreadable
  BY <1>3, ManifestNoRecords DEF Manifest!TeardownUnreadable, Manifest!PyBegin
<1>4. CASE Manifest!PyTruncate
  BY <1>4, ManifestNoRecords DEF Manifest!PyTruncate
<1>5. CASE Manifest!PyWrite
  <2>1. Manifest!TornDown(ideal, pyConf) \in Manifest!Registry
    BY DEF Manifest!TornDown, Manifest!Registry, Manifest!Entry, Manifest!Absent
  <2> QED
    BY <1>5, <2>1 DEF Manifest!PyWrite
<1>6. CASE Manifest!PyKilled
  BY <1>6 DEF Manifest!PyKilled
<1>7. CASE Manifest!GoLoad
  <2>1. Manifest!GoLoads \in Manifest!Registry
    BY ManifestNoRecords DEF Manifest!GoLoads
  <2>2. Manifest!MarkRemoved(Manifest!GoLoads) \in Manifest!Registry
    BY <2>1 DEF Manifest!MarkRemoved, Manifest!Registry, Manifest!Entry
  <2> QED
    BY <1>7, <2>2 DEF Manifest!GoLoad
<1>8. CASE Manifest!GoSave
  <2>1. Manifest!MarkRemoved(ideal) \in Manifest!Registry
    BY DEF Manifest!MarkRemoved, Manifest!Registry, Manifest!Entry
  <2> QED
    BY <1>8, <2>1 DEF Manifest!GoSave
<1>9. CASE Manifest!GoSaveFails
  BY <1>9 DEF Manifest!GoSaveFails
<1>10. CASE UNCHANGED Manifest!vars
  BY <1>10 DEF Manifest!vars
<1> HIDE DEF Manifest!IInv, Manifest!TypeOK, Manifest!QuietInv, Manifest!Quiet,
   Manifest!WritersInv
<1> QED
  BY <1>1, <1>2, <1>3, <1>4, <1>5, <1>6, <1>7, <1>8, <1>9, <1>10 DEF Manifest!Next,
     Manifest!Python, Manifest!Utility

\* Every step keeps what is known of overlapping writers and of a file that is empty or diverted.
LEMMA ManifestWritersStep ==
    Manifest!IInv /\ [Manifest!Next]_Manifest!vars => Manifest!WritersInv'
<1> SUFFICES ASSUME Manifest!IInv, [Manifest!Next]_Manifest!vars PROVE Manifest!WritersInv'
  OBVIOUS
<1> USE DEF Manifest!IInv, Manifest!TypeOK, Manifest!QuietInv, Manifest!Quiet,
   Manifest!WritersInv, Manifest!fileVars, Manifest!pyVars, Manifest!goVars, Manifest!history
<1>1. CASE Manifest!Configure
  <2>1. /\ pyPc = "idle" /\ pyPc' = "truncate"
        /\ UNCHANGED <<Manifest!fileVars, Manifest!goVars, killed>>
        /\ (overlap' <=> overlap \/ goPc # "idle")
    BY <1>1 DEF Manifest!Configure, Manifest!PyBegin
  <2> QED
    BY <2>1
<1>2. CASE Manifest!Teardown
  <2>1. /\ pyPc = "idle" /\ pyPc' = "truncate"
        /\ UNCHANGED <<Manifest!fileVars, Manifest!goVars, killed>>
        /\ (overlap' <=> overlap \/ goPc # "idle")
    BY <1>2 DEF Manifest!Teardown, Manifest!PyBegin
  <2> QED
    BY <2>1
<1>3. CASE Manifest!TeardownUnreadable
  BY <1>3 DEF Manifest!TeardownUnreadable, Manifest!PyBegin
<1>4. CASE Manifest!PyTruncate
  BY <1>4 DEF Manifest!PyTruncate
<1>5. CASE Manifest!PyWrite
  BY <1>5 DEF Manifest!PyWrite
<1>6. CASE Manifest!PyKilled
  BY <1>6 DEF Manifest!PyKilled
<1>7. CASE Manifest!GoLoad
  BY <1>7 DEF Manifest!GoLoad
<1>8. CASE Manifest!GoSave
  BY <1>8 DEF Manifest!GoSave
<1>9. CASE Manifest!GoSaveFails
  BY <1>9 DEF Manifest!GoSaveFails
<1>10. CASE UNCHANGED Manifest!vars
  BY <1>10 DEF Manifest!vars
<1> HIDE DEF Manifest!IInv, Manifest!TypeOK, Manifest!QuietInv, Manifest!Quiet,
   Manifest!WritersInv
<1> QED
  BY <1>1, <1>2, <1>3, <1>4, <1>5, <1>6, <1>7, <1>8, <1>9, <1>10 DEF Manifest!Next,
     Manifest!Python, Manifest!Utility

\* Every step keeps the file, and what a command will write, in agreement with the serial outcome.
LEMMA ManifestQuietStep == Manifest!IInv /\ [Manifest!Next]_Manifest!vars => Manifest!QuietInv'
<1> SUFFICES ASSUME Manifest!IInv, [Manifest!Next]_Manifest!vars PROVE Manifest!QuietInv'
  OBVIOUS
<1> USE DEF Manifest!IInv, Manifest!TypeOK, Manifest!QuietInv, Manifest!Quiet,
   Manifest!WritersInv, Manifest!GoLoads, Manifest!fileVars, Manifest!pyVars, Manifest!goVars,
   Manifest!history
<1>1. CASE Manifest!Configure
  <2>1. PICK conf \in SUBSET Hosts \ {{}}, a \in Addrs :
            Manifest!PyBegin("configure", "truncate", conf, Manifest!Deployed(conf, a))
    BY <1>1 DEF Manifest!Configure
  <2>2. pyPc = "idle" /\ pyPc' = "truncate" /\ pyCmd' = "configure"
        /\ UNCHANGED <<Manifest!fileVars, Manifest!goVars, ideal, killed>>
        /\ (overlap' <=> overlap \/ goPc # "idle")
    BY <2>1 DEF Manifest!PyBegin
  <2> QED
    BY <2>2
<1>2. CASE Manifest!Teardown
  <2>1. PICK conf \in SUBSET Hosts \ {{}} :
            /\ kind # "empty"
            /\ Manifest!PyBegin("teardown", "truncate", conf,
                       Manifest!TornDown(IF kind = "whole" THEN recs ELSE Manifest!NoRecords, conf))
    BY <1>2 DEF Manifest!Teardown
  <2>2. /\ kind # "empty" /\ pyPc = "idle" /\ pyPc' = "truncate" /\ pyConf' = conf
        /\ pyMem' = Manifest!TornDown(Manifest!GoLoads, conf)
        /\ UNCHANGED <<Manifest!fileVars, Manifest!goVars, ideal, killed>>
        /\ (overlap' <=> overlap \/ goPc # "idle")
    BY <2>1 DEF Manifest!PyBegin
  <2> QED
    BY <2>2
<1>3. CASE Manifest!TeardownUnreadable
  BY <1>3 DEF Manifest!TeardownUnreadable, Manifest!PyBegin
<1>4. CASE Manifest!PyTruncate
  BY <1>4 DEF Manifest!PyTruncate
<1>5. CASE Manifest!PyWrite
  BY <1>5 DEF Manifest!PyWrite
<1>6. CASE Manifest!PyKilled
  BY <1>6 DEF Manifest!PyKilled
<1>7. CASE Manifest!GoLoad
  BY <1>7 DEF Manifest!GoLoad
<1>8. CASE Manifest!GoSave
  BY <1>8 DEF Manifest!GoSave
<1>9. CASE Manifest!GoSaveFails
  BY <1>9 DEF Manifest!GoSaveFails
<1>10. CASE UNCHANGED Manifest!vars
  BY <1>10 DEF Manifest!vars
<1> HIDE DEF Manifest!IInv, Manifest!TypeOK, Manifest!QuietInv, Manifest!Quiet,
   Manifest!WritersInv
<1> QED
  BY <1>1, <1>2, <1>3, <1>4, <1>5, <1>6, <1>7, <1>8, <1>9, <1>10 DEF Manifest!Next,
     Manifest!Python, Manifest!Utility

\* The invariant is inductive.
THEOREM ManifestInductive == Manifest!Spec => []Manifest!IInv
<1>1. Manifest!Init => Manifest!IInv
  BY ManifestInitInv
<1>2. Manifest!IInv /\ [Manifest!Next]_Manifest!vars => Manifest!IInv'
  BY ManifestTypeStep, ManifestWritersStep, ManifestQuietStep DEF Manifest!IInv
<1> QED
  BY <1>1, <1>2, PTL DEF Manifest!Spec

\* The manifest's variables keep their types, for any hosts and any number of commands.
THEOREM ManifestTypeCorrect == Manifest!Spec => []Manifest!TypeOK
<1>1. Manifest!IInv => Manifest!TypeOK
  BY DEF Manifest!IInv
<1>2. Manifest!Spec => []Manifest!IInv
  BY ManifestInductive
<1> QED
  BY <1>1, <1>2, PTL

\* The manifest that write_bytes and Store.Save leave is the serial outcome of the commands as
\* long as no two writers overlap and none dies in its write, and one that cannot be read is the
\* work of a Python command killed in write_bytes.
THEOREM AuditTrail == Manifest!Spec => []Manifest!ManifestKept
<1>1. Manifest!IInv => Manifest!ManifestKept
  BY DEF Manifest!IInv, Manifest!QuietInv, Manifest!WritersInv, Manifest!ManifestKept,
     Manifest!AuditTrailKept, Manifest!OnlyPythonTruncates
<1>2. Manifest!Spec => []Manifest!IInv
  BY ManifestInductive
<1> QED
  BY <1>1, <1>2, PTL


-----------------------------------------------------------------------------
(* The service binary. *)

\* One fingerprint, or none, is what is recorded.
LEMMA BinaryRecorded ==
    /\ {} \in Binary!Recorded
    /\ \A s \in Binary!Sources : {s} \in Binary!Recorded
BY DEF Binary!Recorded

\* The initial state satisfies the invariant.
LEMMA BinaryInitInv == Binary!Init => Binary!IInv
<1> SUFFICES ASSUME Binary!Init PROVE Binary!IInv
  OBVIOUS
<1>1. Binary!TypeOK
  <2>1. edits \in 0..MaxEdits /\ runs \in 0..BinaryMax /\ up \in 0..NFiles
    BY BinaryHolds DEF Binary!Init, Binary!BinaryAssumption
  <2>2. bin \in Binary!Recorded /\ stamp \in Binary!Recorded /\ pc \in Binary!Pcs
    BY BinaryRecorded DEF Binary!Init, Binary!Pcs
  <2>3. link \in BOOLEAN /\ edited \in BOOLEAN /\ torn \in BOOLEAN /\ fault \in BOOLEAN
    BY DEF Binary!Init
  <2> QED
    BY <2>1, <2>2, <2>3 DEF Binary!Init, Binary!TypeOK
<1>2. Binary!ToolchainInv /\ Binary!SourcesInv /\ Binary!SuccessMeansCurrent
  BY DEF Binary!Init, Binary!ToolchainInv, Binary!SourcesInv, Binary!SuccessMeansCurrent
<1> QED
  BY <1>1, <1>2 DEF Binary!IInv

\* Every step keeps the types.
LEMMA BinaryTypeStep == Binary!IInv /\ [Binary!Next]_Binary!vars => Binary!TypeOK'
<1> SUFFICES ASSUME Binary!IInv, [Binary!Next]_Binary!vars PROVE Binary!TypeOK'
  OBVIOUS
<1> USE BinaryHolds DEF Binary!BinaryAssumption, Binary!IInv, Binary!TypeOK, Binary!Pcs,
   Binary!ReadPcs, Binary!GoPcs, Binary!BuildPcs, Binary!tree, Binary!toolchain, Binary!build,
   Binary!installed, Binary!control
<1>1. CASE Binary!PrepareTemplate
  <2>1. edited' \in BOOLEAN /\ fault' \in BOOLEAN
    BY <1>1 DEF Binary!PrepareTemplate, Binary!Begin
  <2> QED
    BY <1>1, <2>1 DEF Binary!PrepareTemplate, Binary!Begin
<1>2. CASE Binary!EnsureServiceBinary
  <2>1. edited' \in BOOLEAN /\ fault' \in BOOLEAN
    BY <1>2 DEF Binary!EnsureServiceBinary, Binary!Begin
  <2> QED
    BY <1>2, <2>1 DEF Binary!EnsureServiceBinary, Binary!Begin
<1>3. CASE Binary!Edit
  <2>1. PICK f \in Binary!Files, v \in Versions : src' = [src EXCEPT ![f] = v]
    BY <1>3 DEF Binary!Edit
  <2>2. src' \in Binary!Sources
    BY <2>1 DEF Binary!Sources
  <2> QED
    BY <1>3, <2>2 DEF Binary!Edit
<1>4. CASE Binary!ReadHash
  BY <1>4 DEF Binary!ReadHash, Binary!Answer, Binary!Goto
<1>5. CASE Binary!ReadHashRaises
  BY <1>5 DEF Binary!ReadHashRaises, Binary!NoAnswer, Binary!Raise
<1>6. CASE Binary!TestBinary
  BY <1>6 DEF Binary!TestBinary, Binary!Answer, Binary!Goto
<1>7. CASE Binary!TestBinaryRaises
  BY <1>7 DEF Binary!TestBinaryRaises, Binary!NoAnswer, Binary!Raise
<1>8. CASE Binary!SkipCompile
  BY <1>8 DEF Binary!SkipCompile, Binary!Finish
<1>9. CASE Binary!GoPresent
  BY <1>9 DEF Binary!GoPresent, Binary!OnToolchain, Binary!Goto
<1>10. CASE Binary!GoAbsent
  BY <1>10 DEF Binary!GoAbsent, Binary!OnToolchain, Binary!Goto
<1>11. CASE Binary!CacheHit
  BY <1>11 DEF Binary!CacheHit, Binary!OnToolchain, Binary!Goto
<1>12. CASE Binary!DownloadStarts
  BY <1>12 DEF Binary!DownloadStarts, Binary!OnToolchain, Binary!Goto
<1>13. CASE Binary!DownloadEnds
  BY <1>13 DEF Binary!DownloadEnds, Binary!OnToolchain, Binary!Goto
<1>14. CASE Binary!HostVerified
  BY <1>14 DEF Binary!HostVerified, Binary!OnToolchain, Binary!Goto
<1>15. CASE Binary!HostRejects
  BY <1>15 DEF Binary!HostRejects, Binary!ToolchainFails, Binary!Raise
<1>16. CASE Binary!Upload
  BY <1>16 DEF Binary!Upload, Binary!OnToolchain, Binary!Goto
<1>17. CASE Binary!GuestVerified
  BY <1>17 DEF Binary!GuestVerified, Binary!OnToolchain, Binary!Goto
<1>18. CASE Binary!GuestRejects
  BY <1>18 DEF Binary!GuestRejects, Binary!ToolchainFails, Binary!Raise
<1>19. CASE Binary!RemoveGo
  BY <1>19 DEF Binary!RemoveGo, Binary!OnToolchain, Binary!Goto
<1>20. CASE Binary!Untar
  BY <1>20 DEF Binary!Untar, Binary!OnToolchain, Binary!Goto
<1>21. CASE Binary!UntarFails
  BY <1>21 DEF Binary!UntarFails, Binary!ToolchainFails, Binary!Raise
<1>22. CASE Binary!LinkGo
  BY <1>22 DEF Binary!LinkGo, Binary!OnToolchain, Binary!Goto
<1>23. CASE Binary!GoVerified
  BY <1>23 DEF Binary!GoVerified, Binary!OnToolchain, Binary!Goto
<1>24. CASE Binary!Stage
  BY <1>24 DEF Binary!Stage, Binary!Goto
<1>25. CASE Binary!PutFile
  <2>1. up + 1 \in Binary!Files
    BY <1>25 DEF Binary!PutFile, Binary!Goto, Binary!SourcesInv, Binary!Files
  <2>2. staged' \in Binary!Sources
    BY <1>25, <2>1 DEF Binary!PutFile, Binary!Sources
  <2>3. up' \in 0..NFiles
    BY <1>25, <2>1 DEF Binary!PutFile, Binary!Files
  <2> QED
    BY <1>25, <2>2, <2>3 DEF Binary!PutFile, Binary!Goto
<1>26. CASE Binary!Compile
  BY <1>26 DEF Binary!Compile, Binary!Goto
<1>27. CASE Binary!CompileFails
  BY <1>27 DEF Binary!CompileFails, Binary!Raise
<1>28. CASE Binary!Install
  BY <1>28, BinaryRecorded DEF Binary!Install, Binary!Goto
<1>29. CASE Binary!Stamp
  BY <1>29, BinaryRecorded DEF Binary!Stamp, Binary!Finish
<1>30. CASE Binary!StepRaises
  BY <1>30 DEF Binary!StepRaises, Binary!Raise
<1>31. CASE Binary!Killed
  BY <1>31 DEF Binary!Killed
<1>32. CASE UNCHANGED Binary!vars
  BY <1>32 DEF Binary!vars
<1> HIDE DEF Binary!IInv, Binary!TypeOK, Binary!Pcs, Binary!ReadPcs, Binary!GoPcs,
   Binary!BuildPcs, Binary!tree, Binary!toolchain, Binary!build, Binary!installed, Binary!control
<1> QED
  BY <1>1, <1>2, <1>3, <1>4, <1>5, <1>6, <1>7, <1>8, <1>9, <1>10, <1>11, <1>12, <1>13, <1>14,
     <1>15, <1>16, <1>17, <1>18, <1>19, <1>20, <1>21, <1>22, <1>23, <1>24, <1>25, <1>26, <1>27,
     <1>28, <1>29, <1>30, <1>31, <1>32 DEF Binary!Next, Binary!Decide, Binary!InstallGo,
     Binary!BuildService

\* Every step keeps an unverified archive off the guest.
LEMMA BinaryToolchainStep == Binary!IInv /\ [Binary!Next]_Binary!vars => Binary!ToolchainInv'
<1> SUFFICES ASSUME Binary!IInv, [Binary!Next]_Binary!vars PROVE Binary!ToolchainInv'
  OBVIOUS
<1> USE DEF Binary!IInv, Binary!TypeOK, Binary!ToolchainInv, Binary!tree, Binary!toolchain,
   Binary!build, Binary!installed, Binary!control
<1>1. CASE Binary!PrepareTemplate
  BY <1>1 DEF Binary!PrepareTemplate, Binary!Begin
<1>2. CASE Binary!EnsureServiceBinary
  BY <1>2 DEF Binary!EnsureServiceBinary, Binary!Begin
<1>3. CASE Binary!Edit
  BY <1>3 DEF Binary!Edit
<1>4. CASE Binary!ReadHash
  BY <1>4 DEF Binary!ReadHash, Binary!Answer, Binary!Goto
<1>5. CASE Binary!ReadHashRaises
  BY <1>5 DEF Binary!ReadHashRaises, Binary!NoAnswer, Binary!Raise
<1>6. CASE Binary!TestBinary
  BY <1>6 DEF Binary!TestBinary, Binary!Answer, Binary!Goto
<1>7. CASE Binary!TestBinaryRaises
  BY <1>7 DEF Binary!TestBinaryRaises, Binary!NoAnswer, Binary!Raise
<1>8. CASE Binary!SkipCompile
  BY <1>8 DEF Binary!SkipCompile, Binary!Finish
<1>9. CASE Binary!GoPresent
  BY <1>9 DEF Binary!GoPresent, Binary!OnToolchain, Binary!Goto
<1>10. CASE Binary!GoAbsent
  BY <1>10 DEF Binary!GoAbsent, Binary!OnToolchain, Binary!Goto
<1>11. CASE Binary!CacheHit
  BY <1>11 DEF Binary!CacheHit, Binary!OnToolchain, Binary!Goto
<1>12. CASE Binary!DownloadStarts
  BY <1>12 DEF Binary!DownloadStarts, Binary!OnToolchain, Binary!Goto
<1>13. CASE Binary!DownloadEnds
  BY <1>13 DEF Binary!DownloadEnds, Binary!OnToolchain, Binary!Goto
<1>14. CASE Binary!HostVerified
  BY <1>14 DEF Binary!HostVerified, Binary!OnToolchain, Binary!Goto
<1>15. CASE Binary!HostRejects
  BY <1>15 DEF Binary!HostRejects, Binary!ToolchainFails, Binary!Raise
<1>16. CASE Binary!Upload
  BY <1>16 DEF Binary!Upload, Binary!OnToolchain, Binary!Goto
<1>17. CASE Binary!GuestVerified
  BY <1>17 DEF Binary!GuestVerified, Binary!OnToolchain, Binary!Goto
<1>18. CASE Binary!GuestRejects
  BY <1>18 DEF Binary!GuestRejects, Binary!ToolchainFails, Binary!Raise
<1>19. CASE Binary!RemoveGo
  BY <1>19 DEF Binary!RemoveGo, Binary!OnToolchain, Binary!Goto
<1>20. CASE Binary!Untar
  BY <1>20 DEF Binary!Untar, Binary!OnToolchain, Binary!Goto
<1>21. CASE Binary!UntarFails
  BY <1>21 DEF Binary!UntarFails, Binary!ToolchainFails, Binary!Raise
<1>22. CASE Binary!LinkGo
  BY <1>22 DEF Binary!LinkGo, Binary!OnToolchain, Binary!Goto
<1>23. CASE Binary!GoVerified
  BY <1>23 DEF Binary!GoVerified, Binary!OnToolchain, Binary!Goto
<1>24. CASE Binary!Stage
  BY <1>24 DEF Binary!Stage, Binary!Goto
<1>25. CASE Binary!PutFile
  BY <1>25 DEF Binary!PutFile, Binary!Goto
<1>26. CASE Binary!Compile
  BY <1>26 DEF Binary!Compile, Binary!Goto
<1>27. CASE Binary!CompileFails
  BY <1>27 DEF Binary!CompileFails, Binary!Raise
<1>28. CASE Binary!Install
  BY <1>28 DEF Binary!Install, Binary!Goto
<1>29. CASE Binary!Stamp
  BY <1>29 DEF Binary!Stamp, Binary!Finish
<1>30. CASE Binary!StepRaises
  BY <1>30 DEF Binary!StepRaises, Binary!Raise
<1>31. CASE Binary!Killed
  BY <1>31 DEF Binary!Killed
<1>32. CASE UNCHANGED Binary!vars
  BY <1>32 DEF Binary!vars
<1> HIDE DEF Binary!IInv, Binary!TypeOK, Binary!ToolchainInv, Binary!tree, Binary!toolchain,
   Binary!build, Binary!installed, Binary!control
<1> QED
  BY <1>1, <1>2, <1>3, <1>4, <1>5, <1>6, <1>7, <1>8, <1>9, <1>10, <1>11, <1>12, <1>13, <1>14,
     <1>15, <1>16, <1>17, <1>18, <1>19, <1>20, <1>21, <1>22, <1>23, <1>24, <1>25, <1>26, <1>27,
     <1>28, <1>29, <1>30, <1>31, <1>32 DEF Binary!Next, Binary!Decide, Binary!InstallGo,
     Binary!BuildService

\* Every step keeps sources, staged files, binary and fingerprint in agreement.
LEMMA BinarySourcesStep == Binary!IInv /\ [Binary!Next]_Binary!vars => Binary!SourcesInv'
<1> SUFFICES ASSUME Binary!IInv, [Binary!Next]_Binary!vars PROVE Binary!SourcesInv'
  OBVIOUS
<1> USE BinaryHolds DEF Binary!BinaryAssumption, Binary!IInv, Binary!TypeOK, Binary!SourcesInv,
   Binary!tree, Binary!toolchain, Binary!build, Binary!installed, Binary!control
<1>1. CASE Binary!PrepareTemplate
  BY <1>1 DEF Binary!PrepareTemplate, Binary!Begin
<1>2. CASE Binary!EnsureServiceBinary
  BY <1>2 DEF Binary!EnsureServiceBinary, Binary!Begin
<1>3. CASE Binary!Edit
  BY <1>3 DEF Binary!Edit
<1>4. CASE Binary!ReadHash
  BY <1>4 DEF Binary!ReadHash, Binary!Answer, Binary!Goto
<1>5. CASE Binary!ReadHashRaises
  BY <1>5 DEF Binary!ReadHashRaises, Binary!NoAnswer, Binary!Raise
<1>6. CASE Binary!TestBinary
  BY <1>6 DEF Binary!TestBinary, Binary!Answer, Binary!Goto
<1>7. CASE Binary!TestBinaryRaises
  BY <1>7 DEF Binary!TestBinaryRaises, Binary!NoAnswer, Binary!Raise
<1>8. CASE Binary!SkipCompile
  BY <1>8 DEF Binary!SkipCompile, Binary!Finish
<1>9. CASE Binary!GoPresent
  BY <1>9 DEF Binary!GoPresent, Binary!OnToolchain, Binary!Goto
<1>10. CASE Binary!GoAbsent
  BY <1>10 DEF Binary!GoAbsent, Binary!OnToolchain, Binary!Goto
<1>11. CASE Binary!CacheHit
  BY <1>11 DEF Binary!CacheHit, Binary!OnToolchain, Binary!Goto
<1>12. CASE Binary!DownloadStarts
  BY <1>12 DEF Binary!DownloadStarts, Binary!OnToolchain, Binary!Goto
<1>13. CASE Binary!DownloadEnds
  BY <1>13 DEF Binary!DownloadEnds, Binary!OnToolchain, Binary!Goto
<1>14. CASE Binary!HostVerified
  BY <1>14 DEF Binary!HostVerified, Binary!OnToolchain, Binary!Goto
<1>15. CASE Binary!HostRejects
  BY <1>15 DEF Binary!HostRejects, Binary!ToolchainFails, Binary!Raise
<1>16. CASE Binary!Upload
  BY <1>16 DEF Binary!Upload, Binary!OnToolchain, Binary!Goto
<1>17. CASE Binary!GuestVerified
  BY <1>17 DEF Binary!GuestVerified, Binary!OnToolchain, Binary!Goto
<1>18. CASE Binary!GuestRejects
  BY <1>18 DEF Binary!GuestRejects, Binary!ToolchainFails, Binary!Raise
<1>19. CASE Binary!RemoveGo
  BY <1>19 DEF Binary!RemoveGo, Binary!OnToolchain, Binary!Goto
<1>20. CASE Binary!Untar
  BY <1>20 DEF Binary!Untar, Binary!OnToolchain, Binary!Goto
<1>21. CASE Binary!UntarFails
  BY <1>21 DEF Binary!UntarFails, Binary!ToolchainFails, Binary!Raise
<1>22. CASE Binary!LinkGo
  BY <1>22 DEF Binary!LinkGo, Binary!OnToolchain, Binary!Goto
<1>23. CASE Binary!GoVerified
  BY <1>23 DEF Binary!GoVerified, Binary!OnToolchain, Binary!Goto
<1>24. CASE Binary!Stage
  BY <1>24 DEF Binary!Stage, Binary!Goto
<1>25. CASE Binary!PutFile
  <2>1. /\ pc = "put" /\ up \in 0..NFiles /\ up < NFiles /\ up' = up + 1
        /\ staged' = [staged EXCEPT ![up + 1] = src[up + 1]]
        /\ pc' = IF up + 1 = NFiles THEN "compile" ELSE "put"
        /\ UNCHANGED <<src, wanted, edited, bin, stamp, torn>>
    BY <1>25 DEF Binary!PutFile, Binary!Goto
  <2>2. ~edited => \A f \in 1..(up + 1) : staged'[f] = src[f]
    BY <2>1 DEF Binary!Sources, Binary!Files
  <2>3. ~edited /\ up + 1 = NFiles => staged' = src
    BY <2>1, <2>2 DEF Binary!Sources, Binary!Files
  <2> QED
    BY <2>1, <2>2, <2>3
<1>26. CASE Binary!Compile
  BY <1>26 DEF Binary!Compile, Binary!Goto
<1>27. CASE Binary!CompileFails
  BY <1>27 DEF Binary!CompileFails, Binary!Raise
<1>28. CASE Binary!Install
  BY <1>28 DEF Binary!Install, Binary!Goto
<1>29. CASE Binary!Stamp
  BY <1>29 DEF Binary!Stamp, Binary!Finish
<1>30. CASE Binary!StepRaises
  BY <1>30 DEF Binary!StepRaises, Binary!Raise
<1>31. CASE Binary!Killed
  BY <1>31 DEF Binary!Killed
<1>32. CASE UNCHANGED Binary!vars
  BY <1>32 DEF Binary!vars
<1> HIDE DEF Binary!IInv, Binary!TypeOK, Binary!SourcesInv, Binary!tree, Binary!toolchain,
   Binary!build, Binary!installed, Binary!control
<1> QED
  BY <1>1, <1>2, <1>3, <1>4, <1>5, <1>6, <1>7, <1>8, <1>9, <1>10, <1>11, <1>12, <1>13, <1>14,
     <1>15, <1>16, <1>17, <1>18, <1>19, <1>20, <1>21, <1>22, <1>23, <1>24, <1>25, <1>26, <1>27,
     <1>28, <1>29, <1>30, <1>31, <1>32 DEF Binary!Next, Binary!Decide, Binary!InstallGo,
     Binary!BuildService

\* Every step that returns leaves the binary of the sources.
LEMMA BinarySuccessStep == Binary!IInv /\ [Binary!Next]_Binary!vars => Binary!SuccessMeansCurrent'
<1> SUFFICES ASSUME Binary!IInv, [Binary!Next]_Binary!vars PROVE Binary!SuccessMeansCurrent'
  OBVIOUS
<1> USE DEF Binary!IInv, Binary!TypeOK, Binary!SourcesInv, Binary!SuccessMeansCurrent,
   Binary!tree, Binary!toolchain, Binary!build, Binary!installed, Binary!control
<1>1. CASE Binary!PrepareTemplate
  BY <1>1 DEF Binary!PrepareTemplate, Binary!Begin
<1>2. CASE Binary!EnsureServiceBinary
  BY <1>2 DEF Binary!EnsureServiceBinary, Binary!Begin
<1>3. CASE Binary!Edit
  BY <1>3 DEF Binary!Edit
<1>4. CASE Binary!ReadHash
  BY <1>4 DEF Binary!ReadHash, Binary!Answer, Binary!Goto
<1>5. CASE Binary!ReadHashRaises
  BY <1>5 DEF Binary!ReadHashRaises, Binary!NoAnswer, Binary!Raise
<1>6. CASE Binary!TestBinary
  BY <1>6 DEF Binary!TestBinary, Binary!Answer, Binary!Goto
<1>7. CASE Binary!TestBinaryRaises
  BY <1>7 DEF Binary!TestBinaryRaises, Binary!NoAnswer, Binary!Raise
<1>8. CASE Binary!SkipCompile
  BY <1>8 DEF Binary!SkipCompile, Binary!Finish, Binary!Current
<1>9. CASE Binary!GoPresent
  BY <1>9 DEF Binary!GoPresent, Binary!OnToolchain, Binary!Goto
<1>10. CASE Binary!GoAbsent
  BY <1>10 DEF Binary!GoAbsent, Binary!OnToolchain, Binary!Goto
<1>11. CASE Binary!CacheHit
  BY <1>11 DEF Binary!CacheHit, Binary!OnToolchain, Binary!Goto
<1>12. CASE Binary!DownloadStarts
  BY <1>12 DEF Binary!DownloadStarts, Binary!OnToolchain, Binary!Goto
<1>13. CASE Binary!DownloadEnds
  BY <1>13 DEF Binary!DownloadEnds, Binary!OnToolchain, Binary!Goto
<1>14. CASE Binary!HostVerified
  BY <1>14 DEF Binary!HostVerified, Binary!OnToolchain, Binary!Goto
<1>15. CASE Binary!HostRejects
  BY <1>15 DEF Binary!HostRejects, Binary!ToolchainFails, Binary!Raise
<1>16. CASE Binary!Upload
  BY <1>16 DEF Binary!Upload, Binary!OnToolchain, Binary!Goto
<1>17. CASE Binary!GuestVerified
  BY <1>17 DEF Binary!GuestVerified, Binary!OnToolchain, Binary!Goto
<1>18. CASE Binary!GuestRejects
  BY <1>18 DEF Binary!GuestRejects, Binary!ToolchainFails, Binary!Raise
<1>19. CASE Binary!RemoveGo
  BY <1>19 DEF Binary!RemoveGo, Binary!OnToolchain, Binary!Goto
<1>20. CASE Binary!Untar
  BY <1>20 DEF Binary!Untar, Binary!OnToolchain, Binary!Goto
<1>21. CASE Binary!UntarFails
  BY <1>21 DEF Binary!UntarFails, Binary!ToolchainFails, Binary!Raise
<1>22. CASE Binary!LinkGo
  BY <1>22 DEF Binary!LinkGo, Binary!OnToolchain, Binary!Goto
<1>23. CASE Binary!GoVerified
  BY <1>23 DEF Binary!GoVerified, Binary!OnToolchain, Binary!Goto
<1>24. CASE Binary!Stage
  BY <1>24 DEF Binary!Stage, Binary!Goto
<1>25. CASE Binary!PutFile
  BY <1>25 DEF Binary!PutFile, Binary!Goto
<1>26. CASE Binary!Compile
  BY <1>26 DEF Binary!Compile, Binary!Goto
<1>27. CASE Binary!CompileFails
  BY <1>27 DEF Binary!CompileFails, Binary!Raise
<1>28. CASE Binary!Install
  BY <1>28 DEF Binary!Install, Binary!Goto
<1>29. CASE Binary!Stamp
  BY <1>29 DEF Binary!Stamp, Binary!Finish
<1>30. CASE Binary!StepRaises
  BY <1>30 DEF Binary!StepRaises, Binary!Raise
<1>31. CASE Binary!Killed
  BY <1>31 DEF Binary!Killed
<1>32. CASE UNCHANGED Binary!vars
  BY <1>32 DEF Binary!vars
<1> HIDE DEF Binary!IInv, Binary!TypeOK, Binary!SourcesInv, Binary!SuccessMeansCurrent,
   Binary!tree, Binary!toolchain, Binary!build, Binary!installed, Binary!control
<1> QED
  BY <1>1, <1>2, <1>3, <1>4, <1>5, <1>6, <1>7, <1>8, <1>9, <1>10, <1>11, <1>12, <1>13, <1>14,
     <1>15, <1>16, <1>17, <1>18, <1>19, <1>20, <1>21, <1>22, <1>23, <1>24, <1>25, <1>26, <1>27,
     <1>28, <1>29, <1>30, <1>31, <1>32 DEF Binary!Next, Binary!Decide, Binary!InstallGo,
     Binary!BuildService

\* The invariant is inductive.
THEOREM BinaryInductive == Binary!Spec => []Binary!IInv
<1>1. Binary!IInv /\ [Binary!Next]_Binary!vars => Binary!IInv'
  BY BinaryTypeStep, BinaryToolchainStep, BinarySourcesStep, BinarySuccessStep DEF Binary!IInv
<1> QED
  BY BinaryInitInv, <1>1, PTL DEF Binary!Spec

\* The build's variables keep their types.
THEOREM BinaryTypeCorrect == Binary!Spec => []Binary!TypeOK
<1>1. Binary!IInv => Binary!TypeOK
  BY DEF Binary!IInv
<1> QED
  BY <1>1, BinaryInductive, PTL

\* For any number of files and any edits: ensure_service_binary or prepare_template returned, no
\* source was edited meanwhile and every binary installed got its fingerprint, so the binary on
\* the guest is that of the sources; and install_go unpacks no archive but the pinned one.
THEOREM BinaryIsTrusted == Binary!Spec => []Binary!BinaryTrusted
<1>1. Binary!IInv => Binary!BinaryTrusted
  BY DEF Binary!IInv, Binary!ToolchainInv, Binary!BinaryTrusted, Binary!OnlyVerifiedToolchain
<1> QED
  BY <1>1, BinaryInductive, PTL


-----------------------------------------------------------------------------
(* The preflight checks. *)

\* What is known of the host's appliance and VBoxManage.
LEMMA ChecksHost ==
    ASSUME host \in Checks!HostStates
    PROVE  /\ host.ova \in Nat /\ (host.ova = 0 \/ host.ova > 0)
           /\ host.vbox \in {"absent", "ok", "failing", "hanging"}
<1>1. host.ova \in OvaSizes /\ host.vbox \in {"absent", "ok", "failing", "hanging"}
  BY DEF Checks!HostStates
<1>2. host.ova \in Nat
  BY <1>1, ChecksHolds DEF Checks!PreflightAssumption
<1> QED
  BY <1>1, <1>2

\* A verdict is a status.
LEMMA ChecksRamStatus ==
    ASSUME NEW ram \in Checks!Measured(RamValues)
    PROVE  /\ Checks!RamStatus(ram) \in Checks!Status
           /\ Checks!RamStatus(ram) = "FAIL" <=> ram # Checks!Unknown /\ ram < NGuests * MemoryMb
<1>1. NGuests * MemoryMb \in Nat /\ HeadroomMb \in Nat
  BY ChecksHolds DEF Checks!PreflightAssumption
<1>2. ram \in Int
  BY ChecksHolds DEF Checks!PreflightAssumption, Checks!Measured, Checks!Unknown
<1> QED
  BY <1>1, <1>2 DEF Checks!RamStatus, Checks!Status

\* The verdicts after one more: how many, and whether one of them is a failure.
LEMMA ChecksAppend ==
    ASSUME NEW rs \in Seq(Checks!Status), NEW st \in Checks!Status
    PROVE  /\ Append(rs, st) \in Seq(Checks!Status)
           /\ Len(Append(rs, st)) = Len(rs) + 1
           /\ Checks!Failed(Append(rs, st)) <=> Checks!Failed(rs) \/ st = "FAIL"
<1>1. Append(rs, st) \in Seq(Checks!Status) /\ Len(Append(rs, st)) = Len(rs) + 1
  OBVIOUS
<1>2. \A i \in 1..Len(rs) : Append(rs, st)[i] = rs[i]
  OBVIOUS
<1>3. Append(rs, st)[Len(rs) + 1] = st
  OBVIOUS
<1>4. DOMAIN rs = 1..Len(rs) /\ DOMAIN Append(rs, st) = 1..(Len(rs) + 1) /\ Len(rs) \in Nat
  OBVIOUS
<1> QED
  BY <1>1, <1>2, <1>3, <1>4 DEF Checks!Failed

\* worst_status is a failure exactly where one of the verdicts is.
LEMMA ChecksWorst == ASSUME NEW rs PROVE Checks!WorstStatus(rs) = "FAIL" <=> Checks!Failed(rs)
BY DEF Checks!WorstStatus, Checks!Failed

\* The initial states satisfy the invariant.
LEMMA ChecksInitInv == Checks!Init => Checks!IInv
<1> SUFFICES ASSUME Checks!Init PROVE Checks!IInv
  OBVIOUS
<1>1. /\ probe = FALSE /\ changes = 0
      /\ \A p \in Procs : checkPc[p] = "vboxmanage" /\ results[p] = <<>>
  BY DEF Checks!Init
<1>2. Checks!TypeOK
  <2>1. quiet \in [Procs -> BOOLEAN] /\ probe \in BOOLEAN
    BY DEF Checks!Init
  <2>2. results \in [Procs -> Seq(Checks!Status)]
    BY DEF Checks!Init
  <2>3. changes \in 0..MaxChanges
    BY ChecksHolds, <1>1 DEF Checks!PreflightAssumption
  <2>4. checkPc \in [Procs -> Checks!Pcs] /\ drive \in [Procs -> {"vmDrive", "ovaDrive"}]
    BY DEF Checks!Init, Checks!Pcs
  <2>5. \A p \in Procs : Len(results[p]) <= 6 /\ checkPc[p] # "done"
    BY <1>1
  <2> QED
    BY <1>1, <2>1, <2>2, <2>3, <2>4, <2>5 DEF Checks!Init, Checks!TypeOK
<1>3. ASSUME NEW p \in Procs PROVE Checks!VerdictsInv(p) /\ Checks!QuietInv(p)
  <2>1. ~Checks!Failed(results[p]) /\ Len(results[p]) = 0
    BY <1>1 DEF Checks!Failed
  <2> QED
    BY <1>1, <2>1 DEF Checks!VerdictsInv, Checks!QuietInv, Checks!FailsSoFar
<1> QED
  BY <1>1, <1>2, <1>3 DEF Checks!IInv

\* What a command's step leaves alone: the host, and the other commands' places and verdicts;
\* a probe that is removed costs those that are about to remove it their quiet.
LEMMA ChecksFrame ==
    ASSUME Checks!IInv, NEW p \in Procs, Checks!Step(p)
    PROVE  /\ UNCHANGED <<host, changes>>
           /\ \A q \in Procs \ {p} :
                /\ checkPc'[q] = checkPc[q] /\ results'[q] = results[q] /\ drive'[q] = drive[q]
                /\ quiet'[q] => quiet[q] /\ (checkPc[q] = "unlink" => probe' = probe \/ probe')
           /\ quiet'[p] => quiet[p]
<1> USE DEF Checks!IInv, Checks!TypeOK
<1>1. CASE Checks!CheckVBoxManage(p)
  BY <1>1 DEF Checks!CheckVBoxManage, Checks!Goto, Checks!Report, Checks!others, Checks!Raise
<1>2. CASE Checks!CheckSshKey(p)
  BY <1>2 DEF Checks!CheckSshKey, Checks!Goto, Checks!Report, Checks!others
<1>3. CASE Checks!WriteProbe(p)
  BY <1>3 DEF Checks!WriteProbe, Checks!Goto, Checks!Report, Checks!others
<1>4. CASE Checks!UnlinkProbe(p)
  BY <1>4 DEF Checks!UnlinkProbe, Checks!Goto, Checks!Report, Checks!others
<1>5. CASE Checks!CheckHostRam(p)
  BY <1>5 DEF Checks!CheckHostRam, Checks!Goto, Checks!Report, Checks!others
<1>6. CASE Checks!FindFolder(p)
  BY <1>6 DEF Checks!FindFolder, Checks!Goto, Checks!Report, Checks!others, Checks!Raise
<1>7. CASE Checks!MeasureDisk(p)
  <2>1. host.ova = 0 \/ host.ova > 0
    BY ChecksHost
  <2> QED
    BY <1>7, <2>1 DEF Checks!MeasureDisk, Checks!Goto, Checks!Report, Checks!others
<1>8. CASE Checks!StatOvaForDisk(p)
  BY <1>8 DEF Checks!StatOvaForDisk, Checks!Goto, Checks!Report, Checks!others, Checks!Raise
<1>9. CASE Checks!CheckTemplateOrOva(p)
  <2>1. /\ host.ova = 0 \/ host.ova > 0
        /\ host.vbox \in {"absent", "ok", "failing", "hanging"}
    BY ChecksHost
  <2> QED
    BY <1>9, <2>1 DEF Checks!CheckTemplateOrOva, Checks!Goto, Checks!Report, Checks!others,
       Checks!Raise
<1>10. CASE Checks!StatOvaForReport(p)
  BY <1>10 DEF Checks!StatOvaForReport, Checks!Goto, Checks!Report, Checks!others, Checks!Raise
<1> QED
  BY <1>1, <1>2, <1>3, <1>4, <1>5, <1>6, <1>7, <1>8, <1>9, <1>10 DEF Checks!Step

\* The other commands keep their part of the invariant.
LEMMA ChecksOthers ==
    ASSUME Checks!IInv, NEW p \in Procs, Checks!Step(p), NEW q \in Procs, q # p
    PROVE  Checks!VerdictsInv(q)' /\ Checks!QuietInv(q)'
<1>1. /\ host' = host
      /\ checkPc'[q] = checkPc[q]
      /\ results'[q] = results[q]
      /\ drive'[q] = drive[q]
      /\ quiet'[q] => quiet[q] /\ (checkPc[q] = "unlink" => probe' = probe \/ probe')
  BY ChecksFrame
<1>2. Checks!VerdictsInv(q) /\ Checks!QuietInv(q)
  BY DEF Checks!IInv
<1>3. Checks!VerdictsInv(q)'
  BY <1>1, <1>2 DEF Checks!VerdictsInv
<1>4. Checks!FailsSoFar(q)' <=> Checks!FailsSoFar(q)
  BY <1>1 DEF Checks!FailsSoFar, Checks!ShortOfRam, Checks!ShortOfDisk, Checks!NothingToClone
<1>5. Checks!QuietInv(q)'
  BY <1>1, <1>2, <1>4 DEF Checks!QuietInv
<1> QED
  BY <1>3, <1>5

\* The disk is short exactly where check_host_disk says so.
LEMMA ChecksDiskStatus ==
    ASSUME Checks!IInv, NEW p \in Procs, NEW perGuest \in Nat
    PROVE  /\ host[drive[p]] \in Int /\ Checks!DiskStatus(p, perGuest) \in Checks!Status
           /\ Checks!DiskStatus(p, perGuest) = "FAIL" <=>
                  10 * host[drive[p]] < 13 * NGuests * perGuest
<1>1. 13 * NGuests * perGuest \in Nat
  BY ChecksHolds DEF Checks!PreflightAssumption
<1>2. host.vmDrive \in Int /\ host.ovaDrive \in Int
  BY ChecksHolds DEF Checks!PreflightAssumption, Checks!IInv, Checks!TypeOK, Checks!HostStates,
     Checks!Measured, Checks!Unknown
<1>3. host[drive[p]] \in Int
  BY <1>2 DEF Checks!IInv, Checks!TypeOK
<1> QED
  BY <1>1, <1>3 DEF Checks!DiskStatus, Checks!Fits, Checks!Slack, Checks!Status

\* A verdict more takes a command from one check to the next.
LEMMA ChecksOneMore ==
    ASSUME NEW p \in Procs, Checks!VerdictsInv(p), Len(results'[p]) = Len(results[p]) + 1,
           \/ checkPc[p] = "vboxmanage" /\ checkPc'[p] = "ssh_key"
           \/ checkPc[p] = "ssh_key" /\ checkPc'[p] = "key_dir"
           \/ checkPc[p] = "key_dir" /\ checkPc'[p] = "ram"
           \/ checkPc[p] = "unlink" /\ checkPc'[p] = "ram"
           \/ checkPc[p] = "ram" /\ checkPc'[p] = "folder"
           \/ checkPc[p] = "disk" /\ checkPc'[p] = "template"
           \/ checkPc[p] = "disk_stat" /\ checkPc'[p] = "template"
           \/ checkPc[p] = "template" /\ checkPc'[p] = "done"
           \/ checkPc[p] = "template_stat" /\ checkPc'[p] = "done"
    PROVE  Checks!VerdictsInv(p)'
<1>1. CASE checkPc[p] = "vboxmanage" /\ checkPc'[p] = "ssh_key"
  <2>1. Len(results[p]) = 0
    BY <1>1 DEF Checks!VerdictsInv
  <2>2. Len(results'[p]) = 1
    BY <2>1
  <2> QED
    BY <1>1, <2>2 DEF Checks!VerdictsInv
<1>2. CASE checkPc[p] = "ssh_key" /\ checkPc'[p] = "key_dir"
  <2>1. Len(results[p]) = 1
    BY <1>2 DEF Checks!VerdictsInv
  <2>2. Len(results'[p]) = 2
    BY <2>1
  <2> QED
    BY <1>2, <2>2 DEF Checks!VerdictsInv
<1>3. CASE checkPc[p] = "key_dir" /\ checkPc'[p] = "ram"
  <2>1. Len(results[p]) = 2
    BY <1>3 DEF Checks!VerdictsInv
  <2>2. Len(results'[p]) = 3
    BY <2>1
  <2> QED
    BY <1>3, <2>2 DEF Checks!VerdictsInv
<1>4. CASE checkPc[p] = "unlink" /\ checkPc'[p] = "ram"
  <2>1. Len(results[p]) = 2
    BY <1>4 DEF Checks!VerdictsInv
  <2>2. Len(results'[p]) = 3
    BY <2>1
  <2> QED
    BY <1>4, <2>2 DEF Checks!VerdictsInv
<1>5. CASE checkPc[p] = "ram" /\ checkPc'[p] = "folder"
  <2>1. Len(results[p]) = 3
    BY <1>5 DEF Checks!VerdictsInv
  <2>2. Len(results'[p]) = 4
    BY <2>1
  <2> QED
    BY <1>5, <2>2 DEF Checks!VerdictsInv
<1>6. CASE checkPc[p] = "disk" /\ checkPc'[p] = "template"
  <2>1. Len(results[p]) = 4
    BY <1>6 DEF Checks!VerdictsInv
  <2>2. Len(results'[p]) = 5
    BY <2>1
  <2> QED
    BY <1>6, <2>2 DEF Checks!VerdictsInv
<1>7. CASE checkPc[p] = "disk_stat" /\ checkPc'[p] = "template"
  <2>1. Len(results[p]) = 4
    BY <1>7 DEF Checks!VerdictsInv
  <2>2. Len(results'[p]) = 5
    BY <2>1
  <2> QED
    BY <1>7, <2>2 DEF Checks!VerdictsInv
<1>8. CASE checkPc[p] = "template" /\ checkPc'[p] = "done"
  <2>1. Len(results[p]) = 5
    BY <1>8 DEF Checks!VerdictsInv
  <2>2. Len(results'[p]) = 6
    BY <2>1
  <2> QED
    BY <1>8, <2>2 DEF Checks!VerdictsInv
<1>9. CASE checkPc[p] = "template_stat" /\ checkPc'[p] = "done"
  <2>1. Len(results[p]) = 5
    BY <1>9 DEF Checks!VerdictsInv
  <2>2. Len(results'[p]) = 6
    BY <2>1
  <2> QED
    BY <1>9, <2>2 DEF Checks!VerdictsInv
<1> QED
  BY <1>1, <1>2, <1>3, <1>4, <1>5, <1>6, <1>7, <1>8, <1>9

\* Six verdicts at most.
LEMMA ChecksSix ==
    ASSUME NEW n, n \in {0, 1, 2, 3, 4, 5}
    PROVE  n <= 5
OBVIOUS

LEMMA ChecksAtMost == ASSUME NEW n \in Nat, n <= 5 \/ n = 6 PROVE n <= 6
OBVIOUS

\* A step without a verdict stays within a check, or raises.
LEMMA ChecksNoMore ==
    ASSUME NEW p \in Procs, Checks!VerdictsInv(p), results'[p] = results[p],
           \/ checkPc[p] = "key_dir" /\ checkPc'[p] = "unlink"
           \/ checkPc[p] = "folder" /\ checkPc'[p] = "disk"
           \/ checkPc[p] = "disk" /\ checkPc'[p] = "disk_stat"
           \/ checkPc[p] = "template" /\ checkPc'[p] = "template_stat"
           \/ /\ checkPc[p] \in {"vboxmanage", "folder", "disk_stat", "template", "template_stat"}
              /\ checkPc'[p] = "raised"
    PROVE  Checks!VerdictsInv(p)'
<1>1. CASE checkPc[p] = "key_dir" /\ checkPc'[p] = "unlink"
  <2>1. Len(results'[p]) = 2
    BY <1>1 DEF Checks!VerdictsInv
  <2> QED
    BY <1>1, <2>1 DEF Checks!VerdictsInv
<1>2. CASE checkPc[p] = "folder" /\ checkPc'[p] = "disk"
  <2>1. Len(results'[p]) = 4
    BY <1>2 DEF Checks!VerdictsInv
  <2> QED
    BY <1>2, <2>1 DEF Checks!VerdictsInv
<1>3. CASE checkPc[p] = "disk" /\ checkPc'[p] = "disk_stat"
  <2>1. Len(results'[p]) = 4
    BY <1>3 DEF Checks!VerdictsInv
  <2> QED
    BY <1>3, <2>1 DEF Checks!VerdictsInv
<1>4. CASE checkPc[p] = "template" /\ checkPc'[p] = "template_stat"
  <2>1. Len(results'[p]) = 5
    BY <1>4 DEF Checks!VerdictsInv
  <2> QED
    BY <1>4, <2>1 DEF Checks!VerdictsInv
<1>5. CASE checkPc'[p] = "raised"
  <2>1. Len(results'[p]) \in {0, 1, 2, 3, 4, 5}
    BY <1>5 DEF Checks!VerdictsInv
  <2>2. Len(results'[p]) <= 5
    BY ONLY <2>1, ChecksSix
  <2> QED
    BY <1>5, <2>2 DEF Checks!VerdictsInv
<1> QED
  BY <1>1, <1>2, <1>3, <1>4, <1>5

\* A verdict, in terms of the invariant.
LEMMA ChecksReport ==
    ASSUME Checks!IInv, NEW p \in Procs, NEW st \in Checks!Status, NEW where, Checks!Report(p, st, where)
    PROVE  /\ checkPc'[p] = where
           /\ Len(results'[p]) = Len(results[p]) + 1
           /\ Checks!Failed(results'[p]) <=> (Checks!Failed(results[p]) \/ st = "FAIL")
<1>1. results[p] \in Seq(Checks!Status)
  BY DEF Checks!IInv, Checks!TypeOK
<1>2. checkPc'[p] = where /\ results'[p] = Append(results[p], st)
  BY DEF Checks!Report, Checks!Goto, Checks!IInv, Checks!TypeOK
<1> QED
  BY <1>1, <1>2, ChecksAppend

\* A step without one.
LEMMA ChecksGoto ==
    ASSUME Checks!IInv, NEW p \in Procs, NEW where, Checks!Goto(p, where), UNCHANGED results
    PROVE  checkPc'[p] = where /\ results'[p] = results[p]
BY DEF Checks!Goto, Checks!IInv, Checks!TypeOK

\* A command's step keeps its own part of the invariant.
LEMMA ChecksOwn ==
    ASSUME Checks!IInv, NEW p \in Procs, Checks!Step(p)
    PROVE  Checks!VerdictsInv(p)' /\ Checks!QuietInv(p)'
<1>1. Checks!VerdictsInv(p)
  BY DEF Checks!IInv
<1>2. Checks!QuietInv(p)
  BY DEF Checks!IInv
<1>3. host \in Checks!HostStates /\ (probe => host.writable)
  BY DEF Checks!IInv, Checks!TypeOK
<1>4. host' = host /\ (quiet'[p] => quiet[p])
  BY ChecksFrame
<1>5. /\ Checks!ShortOfRam' <=> Checks!ShortOfRam
      /\ Checks!ShortOfDisk' <=> Checks!ShortOfDisk
      /\ Checks!NothingToClone' <=> Checks!NothingToClone
  BY <1>4 DEF Checks!ShortOfRam, Checks!ShortOfDisk, Checks!NothingToClone
<1>6. /\ host.ova \in Nat
      /\ DefaultGb \in Nat
      /\ host.vbox \in {"absent", "ok", "failing", "hanging"}
  BY <1>3, ChecksHolds, ChecksHost DEF Checks!PreflightAssumption
<1>7. CASE Checks!CheckVBoxManage(p)
  <2>1. CASE host.vbox = "absent"
    <3>11. checkPc[p] = "vboxmanage" /\ Checks!Report(p, "FAIL", "ssh_key")
      BY <1>7, <2>1 DEF Checks!CheckVBoxManage
    <3>12. /\ "FAIL" \in Checks!Status
           /\ "FAIL" = "FAIL" <=> host.vbox # "ok"
      BY <2>1 DEF Checks!Status
    <3>13. /\ checkPc[p] = "vboxmanage" /\ checkPc'[p] = "ssh_key"
           /\ Len(results'[p]) = Len(results[p]) + 1
      BY <3>11, <3>12, ChecksReport
    <3>14. Checks!Failed(results'[p]) <=> (Checks!Failed(results[p]) \/ host.vbox # "ok")
      BY <3>11, <3>12, ChecksReport
    <3>15. Checks!VerdictsInv(p)'
      BY <1>1, <3>13, ChecksOneMore
    <3>16. Checks!QuietInv(p)'
      BY <1>2, <1>3, <1>4, <1>5, <3>13, <3>14, <2>1 DEF Checks!QuietInv, Checks!FailsSoFar
    <3> QED
      BY <3>15, <3>16
  <2>2. CASE host.vbox = "ok"
    <3>11. checkPc[p] = "vboxmanage" /\ Checks!Report(p, "PASS", "ssh_key")
      BY <1>7, <2>2 DEF Checks!CheckVBoxManage
    <3>12. /\ "PASS" \in Checks!Status
           /\ "PASS" = "FAIL" <=> host.vbox # "ok"
      BY <2>2 DEF Checks!Status
    <3>13. /\ checkPc[p] = "vboxmanage" /\ checkPc'[p] = "ssh_key"
           /\ Len(results'[p]) = Len(results[p]) + 1
      BY <3>11, <3>12, ChecksReport
    <3>14. Checks!Failed(results'[p]) <=> (Checks!Failed(results[p]) \/ host.vbox # "ok")
      BY <3>11, <3>12, ChecksReport
    <3>15. Checks!VerdictsInv(p)'
      BY <1>1, <3>13, ChecksOneMore
    <3>16. Checks!QuietInv(p)'
      BY <1>2, <1>3, <1>4, <1>5, <3>13, <3>14, <2>2 DEF Checks!QuietInv, Checks!FailsSoFar
    <3> QED
      BY <3>15, <3>16
  <2>3. CASE host.vbox \in {"failing", "hanging"}
    <3>11. checkPc[p] = "vboxmanage" /\ Checks!Goto(p, "raised") /\ UNCHANGED results
      BY <1>7, <2>3 DEF Checks!CheckVBoxManage, Checks!Raise
    <3>12. checkPc[p] = "vboxmanage" /\ checkPc'[p] = "raised" /\ results'[p] = results[p]
      BY <3>11, ChecksGoto
    <3>13. Checks!VerdictsInv(p)'
      BY <1>1, <3>12, ChecksNoMore
    <3>14. Checks!QuietInv(p)'
      BY <1>2, <1>3, <1>4, <1>5, <3>12, <2>3 DEF Checks!QuietInv, Checks!FailsSoFar
    <3> QED
      BY <3>13, <3>14
  <2> QED
    BY <1>6, <2>1, <2>2, <2>3
<1>8. CASE Checks!CheckSshKey(p)
  <2> DEFINE st == IF host.key THEN "PASS" ELSE "FAIL"
  <2>11. checkPc[p] = "ssh_key" /\ Checks!Report(p, st, "key_dir")
    BY <1>8 DEF Checks!CheckSshKey
  <2>12. /\ st \in Checks!Status
         /\ st = "FAIL" <=> ~host.key
    BY DEF Checks!Status
  <2>13. /\ checkPc[p] = "ssh_key" /\ checkPc'[p] = "key_dir"
         /\ Len(results'[p]) = Len(results[p]) + 1
    BY <2>11, <2>12, ChecksReport
  <2>14. Checks!Failed(results'[p]) <=> (Checks!Failed(results[p]) \/ ~host.key)
    BY <2>11, <2>12, ChecksReport
  <2>15. Checks!VerdictsInv(p)'
    BY <1>1, <2>13, ChecksOneMore
  <2>16. Checks!QuietInv(p)'
    BY <1>2, <1>3, <1>4, <1>5, <2>13, <2>14 DEF Checks!QuietInv, Checks!FailsSoFar
  <2> QED
    BY <2>15, <2>16
<1>9. CASE Checks!WriteProbe(p)
  <2>1. CASE host.writable
    <3>1. probe'
      BY <1>9, <2>1 DEF Checks!WriteProbe
    <3>11. checkPc[p] = "key_dir" /\ Checks!Goto(p, "unlink") /\ UNCHANGED results
      BY <1>9, <2>1 DEF Checks!WriteProbe
    <3>12. checkPc[p] = "key_dir" /\ checkPc'[p] = "unlink" /\ results'[p] = results[p]
      BY <3>11, ChecksGoto
    <3>13. Checks!VerdictsInv(p)'
      BY <1>1, <3>12, ChecksNoMore
    <3>14. Checks!QuietInv(p)'
      BY <1>2, <1>3, <1>4, <1>5, <3>12, <2>1, <3>1 DEF Checks!QuietInv, Checks!FailsSoFar
    <3> QED
      BY <3>13, <3>14
  <2>2. CASE ~host.writable
    <3>11. checkPc[p] = "key_dir" /\ Checks!Report(p, "FAIL", "ram")
      BY <1>9, <2>2 DEF Checks!WriteProbe
    <3>12. /\ "FAIL" \in Checks!Status
           /\ "FAIL" = "FAIL" <=> ~host.writable
      BY <2>2 DEF Checks!Status
    <3>13. /\ checkPc[p] = "key_dir" /\ checkPc'[p] = "ram"
           /\ Len(results'[p]) = Len(results[p]) + 1
      BY <3>11, <3>12, ChecksReport
    <3>14. Checks!Failed(results'[p]) <=> (Checks!Failed(results[p]) \/ ~host.writable)
      BY <3>11, <3>12, ChecksReport
    <3>15. Checks!VerdictsInv(p)'
      BY <1>1, <3>13, ChecksOneMore
    <3>16. Checks!QuietInv(p)'
      BY <1>2, <1>3, <1>4, <1>5, <3>13, <3>14, <2>2 DEF Checks!QuietInv, Checks!FailsSoFar
    <3> QED
      BY <3>15, <3>16
  <2> QED
    BY <2>1, <2>2
<1>10. CASE Checks!UnlinkProbe(p)
  <2> DEFINE st == IF probe /\ host.writable THEN "PASS" ELSE "FAIL"
  <2>11. checkPc[p] = "unlink" /\ Checks!Report(p, st, "ram")
    BY <1>10 DEF Checks!UnlinkProbe
  <2>12. /\ st \in Checks!Status
         /\ st = "FAIL" <=> ~(probe /\ host.writable)
    BY DEF Checks!Status
  <2>13. /\ checkPc[p] = "unlink" /\ checkPc'[p] = "ram"
         /\ Len(results'[p]) = Len(results[p]) + 1
    BY <2>11, <2>12, ChecksReport
  <2>14. Checks!Failed(results'[p]) <=> (Checks!Failed(results[p]) \/ ~(probe /\ host.writable))
    BY <2>11, <2>12, ChecksReport
  <2>15. Checks!VerdictsInv(p)'
    BY <1>1, <2>13, ChecksOneMore
  <2>16. Checks!QuietInv(p)'
    BY <1>2, <1>3, <1>4, <1>5, <2>13, <2>14 DEF Checks!QuietInv, Checks!FailsSoFar
  <2> QED
    BY <2>15, <2>16
<1>11. CASE Checks!CheckHostRam(p)
  <2>1. host.ram \in Checks!Measured(RamValues)
    BY <1>3 DEF Checks!HostStates
  <2>11. checkPc[p] = "ram" /\ Checks!Report(p, Checks!RamStatus(host.ram), "folder")
    BY <1>11 DEF Checks!CheckHostRam
  <2>12. /\ Checks!RamStatus(host.ram) \in Checks!Status
         /\ Checks!RamStatus(host.ram) = "FAIL" <=> Checks!ShortOfRam
    BY <2>1, ChecksRamStatus DEF Checks!ShortOfRam
  <2>13. /\ checkPc[p] = "ram" /\ checkPc'[p] = "folder"
         /\ Len(results'[p]) = Len(results[p]) + 1
    BY <2>11, <2>12, ChecksReport
  <2>14. Checks!Failed(results'[p]) <=> (Checks!Failed(results[p]) \/ Checks!ShortOfRam)
    BY <2>11, <2>12, ChecksReport
  <2>15. Checks!VerdictsInv(p)'
    BY <1>1, <2>13, ChecksOneMore
  <2>16. Checks!QuietInv(p)'
    BY <1>2, <1>3, <1>4, <1>5, <2>13, <2>14 DEF Checks!QuietInv, Checks!FailsSoFar
  <2> QED
    BY <2>15, <2>16
<1>12. CASE Checks!FindFolder(p)
  <2>1. drive'[p] = IF host.vbox = "ok" THEN "vmDrive" ELSE "ovaDrive"
    BY <1>12 DEF Checks!FindFolder, Checks!IInv, Checks!TypeOK
  <2>2. CASE host.vbox = "hanging"
    <3>11. checkPc[p] = "folder" /\ Checks!Goto(p, "raised") /\ UNCHANGED results
      BY <1>12, <2>2 DEF Checks!FindFolder, Checks!Raise
    <3>12. checkPc[p] = "folder" /\ checkPc'[p] = "raised" /\ results'[p] = results[p]
      BY <3>11, ChecksGoto
    <3>13. Checks!VerdictsInv(p)'
      BY <1>1, <3>12, ChecksNoMore
    <3>14. Checks!QuietInv(p)'
      BY <1>2, <1>3, <1>4, <1>5, <3>12, <2>2 DEF Checks!QuietInv, Checks!FailsSoFar
    <3> QED
      BY <3>13, <3>14
  <2>3. CASE host.vbox # "hanging"
    <3>11. checkPc[p] = "folder" /\ Checks!Goto(p, "disk") /\ UNCHANGED results
      BY <1>12, <2>3 DEF Checks!FindFolder
    <3>12. checkPc[p] = "folder" /\ checkPc'[p] = "disk" /\ results'[p] = results[p]
      BY <3>11, ChecksGoto
    <3>13. Checks!VerdictsInv(p)'
      BY <1>1, <3>12, ChecksNoMore
    <3>14. Checks!QuietInv(p)'
      BY <1>2, <1>3, <1>4, <1>5, <3>12, <2>1 DEF Checks!QuietInv, Checks!FailsSoFar
    <3> QED
      BY <3>13, <3>14
  <2> QED
    BY <2>2, <2>3
<1>13. CASE Checks!MeasureDisk(p)
  <2>1. drive' = drive /\ checkPc[p] = "disk"
    BY <1>13 DEF Checks!MeasureDisk, Checks!others
  <2>2. CASE host[drive[p]] = Checks!Unknown
    <3>11. checkPc[p] = "disk" /\ Checks!Report(p, "WARN", "template")
      BY <1>13, <2>2 DEF Checks!MeasureDisk
    <3>12. /\ "WARN" \in Checks!Status
           /\ quiet[p] => ("WARN" = "FAIL" <=> Checks!ShortOfDisk)
      BY <1>2, <2>1, <2>2 DEF Checks!Status, Checks!QuietInv, Checks!ShortOfDisk
    <3>13. /\ checkPc[p] = "disk" /\ checkPc'[p] = "template"
           /\ Len(results'[p]) = Len(results[p]) + 1
      BY <3>11, <3>12, ChecksReport
    <3>14. quiet[p] => (Checks!Failed(results'[p]) <=>
               (Checks!Failed(results[p]) \/ Checks!ShortOfDisk))
      BY <3>11, <3>12, ChecksReport
    <3>15. Checks!VerdictsInv(p)'
      BY <1>1, <3>13, ChecksOneMore
    <3>16. Checks!QuietInv(p)'
      BY <1>2, <1>3, <1>4, <1>5, <3>13, <3>14 DEF Checks!QuietInv, Checks!FailsSoFar
    <3> QED
      BY <3>15, <3>16
  <2>3. CASE host[drive[p]] # Checks!Unknown /\ host.ova = 0
    <3>1. ~(host.ova > 0)
      BY <2>3
    <3>2. /\ Checks!DiskStatus(p, DefaultGb) \in Checks!Status
          /\ Checks!DiskStatus(p, DefaultGb) = "FAIL" <=>
                 10 * host[drive[p]] < 13 * NGuests * DefaultGb
      BY <1>6, ChecksDiskStatus
    <3>11. checkPc[p] = "disk" /\ Checks!Report(p, Checks!DiskStatus(p, DefaultGb), "template")
      BY <1>13, <2>3, <3>1 DEF Checks!MeasureDisk
    <3>12. /\ Checks!DiskStatus(p, DefaultGb) \in Checks!Status
           /\ quiet[p] => (Checks!DiskStatus(p, DefaultGb) = "FAIL" <=> Checks!ShortOfDisk)
      BY <1>2, <2>1, <2>3, <3>1, <3>2 DEF Checks!QuietInv, Checks!ShortOfDisk
    <3>13. /\ checkPc[p] = "disk" /\ checkPc'[p] = "template"
           /\ Len(results'[p]) = Len(results[p]) + 1
      BY <3>11, <3>12, ChecksReport
    <3>14. quiet[p] => (Checks!Failed(results'[p]) <=>
               (Checks!Failed(results[p]) \/ Checks!ShortOfDisk))
      BY <3>11, <3>12, ChecksReport
    <3>15. Checks!VerdictsInv(p)'
      BY <1>1, <3>13, ChecksOneMore
    <3>16. Checks!QuietInv(p)'
      BY <1>2, <1>3, <1>4, <1>5, <3>13, <3>14 DEF Checks!QuietInv, Checks!FailsSoFar
    <3> QED
      BY <3>15, <3>16
  <2>4. CASE host[drive[p]] # Checks!Unknown /\ host.ova > 0
    <3>1. host.ova # 0
      BY <1>6, <2>4
    <3>11. checkPc[p] = "disk" /\ Checks!Goto(p, "disk_stat") /\ UNCHANGED results
      BY <1>13, <2>4, <3>1 DEF Checks!MeasureDisk
    <3>12. checkPc[p] = "disk" /\ checkPc'[p] = "disk_stat" /\ results'[p] = results[p]
      BY <3>11, ChecksGoto
    <3>13. Checks!VerdictsInv(p)'
      BY <1>1, <3>12, ChecksNoMore
    <3>14. Checks!QuietInv(p)'
      BY <1>2, <1>3, <1>4, <1>5, <3>12, <2>1, <2>4 DEF Checks!QuietInv, Checks!FailsSoFar
    <3> QED
      BY <3>13, <3>14
  <2> QED
    BY <1>6, <2>2, <2>3, <2>4
<1>14. CASE Checks!StatOvaForDisk(p)
  <2>1. drive' = drive /\ checkPc[p] = "disk_stat"
    BY <1>14 DEF Checks!StatOvaForDisk, Checks!others
  <2>2. CASE host.ova = 0
    <3>1. ~(host.ova > 0)
      BY <2>2
    <3>11. checkPc[p] = "disk_stat" /\ Checks!Goto(p, "raised") /\ UNCHANGED results
      BY <1>14, <2>2 DEF Checks!StatOvaForDisk, Checks!Raise
    <3>12. checkPc[p] = "disk_stat" /\ checkPc'[p] = "raised" /\ results'[p] = results[p]
      BY <3>11, ChecksGoto
    <3>13. Checks!VerdictsInv(p)'
      BY <1>1, <3>12, ChecksNoMore
    <3>14. Checks!QuietInv(p)'
      BY <1>2, <1>3, <1>4, <1>5, <3>12, <3>1 DEF Checks!QuietInv, Checks!FailsSoFar
    <3> QED
      BY <3>13, <3>14
  <2>3. CASE host.ova # 0
    <3>1. host.ova > 0
      BY <1>6, <2>3
    <3>2. /\ Checks!DiskStatus(p, host.ova) \in Checks!Status
          /\ Checks!DiskStatus(p, host.ova) = "FAIL" <=>
                 10 * host[drive[p]] < 13 * NGuests * host.ova
      BY <1>6, ChecksDiskStatus
    <3>11. /\ checkPc[p] = "disk_stat"
           /\ Checks!Report(p, Checks!DiskStatus(p, host.ova), "template")
      BY <1>14, <2>3 DEF Checks!StatOvaForDisk
    <3>12. /\ Checks!DiskStatus(p, host.ova) \in Checks!Status
           /\ quiet[p] => (Checks!DiskStatus(p, host.ova) = "FAIL" <=> Checks!ShortOfDisk)
      BY <1>2, <2>1, <3>1, <3>2 DEF Checks!QuietInv, Checks!ShortOfDisk
    <3>13. /\ checkPc[p] = "disk_stat" /\ checkPc'[p] = "template"
           /\ Len(results'[p]) = Len(results[p]) + 1
      BY <3>11, <3>12, ChecksReport
    <3>14. quiet[p] => (Checks!Failed(results'[p]) <=>
               (Checks!Failed(results[p]) \/ Checks!ShortOfDisk))
      BY <3>11, <3>12, ChecksReport
    <3>15. Checks!VerdictsInv(p)'
      BY <1>1, <3>13, ChecksOneMore
    <3>16. Checks!QuietInv(p)'
      BY <1>2, <1>3, <1>4, <1>5, <3>13, <3>14 DEF Checks!QuietInv, Checks!FailsSoFar
    <3> QED
      BY <3>15, <3>16
  <2> QED
    BY <2>2, <2>3
<1>15. CASE Checks!CheckTemplateOrOva(p)
  <2>1. CASE host.ova > 0
    <3>1. host.ova # 0
      BY <1>6, <2>1
    <3>11. checkPc[p] = "template" /\ Checks!Goto(p, "template_stat") /\ UNCHANGED results
      BY <1>15, <2>1, <3>1 DEF Checks!CheckTemplateOrOva
    <3>12. checkPc[p] = "template" /\ checkPc'[p] = "template_stat" /\ results'[p] = results[p]
      BY <3>11, ChecksGoto
    <3>13. Checks!VerdictsInv(p)'
      BY <1>1, <3>12, ChecksNoMore
    <3>14. Checks!QuietInv(p)'
      BY <1>2, <1>3, <1>4, <1>5, <3>12, <2>1 DEF Checks!QuietInv, Checks!FailsSoFar
    <3> QED
      BY <3>13, <3>14
  <2>2. CASE host.ova = 0 /\ host.vbox = "absent"
    <3>1. ~(host.ova > 0)
      BY <2>2
    <3>11. checkPc[p] = "template" /\ Checks!Report(p, "FAIL", "done")
      BY <1>15, <2>2, <3>1 DEF Checks!CheckTemplateOrOva
    <3>12. /\ "FAIL" \in Checks!Status
           /\ "FAIL" = "FAIL" <=> (host.vbox # "ok" \/ Checks!NothingToClone)
      BY <2>2 DEF Checks!Status
    <3>13. /\ checkPc[p] = "template" /\ checkPc'[p] = "done"
           /\ Len(results'[p]) = Len(results[p]) + 1
      BY <3>11, <3>12, ChecksReport
    <3>14. Checks!Failed(results'[p]) <=>
               (Checks!Failed(results[p]) \/ (host.vbox # "ok" \/ Checks!NothingToClone))
      BY <3>11, <3>12, ChecksReport
    <3>15. Checks!VerdictsInv(p)'
      BY <1>1, <3>13, ChecksOneMore
    <3>16. Checks!QuietInv(p)'
      BY <1>2, <1>3, <1>4, <1>5, <3>13, <3>14 DEF Checks!QuietInv, Checks!FailsSoFar
    <3> QED
      BY <3>15, <3>16
  <2>3. CASE host.ova = 0 /\ host.vbox = "ok"
    <3>1. ~(host.ova > 0)
      BY <2>3
    <3> DEFINE st == IF host.template THEN "WARN" ELSE "FAIL"
    <3>11. checkPc[p] = "template" /\ Checks!Report(p, st, "done")
      BY <1>15, <2>3, <3>1 DEF Checks!CheckTemplateOrOva
    <3>12. /\ st \in Checks!Status
           /\ st = "FAIL" <=> (host.vbox # "ok" \/ Checks!NothingToClone)
      BY <2>3 DEF Checks!Status, Checks!NothingToClone
    <3>13. /\ checkPc[p] = "template" /\ checkPc'[p] = "done"
           /\ Len(results'[p]) = Len(results[p]) + 1
      BY <3>11, <3>12, ChecksReport
    <3>14. Checks!Failed(results'[p]) <=>
               (Checks!Failed(results[p]) \/ (host.vbox # "ok" \/ Checks!NothingToClone))
      BY <3>11, <3>12, ChecksReport
    <3>15. Checks!VerdictsInv(p)'
      BY <1>1, <3>13, ChecksOneMore
    <3>16. Checks!QuietInv(p)'
      BY <1>2, <1>3, <1>4, <1>5, <3>13, <3>14 DEF Checks!QuietInv, Checks!FailsSoFar
    <3> QED
      BY <3>15, <3>16
  <2>4. CASE host.ova = 0 /\ host.vbox \in {"failing", "hanging"}
    <3>1. ~(host.ova > 0)
      BY <2>4
    <3>11. checkPc[p] = "template" /\ Checks!Goto(p, "raised") /\ UNCHANGED results
      BY <1>15, <2>4, <3>1 DEF Checks!CheckTemplateOrOva, Checks!Raise
    <3>12. checkPc[p] = "template" /\ checkPc'[p] = "raised" /\ results'[p] = results[p]
      BY <3>11, ChecksGoto
    <3>13. Checks!VerdictsInv(p)'
      BY <1>1, <3>12, ChecksNoMore
    <3>14. Checks!QuietInv(p)'
      BY <1>2, <1>3, <1>4, <1>5, <3>12, <2>4 DEF Checks!QuietInv, Checks!FailsSoFar
    <3> QED
      BY <3>13, <3>14
  <2> QED
    BY <1>6, <2>1, <2>2, <2>3, <2>4
<1>16. CASE Checks!StatOvaForReport(p)
  <2>1. CASE host.ova = 0
    <3>1. ~(host.ova > 0)
      BY <2>1
    <3>11. checkPc[p] = "template_stat" /\ Checks!Goto(p, "raised") /\ UNCHANGED results
      BY <1>16, <2>1 DEF Checks!StatOvaForReport, Checks!Raise
    <3>12. checkPc[p] = "template_stat" /\ checkPc'[p] = "raised" /\ results'[p] = results[p]
      BY <3>11, ChecksGoto
    <3>13. Checks!VerdictsInv(p)'
      BY <1>1, <3>12, ChecksNoMore
    <3>14. Checks!QuietInv(p)'
      BY <1>2, <1>3, <1>4, <1>5, <3>12, <3>1 DEF Checks!QuietInv, Checks!FailsSoFar
    <3> QED
      BY <3>13, <3>14
  <2>2. CASE host.ova # 0
    <3>11. checkPc[p] = "template_stat" /\ Checks!Report(p, "PASS", "done")
      BY <1>16, <2>2 DEF Checks!StatOvaForReport
    <3>12. /\ "PASS" \in Checks!Status
           /\ "PASS" = "FAIL" <=> Checks!NothingToClone
      BY <2>2 DEF Checks!Status, Checks!NothingToClone
    <3>13. /\ checkPc[p] = "template_stat" /\ checkPc'[p] = "done"
           /\ Len(results'[p]) = Len(results[p]) + 1
      BY <3>11, <3>12, ChecksReport
    <3>14. Checks!Failed(results'[p]) <=> (Checks!Failed(results[p]) \/ Checks!NothingToClone)
      BY <3>11, <3>12, ChecksReport
    <3>15. Checks!VerdictsInv(p)'
      BY <1>1, <3>13, ChecksOneMore
    <3>16. Checks!QuietInv(p)'
      BY <1>2, <1>3, <1>4, <1>5, <3>13, <3>14 DEF Checks!QuietInv, Checks!FailsSoFar
    <3> QED
      BY <3>15, <3>16
  <2> QED
    BY <2>1, <2>2
<1> QED
  BY <1>7, <1>8, <1>9, <1>10, <1>11, <1>12, <1>13, <1>14, <1>15, <1>16 DEF Checks!Step

\* A command's step keeps the types; a probe file is some command's to remove.
LEMMA ChecksTypeStep ==
    ASSUME Checks!IInv, NEW p \in Procs, Checks!Step(p)
    PROVE  Checks!TypeOK' /\ (probe' => host'.writable)
<1>1. Checks!TypeOK /\ (probe => host.writable)
  BY DEF Checks!IInv
<1>2. host' = host /\ changes' = changes
  BY ChecksFrame
<1>3. \A q \in Procs : Checks!VerdictsInv(q)'
  BY ChecksOwn, ChecksOthers
<1>4. Checks!RamStatus(host.ram) \in Checks!Status
  BY <1>1, ChecksRamStatus DEF Checks!TypeOK, Checks!HostStates
<1>5. /\ host.ova \in Nat
      /\ DefaultGb \in Nat
      /\ host.vbox \in {"absent", "ok", "failing", "hanging"}
  BY <1>1, ChecksHolds, ChecksHost DEF Checks!PreflightAssumption, Checks!TypeOK
<1>6. host.ova = 0 \/ host.ova > 0
  BY <1>5
<1>7. /\ Checks!DiskStatus(p, DefaultGb) \in Checks!Status
      /\ Checks!DiskStatus(p, host.ova) \in Checks!Status
  BY <1>5, ChecksDiskStatus
<1>8. \A st \in Checks!Status, where \in Checks!Pcs : Checks!Report(p, st, where) =>
        checkPc' \in [Procs -> Checks!Pcs] /\ results' \in [Procs -> Seq(Checks!Status)]
  BY <1>1 DEF Checks!Report, Checks!Goto, Checks!TypeOK
<1>9. \A where \in Checks!Pcs : Checks!Goto(p, where) /\ UNCHANGED results =>
        checkPc' \in [Procs -> Checks!Pcs] /\ results' \in [Procs -> Seq(Checks!Status)]
  BY <1>1 DEF Checks!Goto, Checks!TypeOK
<1>10. checkPc' \in [Procs -> Checks!Pcs] /\ results' \in [Procs -> Seq(Checks!Status)]
  <2>1. CASE Checks!CheckVBoxManage(p)
    BY <2>1, <1>8, <1>9 DEF Checks!CheckVBoxManage, Checks!Raise, Checks!Status, Checks!Pcs
  <2>2. CASE Checks!CheckSshKey(p)
    BY <2>2, <1>8 DEF Checks!CheckSshKey, Checks!Status, Checks!Pcs
  <2>3. CASE Checks!WriteProbe(p)
    BY <2>3, <1>8, <1>9 DEF Checks!WriteProbe, Checks!Status, Checks!Pcs
  <2>4. CASE Checks!UnlinkProbe(p)
    BY <2>4, <1>8 DEF Checks!UnlinkProbe, Checks!Status, Checks!Pcs
  <2>5. CASE Checks!CheckHostRam(p)
    BY <2>5, <1>4, <1>8 DEF Checks!CheckHostRam, Checks!Pcs
  <2>6. CASE Checks!FindFolder(p)
    BY <2>6, <1>9 DEF Checks!FindFolder, Checks!Raise, Checks!Pcs
  <2>7. CASE Checks!MeasureDisk(p)
    BY <2>7, <1>6, <1>7, <1>8, <1>9 DEF Checks!MeasureDisk, Checks!Status, Checks!Pcs
  <2>8. CASE Checks!StatOvaForDisk(p)
    BY <2>8, <1>7, <1>8, <1>9 DEF Checks!StatOvaForDisk, Checks!Raise, Checks!Pcs
  <2>9. CASE Checks!CheckTemplateOrOva(p)
    BY <2>9, <1>5, <1>6, <1>8, <1>9 DEF Checks!CheckTemplateOrOva, Checks!Raise, Checks!Status,
       Checks!Pcs
  <2>10. CASE Checks!StatOvaForReport(p)
    BY <2>10, <1>8, <1>9 DEF Checks!StatOvaForReport, Checks!Raise, Checks!Status, Checks!Pcs
  <2> QED
    BY <2>1, <2>2, <2>3, <2>4, <2>5, <2>6, <2>7, <2>8, <2>9, <2>10 DEF Checks!Step
<1>11. /\ drive' \in [Procs -> {"vmDrive", "ovaDrive"}]
       /\ quiet' \in [Procs -> BOOLEAN]
       /\ probe' \in BOOLEAN
  <2>1. CASE Checks!FindFolder(p)
    BY <1>1, <2>1 DEF Checks!FindFolder, Checks!TypeOK
  <2>2. CASE Checks!WriteProbe(p)
    BY <1>1, <2>2 DEF Checks!WriteProbe, Checks!TypeOK, Checks!others
  <2>3. CASE Checks!UnlinkProbe(p)
    <3>1. drive' = drive /\ probe' \in BOOLEAN
      BY <1>1, <2>3 DEF Checks!UnlinkProbe, Checks!TypeOK
    <3>2. quiet' \in [Procs -> BOOLEAN]
      BY <1>1, <2>3 DEF Checks!UnlinkProbe, Checks!TypeOK
    <3> QED
      BY <1>1, <3>1, <3>2 DEF Checks!TypeOK
  <2>4. CASE UNCHANGED <<probe, Checks!others>>
    BY <1>1, <2>4 DEF Checks!others, Checks!TypeOK
  <2> QED
    BY <2>1, <2>2, <2>3, <2>4 DEF Checks!Step, Checks!CheckVBoxManage, Checks!CheckSshKey,
       Checks!CheckHostRam, Checks!MeasureDisk, Checks!StatOvaForDisk, Checks!CheckTemplateOrOva,
       Checks!StatOvaForReport
<1>12. \A q \in Procs : Len(results'[q]) <= 6 /\ (checkPc'[q] = "done" => Len(results'[q]) = 6)
  <2> SUFFICES ASSUME NEW q \in Procs
               PROVE  Len(results'[q]) <= 6 /\ (checkPc'[q] = "done" => Len(results'[q]) = 6)
    OBVIOUS
  <2>1. Checks!VerdictsInv(q)' /\ checkPc'[q] \in Checks!Pcs
    BY <1>3, <1>10
  <2>2. \/ checkPc'[q] = "raised" /\ Len(results'[q]) <= 5
        \/ checkPc'[q] = "done" /\ Len(results'[q]) = 6
        \/ checkPc'[q] # "done" /\ Len(results'[q]) \in {0, 1, 2, 3, 4, 5}
    BY <2>1 DEF Checks!VerdictsInv, Checks!Pcs
  <2>3. Len(results'[q]) \in Nat
    BY <1>10
  <2>4. Len(results'[q]) <= 5 \/ Len(results'[q]) = 6
    BY <2>2, ChecksSix
  <2>5. Len(results'[q]) <= 6
    BY <2>3, <2>4, ChecksAtMost
  <2> QED
    BY <2>2, <2>5
<1>13. /\ probe' => host'.writable
       /\ probe' => \E q \in Procs : checkPc'[q] = "unlink"
  <2>1. CASE Checks!WriteProbe(p)
    <3>1. CASE host.writable
      BY <1>1, <1>2, <2>1, <3>1 DEF Checks!WriteProbe, Checks!Goto, Checks!TypeOK
    <3>2. CASE ~host.writable
      BY <1>1, <2>1, <3>2 DEF Checks!WriteProbe
    <3> QED
      BY <3>1, <3>2
  <2>2. CASE Checks!UnlinkProbe(p)
    <3>1. CASE probe /\ host.writable
      BY <2>2, <3>1 DEF Checks!UnlinkProbe
    <3>2. CASE ~(probe /\ host.writable)
      BY <1>1, <2>2, <3>2 DEF Checks!UnlinkProbe
    <3> QED
      BY <3>1, <3>2
  <2>3. CASE probe' = probe /\ checkPc[p] # "unlink"
    <3>1. ASSUME probe PROVE \E q \in Procs : checkPc'[q] = "unlink"
      <4>1. PICK q \in Procs : checkPc[q] = "unlink"
        BY <1>1, <3>1 DEF Checks!TypeOK
      <4>2. checkPc'[q] = "unlink"
        BY <2>3, <4>1, ChecksFrame
      <4> QED
        BY <4>2
    <3> QED
      BY <1>1, <1>2, <2>3, <3>1
  <2> QED
    BY <2>1, <2>2, <2>3 DEF Checks!Step, Checks!CheckVBoxManage, Checks!CheckSshKey,
       Checks!CheckHostRam, Checks!FindFolder, Checks!MeasureDisk, Checks!StatOvaForDisk,
       Checks!CheckTemplateOrOva, Checks!StatOvaForReport
<1> QED
  BY <1>1, <1>2, <1>10, <1>11, <1>12, <1>13 DEF Checks!TypeOK

\* A change of the host keeps the invariant: it costs every command that has begun its quiet.
LEMMA ChecksHostStep ==
    ASSUME Checks!IInv, Checks!HostChanges
    PROVE  Checks!IInv'
<1>1. UNCHANGED <<probe, checkPc, results, drive>>
  BY DEF Checks!HostChanges
<1>2. \A p \in Procs : quiet'[p] => checkPc[p] = "vboxmanage"
  BY DEF Checks!HostChanges
<1>3. changes' \in 0..MaxChanges
  BY ChecksHolds DEF Checks!HostChanges, Checks!IInv, Checks!TypeOK, Checks!PreflightAssumption
<1>4. host' \in Checks!HostStates /\ host'.writable = host.writable
  <2>1. PICK v \in {"ok", "failing", "hanging"}, r \in Checks!Measured(RamValues), s \in OvaSizes :
            \/ host' = [host EXCEPT !.vbox = v]
            \/ host' = [host EXCEPT !.ram = r]
            \/ host' = [host EXCEPT !.ova = s]
    <3>1. host.ram \in Checks!Measured(RamValues) /\ host.ova \in OvaSizes
      BY DEF Checks!IInv, Checks!TypeOK, Checks!HostStates
    <3> QED
      BY <3>1 DEF Checks!HostChanges
  <2>2. host \in Checks!HostStates
    BY DEF Checks!IInv, Checks!TypeOK
  <2>3. /\ [host EXCEPT !.vbox = v] \in Checks!HostStates
        /\ [host EXCEPT !.vbox = v].writable = host.writable
    BY <2>2 DEF Checks!HostStates
  <2>4. /\ [host EXCEPT !.ram = r] \in Checks!HostStates
        /\ [host EXCEPT !.ram = r].writable = host.writable
    BY <2>2 DEF Checks!HostStates
  <2>5. /\ [host EXCEPT !.ova = s] \in Checks!HostStates
        /\ [host EXCEPT !.ova = s].writable = host.writable
    BY <2>2 DEF Checks!HostStates
  <2> QED
    BY <2>1, <2>3, <2>4, <2>5
<1>5. quiet' \in [Procs -> BOOLEAN]
  BY DEF Checks!HostChanges, Checks!IInv, Checks!TypeOK
<1>6. Checks!TypeOK'
  BY <1>1, <1>3, <1>4, <1>5 DEF Checks!IInv, Checks!TypeOK
<1>7. ASSUME NEW p \in Procs PROVE Checks!VerdictsInv(p)' /\ Checks!QuietInv(p)'
  <2>1. Checks!VerdictsInv(p)'
    BY <1>1 DEF Checks!IInv, Checks!VerdictsInv
  <2>2. ASSUME quiet'[p] PROVE ~Checks!Failed(results'[p]) /\ checkPc'[p] = "vboxmanage"
    <3>1. checkPc[p] = "vboxmanage" /\ Len(results[p]) = 0 /\ results[p] \in Seq(Checks!Status)
      BY <1>2, <2>2 DEF Checks!IInv, Checks!VerdictsInv, Checks!TypeOK
    <3>2. DOMAIN results[p] = {}
      BY <3>1
    <3> QED
      BY <1>1, <3>1, <3>2 DEF Checks!Failed
  <2>3. Checks!QuietInv(p)'
    BY <2>2 DEF Checks!QuietInv, Checks!FailsSoFar
  <2> QED
    BY <2>1, <2>3
<1> QED
  BY <1>1, <1>4, <1>6, <1>7 DEF Checks!IInv

\* The invariant holds in every reachable state.
THEOREM ChecksInductive == Checks!Spec => []Checks!IInv
<1>1. Checks!IInv /\ [Checks!Next]_Checks!vars => Checks!IInv'
  <2> SUFFICES ASSUME Checks!IInv, [Checks!Next]_Checks!vars PROVE Checks!IInv'
    OBVIOUS
  <2>1. CASE Checks!HostChanges
    BY <2>1, ChecksHostStep
  <2>2. ASSUME NEW p \in Procs, Checks!Step(p) PROVE Checks!IInv'
    <3>1. Checks!TypeOK' /\ (probe' => host'.writable)
      BY <2>2, ChecksTypeStep
    <3>2. \A q \in Procs : Checks!VerdictsInv(q)' /\ Checks!QuietInv(q)'
      BY <2>2, ChecksOwn, ChecksOthers
    <3> QED
      BY <3>1, <3>2 DEF Checks!IInv
  <2>3. CASE UNCHANGED Checks!vars
    BY <2>3 DEF Checks!vars, Checks!IInv, Checks!TypeOK, Checks!VerdictsInv, Checks!QuietInv,
       Checks!FailsSoFar, Checks!ShortOfRam, Checks!ShortOfDisk, Checks!NothingToClone
  <2> QED
    BY <2>1, <2>2, <2>3 DEF Checks!Next
<1> QED
  BY <1>1, ChecksInitInv, PTL DEF Checks!Spec

\* The checks keep their types.
THEOREM ChecksTypeCorrect == Checks!Spec => []Checks!TypeOK
<1>1. Checks!IInv => Checks!TypeOK
  BY DEF Checks!IInv
<1> QED
  BY <1>1, ChecksInductive, PTL

\* On a host nobody changed meanwhile, run_preflight refuses a deployment exactly where it is
\* blocked, and ends in an exception only where VBoxManage is there and does not work.
THEOREM VerdictsExplained == Checks!Spec => []Checks!VerdictExplained
<1>1. Checks!IInv => Checks!VerdictExplained
  <2> SUFFICES ASSUME Checks!IInv PROVE Checks!VerdictExplained
    OBVIOUS
  <2>1. ASSUME NEW p \in Procs, checkPc[p] = "done", quiet[p]
        PROVE  Checks!WorstStatus(results[p]) = "FAIL" <=> Checks!Blocked
    <3>1. Checks!Failed(results[p]) <=> Checks!FailsSoFar(p)
      BY <2>1 DEF Checks!IInv, Checks!QuietInv
    <3>2. Checks!FailsSoFar(p) <=> Checks!Blocked
      BY <2>1 DEF Checks!FailsSoFar, Checks!Blocked
    <3> QED
      BY <3>1, <3>2, ChecksWorst
  <2>2. ASSUME NEW p \in Procs, checkPc[p] = "raised", quiet[p]
        PROVE  host.vbox \in {"failing", "hanging"}
    BY <2>2 DEF Checks!IInv, Checks!QuietInv
  <2> QED
    BY <2>1, <2>2 DEF Checks!VerdictExplained, Checks!VerdictRight, Checks!CrashExplained
<1> QED
  BY <1>1, ChecksInductive, PTL


-----------------------------------------------------------------------------
(* The properties of the run. *)

\* While no writers overlap and none dies in a write, the manifest is what the Python and the Go
\* commands make of it one after another; an unreadable one is a killed Python command's work.
THEOREM ManifestIsKept == Manifest!Spec => []ManifestKept
BY AuditTrail, PTL DEF ManifestKept

\* A build that returned left the binary of the sources as they are, compiled by a toolchain that
\* came from no archive but the one with the pinned hash.
THEOREM BinaryIsTrustworthy == Binary!Spec => []BinaryTrusted
BY BinaryIsTrusted, PTL DEF BinaryTrusted

\* On a host that did not change run_preflight refuses exactly a deployment that is blocked, the
\* checks of another command at the same time notwithstanding.
THEOREM VerdictIsExplained == Checks!Spec => []VerdictExplained
BY VerdictsExplained, PTL DEF VerdictExplained

\* The variables of all four components keep their types.
THEOREM WorkstationTypeCorrect ==
    Setup!Spec /\ Manifest!Spec /\ Checks!Spec /\ Binary!Spec => []TypeOK
BY SetupTypeCorrect, ManifestTypeCorrect, ChecksTypeCorrect, BinaryTypeCorrect, PTL DEF TypeOK

===============================================================================
