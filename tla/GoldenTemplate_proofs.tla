------------------------ MODULE GoldenTemplate_proofs ------------------------
(***************************************************************************)
(* Proofs about `vmdeploy template' for any number of commands, each       *)
(* failing or dying anywhere.                                              *)
(***************************************************************************)
EXTENDS GoldenTemplate, SequenceTheorems, TLAPS

\* A step on the box yields a disk.
LEMMA DiskUpdates ==
    ASSUME NEW d \in Disks
    PROVE  /\ [d EXCEPT !.booted = TRUE] \in Disks
           /\ [d EXCEPT !.baked = TRUE] \in Disks
           /\ [d EXCEPT !.keys = FALSE] \in Disks
           /\ [d EXCEPT !.optout = FALSE] \in Disks
           /\ [d EXCEPT !.dropins = FALSE, !.instance = FALSE] \in Disks
           /\ [d EXCEPT !.dropins = TRUE] \in Disks
<1>1. [d EXCEPT !.booted = TRUE] \in Disks
  BY DEF Disks
<1>2. [d EXCEPT !.baked = TRUE] \in Disks
  BY DEF Disks
<1>3. [d EXCEPT !.keys = FALSE] \in Disks
  BY DEF Disks
<1>4. [d EXCEPT !.optout = FALSE] \in Disks
  BY DEF Disks
<1>5. [d EXCEPT !.dropins = FALSE, !.instance = FALSE] \in Disks
  BY DEF Disks
<1>6. [d EXCEPT !.dropins = TRUE] \in Disks
  BY DEF Disks
<1> QED
  BY <1>1, <1>2, <1>3, <1>4, <1>5, <1>6

\* What is first, last and left in the sequence of snapshots a build works with.
LEMMA HeadOfAppend ==
    ASSUME NEW s \in Seq(Disks), NEW d \in Disks
    PROVE  /\ Append(s, d) # <<>>
           /\ Head(Append(s, d)) = IF s = <<>> THEN d ELSE Head(s)
           /\ \E i \in DOMAIN Append(s, d) : Append(s, d)[i] = d
           /\ s # <<>> => \E i \in DOMAIN Tail(Append(s, d)) : Tail(Append(s, d))[i] = d
<1> DEFINE t == Append(s, d)
<1>1. /\ t \in Seq(Disks) /\ Len(t) = Len(s) + 1 /\ t[Len(s) + 1] = d
      /\ \A i \in 1..Len(s) : t[i] = s[i]
  BY AppendProperties
<1>2. Len(s) \in Nat /\ (s = <<>> <=> Len(s) = 0)
  BY EmptySeq
<1>3. t # <<>>
  BY <1>1, <1>2, EmptySeq
<1> HIDE DEF t
<1>4. Head(t) = t[1] /\ (s # <<>> => Head(s) = s[1])
  OBVIOUS
<1>5. Head(t) = IF s = <<>> THEN d ELSE Head(s)
  BY <1>1, <1>2, <1>4
<1>6. \E i \in DOMAIN t : t[i] = d
  BY <1>1, <1>2
<1>7. ASSUME s # <<>> PROVE \E i \in DOMAIN Tail(t) : Tail(t)[i] = d
  <2>1. /\ Tail(t) \in Seq(Disks) /\ Len(Tail(t)) = Len(s)
        /\ \A i \in 1..Len(Tail(t)) : Tail(t)[i] = t[i + 1]
    BY <1>1, <1>2, <1>3, HeadTailProperties
  <2>2. Len(s) \in 1..Len(Tail(t)) /\ DOMAIN Tail(t) = 1..Len(Tail(t))
    BY <1>2, <1>7, <2>1
  <2> QED
    BY <1>1, <2>1, <2>2
<1> QED
  BY <1>3, <1>5, <1>6, <1>7 DEF t

\* A step of the session, whichever guest it is on, keeps the types.
LEMMA SessionTypes ==
    ASSUME TypeOK, NEW from, NEW to \in Pcs, NEW disk, OnTarget(from, to, disk),
           disk \in {box, Target, [Target EXCEPT !.baked = TRUE], [Target EXCEPT !.keys = FALSE],
                     [Target EXCEPT !.optout = FALSE], [Target EXCEPT !.dropins = TRUE],
                     [Target EXCEPT !.dropins = FALSE, !.instance = FALSE]}
    PROVE  TypeOK'
<1>1. box \in Disks /\ Target \in Disks
  BY DEF TypeOK, Target
<1>2. disk \in Disks
  BY <1>1, DiskUpdates
<1>3. box' \in Disks /\ other' \in Disks /\ pc' \in Pcs
  BY <1>2 DEF TypeOK, OnTarget, Goto
<1> QED
  BY <1>3 DEF TypeOK, OnTarget, Goto, history, sessionVars

\* Every step keeps the types.
LEMMA TypeStep == IInv /\ [Next]_vars => TypeOK'
<1> SUFFICES ASSUME IInv, [Next]_vars PROVE TypeOK'
  OBVIOUS
<1> USE DEF IInv, TypeOK, Disks, NoOva, Pristine, Pcs, PrePcs, TryPcs, FinallyPcs, ExportPcs, ArmedPcs, hostVars, sessionVars, history
<1>1. CASE CmdTemplate
  <2> HIDE DEF Disks, NoOva, Pristine
  <2>1. runs' \in 0..MaxRuns
    BY <1>1, MaxRunsAssumption DEF CmdTemplate
  <2>2. mode' \in {"build", "asis"} /\ pc' \in Pcs
    BY <1>1 DEF CmdTemplate
  <2>3. result' = "none" /\ fault' = FALSE /\ before' \in Disks /\ away' = FALSE
    BY <1>1 DEF CmdTemplate
  <2>5. left' \in Seq(Disks)
    BY <1>1, EmptySeq DEF CmdTemplate
  <2>4. UNCHANGED <<hostVars, sudoers, envSet>>
    BY <1>1 DEF CmdTemplate
  <2> QED
    BY <2>1, <2>2, <2>3, <2>4, <2>5
<1>2. CASE StepRaises
  BY <1>2 DEF StepRaises, Raise
<1>3. CASE Killed
  BY <1>3 DEF Killed
<1>4. CASE PowerOff("poweroff", "snapdelete")
  BY <1>4 DEF PowerOff, Goto
<1>5. CASE PowerOff("powerdown", "unlink")
  BY <1>5 DEF PowerOff, Goto
<1>6. CASE PowerOff("f_poweroff", "f_restore")
  BY <1>6 DEF PowerOff, Goto
<1>7. CASE PowerOff("x_poweroff", "x_unlink")
  BY <1>7 DEF PowerOff, Goto
<1>8. CASE SnapshotDelete
  <2> HIDE DEF Disks
  <2>1. snaps' \in Seq(Disks)
    <3>1. CASE UNCHANGED snaps
      BY <1>8, <3>1 DEF SnapshotDelete
    <3>2. CASE snaps # <<>> /\ snaps' = Tail(snaps)
      BY <1>8, <3>2, HeadTailProperties DEF SnapshotDelete
    <3> QED
      BY <1>8, <3>1, <3>2 DEF SnapshotDelete
  <2> QED
    BY <1>8, <2>1 DEF SnapshotDelete
<1>9. CASE SnapshotTake
  BY <1>9 DEF SnapshotTake, Goto
<1>10. CASE StartHeadless
  <2> HIDE DEF Disks
  <2>1. box' = [box EXCEPT !.booted = TRUE]
    BY <1>10 DEF StartHeadless, Goto
  <2>2. box' \in Disks
    BY <2>1, DiskUpdates
  <2> QED
    BY <1>10, <2>2 DEF StartHeadless, Goto
<1>11. CASE ExportUnlink("unlink", "export")
  BY <1>11 DEF ExportUnlink, Goto
<1>12. CASE ExportUnlink("x_unlink", "x_export")
  BY <1>12 DEF ExportUnlink, Goto
<1>13. CASE Export("export") /\ Goto("export", "f_poweroff")
  BY <1>13 DEF Export, By, Goto
<1>14. CASE ExportRaises
  BY <1>14 DEF ExportRaises, By, Raise
<1>15. CASE ExportDone
  BY <1>15 DEF ExportDone, Export, By
<1>16. CASE Restore
  <2> HIDE DEF Disks
  <2>1. box' \in Disks
    BY <1>16, HeadTailProperties DEF Restore
  <2> QED
    BY <1>16, <2>1 DEF Restore, Goto
<1>17. CASE Rollback
  <2> HIDE DEF Disks
  <2>1. snaps # <<>>
    BY <1>17, HeadOfAppend DEF Rollback, RollbackInv
  <2>2. snaps' \in Seq(Disks)
    <3>1. Tail(snaps) \in Seq(Disks)
      BY <2>1, HeadTailProperties
    <3> QED
      BY <1>17, <3>1 DEF Rollback
  <2> QED
    BY <1>17, <2>2 DEF Rollback
<1>18. CASE Reach
  BY <1>18, SessionTypes DEF Reach
<1>19. CASE ReachTimesOut
  BY <1>19 DEF ReachTimesOut, Raise
<1>20. CASE Bake
  BY <1>20, SessionTypes DEF Bake
<1>21. CASE Purge
  BY <1>21, SessionTypes DEF Purge
<1>22. CASE PurgeIncomplete
  BY <1>22 DEF PurgeIncomplete
<1>23. CASE Tooling
  BY <1>23, SessionTypes DEF Tooling
<1>24. CASE VerifyNoKeys
  BY <1>24, SessionTypes DEF VerifyNoKeys
<1>25. CASE KeysSurvived
  BY <1>25 DEF KeysSurvived, Raise, SudoRan, Target
<1>26. CASE RemoveOptout
  BY <1>26, SessionTypes DEF RemoveOptout
<1>27. CASE CloudInitClean
  BY <1>27, SessionTypes DEF CloudInitClean
<1>28. CASE WriteDropins
  BY <1>28, SessionTypes DEF WriteDropins
<1>29. CASE VerifyArmed
  BY <1>29, SessionTypes DEF VerifyArmed
<1>30. CASE NotArmed
  BY <1>30 DEF NotArmed, Raise, SudoRan, Target, Armed
<1>31. ASSUME NEW p \in {"bake", "purge", "tooling", "optout", "clean", "dropins"}, SudoRefused(p)
      PROVE  TypeOK'
  BY <1>31 DEF SudoRefused, Raise, SudoWorks, SudoRan
<1>32. CASE CleanFails
  <2>1. CASE envSet
    BY <1>32, <2>1 DEF CleanFails
  <2>2. CASE ~envSet
    BY <1>32, <2>2 DEF CleanFails, Raise
  <2> QED
    BY <2>1, <2>2
<1>33. CASE ReachOther
  BY <1>33 DEF ReachOther, Deployed
<1>34. CASE UNCHANGED vars
  BY <1>34 DEF vars
<1> HIDE DEF IInv, TypeOK, Disks, NoOva, Pristine
<1> QED
  BY <1>1, <1>2, <1>3, <1>4, <1>5, <1>6, <1>7, <1>8, <1>9, <1>10, <1>11, <1>12, <1>13, <1>14, <1>15, <1>16, <1>17, <1>18, <1>19, <1>20, <1>21, <1>22, <1>23, <1>24, <1>25, <1>26, <1>27, <1>28, <1>29, <1>30, <1>31, <1>32, <1>33, <1>34
  DEF Next, Hypervisor, Session

\* Every step keeps to its mode.
LEMMA ControlStep == IInv /\ [Next]_vars => ControlInv'
<1> SUFFICES ASSUME IInv, [Next]_vars PROVE ControlInv'
  OBVIOUS
<1> USE DEF IInv, TypeOK, ControlInv, Pcs, PrePcs, TryPcs, FinallyPcs, ExportPcs, ArmedPcs, hostVars, sessionVars, history
<1>1. CASE CmdTemplate
  BY <1>1 DEF CmdTemplate
<1>2. CASE StepRaises
  BY <1>2 DEF StepRaises, Raise
<1>3. CASE Killed
  BY <1>3 DEF Killed
<1>4. CASE PowerOff("poweroff", "snapdelete")
  BY <1>4 DEF PowerOff, Goto
<1>5. CASE PowerOff("powerdown", "unlink")
  BY <1>5 DEF PowerOff, Goto
<1>6. CASE PowerOff("f_poweroff", "f_restore")
  BY <1>6 DEF PowerOff, Goto
<1>7. CASE PowerOff("x_poweroff", "x_unlink")
  BY <1>7 DEF PowerOff, Goto
<1>8. CASE SnapshotDelete
  BY <1>8 DEF SnapshotDelete
<1>9. CASE SnapshotTake
  BY <1>9 DEF SnapshotTake, Goto
<1>10. CASE StartHeadless
  BY <1>10 DEF StartHeadless, Goto
<1>11. CASE ExportUnlink("unlink", "export")
  BY <1>11 DEF ExportUnlink, Goto
<1>12. CASE ExportUnlink("x_unlink", "x_export")
  BY <1>12 DEF ExportUnlink, Goto
<1>13. CASE Export("export") /\ Goto("export", "f_poweroff")
  BY <1>13 DEF Export, By, Goto
<1>14. CASE ExportRaises
  BY <1>14 DEF ExportRaises, By, Raise
<1>15. CASE ExportDone
  BY <1>15 DEF ExportDone, Export, By
<1>16. CASE Restore
  BY <1>16 DEF Restore, Goto
<1>17. CASE Rollback
  BY <1>17 DEF Rollback
<1>18. CASE Reach
  BY <1>18 DEF Reach, OnTarget, Goto
<1>19. CASE ReachTimesOut
  BY <1>19 DEF ReachTimesOut, Raise
<1>20. CASE Bake
  BY <1>20 DEF Bake, OnTarget, Goto, SudoWorks, SudoRan, Target
<1>21. CASE Purge
  BY <1>21 DEF Purge, OnTarget, Goto, SudoWorks, SudoRan, Target
<1>22. CASE PurgeIncomplete
  BY <1>22 DEF PurgeIncomplete, SudoWorks, SudoRan
<1>23. CASE Tooling
  BY <1>23 DEF Tooling, OnTarget, Goto, SudoWorks, SudoRan, Target
<1>24. CASE VerifyNoKeys
  BY <1>24 DEF VerifyNoKeys, OnTarget, Goto, SudoRan, Target
<1>25. CASE KeysSurvived
  BY <1>25 DEF KeysSurvived, Raise, SudoRan, Target
<1>26. CASE RemoveOptout
  BY <1>26 DEF RemoveOptout, OnTarget, Goto, SudoWorks, SudoRan, Target
<1>27. CASE CloudInitClean
  BY <1>27 DEF CloudInitClean, OnTarget, Goto, SudoWorks, SudoRan, Target
<1>28. CASE WriteDropins
  BY <1>28 DEF WriteDropins, OnTarget, Goto, SudoWorks, SudoRan, Target
<1>29. CASE VerifyArmed
  BY <1>29 DEF VerifyArmed, OnTarget, Goto, SudoRan, Target, Armed
<1>30. CASE NotArmed
  BY <1>30 DEF NotArmed, Raise, SudoRan, Target, Armed
<1>31. ASSUME NEW p \in {"bake", "purge", "tooling", "optout", "clean", "dropins"}, SudoRefused(p)
      PROVE  ControlInv'
  BY <1>31 DEF SudoRefused, Raise, SudoWorks, SudoRan
<1>32. CASE CleanFails
  BY <1>32 DEF CleanFails, Raise
<1>33. CASE ReachOther
  BY <1>33 DEF ReachOther
<1>34. CASE UNCHANGED vars
  BY <1>34 DEF vars
<1> HIDE DEF IInv, TypeOK, ControlInv
<1> QED
  BY <1>1, <1>2, <1>3, <1>4, <1>5, <1>6, <1>7, <1>8, <1>9, <1>10, <1>11, <1>12, <1>13, <1>14, <1>15, <1>16, <1>17, <1>18, <1>19, <1>20, <1>21, <1>22, <1>23, <1>24, <1>25, <1>26, <1>27, <1>28, <1>29, <1>30, <1>31, <1>32, <1>33, <1>34
  DEF Next, Hypervisor, Session

\* Every step moves the disk as its place in the build says.
LEMMA DiskStep == IInv /\ [Next]_vars => DiskInv'
<1> SUFFICES ASSUME IInv, [Next]_vars PROVE DiskInv'
  OBVIOUS
<1> USE DEF IInv, TypeOK, Disks, ControlInv, DiskInv, Target, SudoRan, Pcs, PrePcs, TryPcs, FinallyPcs, ExportPcs, ArmedPcs, hostVars, sessionVars, history
<1>1. CASE CmdTemplate
  BY <1>1 DEF CmdTemplate
<1>2. CASE StepRaises
  BY <1>2 DEF StepRaises, Raise
<1>3. CASE Killed
  BY <1>3 DEF Killed
<1>4. CASE PowerOff("poweroff", "snapdelete")
  BY <1>4 DEF PowerOff, Goto
<1>5. CASE PowerOff("powerdown", "unlink")
  BY <1>5 DEF PowerOff, Goto
<1>6. CASE PowerOff("f_poweroff", "f_restore")
  BY <1>6 DEF PowerOff, Goto
<1>7. CASE PowerOff("x_poweroff", "x_unlink")
  BY <1>7 DEF PowerOff, Goto
<1>8. CASE SnapshotDelete
  BY <1>8 DEF SnapshotDelete
<1>9. CASE SnapshotTake
  BY <1>9 DEF SnapshotTake, Goto
<1>10. CASE StartHeadless
  BY <1>10 DEF StartHeadless, Goto
<1>11. CASE ExportUnlink("unlink", "export")
  BY <1>11 DEF ExportUnlink, Goto
<1>12. CASE ExportUnlink("x_unlink", "x_export")
  BY <1>12 DEF ExportUnlink, Goto
<1>13. CASE Export("export") /\ Goto("export", "f_poweroff")
  BY <1>13 DEF Export, By, Goto
<1>14. CASE ExportRaises
  BY <1>14 DEF ExportRaises, By, Raise
<1>15. CASE ExportDone
  BY <1>15 DEF ExportDone, Export, By
<1>16. CASE Restore
  BY <1>16 DEF Restore, Goto
<1>17. CASE Rollback
  BY <1>17 DEF Rollback
<1>18. CASE Reach
  BY <1>18 DEF Reach, OnTarget, Goto
<1>19. CASE ReachTimesOut
  BY <1>19 DEF ReachTimesOut, Raise
<1>20. CASE Bake
  BY <1>20 DEF Bake, OnTarget, Goto, SudoWorks, SudoRan, Target
<1>21. CASE Purge
  BY <1>21 DEF Purge, OnTarget, Goto, SudoWorks, SudoRan, Target
<1>22. CASE PurgeIncomplete
  BY <1>22 DEF PurgeIncomplete, SudoWorks, SudoRan
<1>23. CASE Tooling
  BY <1>23 DEF Tooling, OnTarget, Goto, SudoWorks, SudoRan, Target
<1>24. CASE VerifyNoKeys
  BY <1>24 DEF VerifyNoKeys, OnTarget, Goto, SudoRan, Target
<1>25. CASE KeysSurvived
  BY <1>25 DEF KeysSurvived, Raise, SudoRan, Target
<1>26. CASE RemoveOptout
  BY <1>26 DEF RemoveOptout, OnTarget, Goto, SudoWorks, SudoRan, Target
<1>27. CASE CloudInitClean
  BY <1>27 DEF CloudInitClean, OnTarget, Goto, SudoWorks, SudoRan, Target
<1>28. CASE WriteDropins
  BY <1>28 DEF WriteDropins, OnTarget, Goto, SudoWorks, SudoRan, Target
<1>29. CASE VerifyArmed
  BY <1>29 DEF VerifyArmed, OnTarget, Goto, SudoRan, Target, Armed
<1>30. CASE NotArmed
  BY <1>30 DEF NotArmed, Raise, SudoRan, Target, Armed
<1>31. ASSUME NEW p \in {"bake", "purge", "tooling", "optout", "clean", "dropins"}, SudoRefused(p)
      PROVE  DiskInv'
  BY <1>31 DEF SudoRefused, Raise, SudoWorks, SudoRan
<1>32. CASE CleanFails
  BY <1>32 DEF CleanFails, Raise
<1>33. CASE ReachOther
  BY <1>33 DEF ReachOther, Deployed
<1>34. CASE UNCHANGED vars
  BY <1>34 DEF vars
<1> HIDE DEF IInv, TypeOK, Disks, ControlInv, DiskInv, Target, SudoRan
<1> QED
  BY <1>1, <1>2, <1>3, <1>4, <1>5, <1>6, <1>7, <1>8, <1>9, <1>10, <1>11, <1>12, <1>13, <1>14, <1>15, <1>16, <1>17, <1>18, <1>19, <1>20, <1>21, <1>22, <1>23, <1>24, <1>25, <1>26, <1>27, <1>28, <1>29, <1>30, <1>31, <1>32, <1>33, <1>34
  DEF Next, Hypervisor, Session

\* Every step keeps the prior state in the newest snapshot until the end.
LEMMA RollbackStep == IInv /\ [Next]_vars => RollbackInv'
<1> SUFFICES ASSUME IInv, [Next]_vars PROVE RollbackInv'
  OBVIOUS
<1> USE DEF IInv, TypeOK, Disks, DiskInv, RollbackInv, RolledBackTo, Pcs, PrePcs, TryPcs, FinallyPcs, ExportPcs, ArmedPcs, hostVars, sessionVars, history
<1>1. CASE CmdTemplate
  BY <1>1 DEF CmdTemplate
<1>2. CASE StepRaises
  BY <1>2 DEF StepRaises, Raise
<1>3. CASE Killed
  BY <1>3 DEF Killed
<1>4. CASE PowerOff("poweroff", "snapdelete")
  BY <1>4 DEF PowerOff, Goto
<1>5. CASE PowerOff("powerdown", "unlink")
  BY <1>5 DEF PowerOff, Goto
<1>6. CASE PowerOff("f_poweroff", "f_restore")
  BY <1>6 DEF PowerOff, Goto
<1>7. CASE PowerOff("x_poweroff", "x_unlink")
  BY <1>7 DEF PowerOff, Goto
<1>8. CASE SnapshotDelete
  BY <1>8 DEF SnapshotDelete
<1>9. CASE SnapshotTake
  BY <1>9 DEF SnapshotTake, Goto
<1>10. CASE StartHeadless
  BY <1>10 DEF StartHeadless, Goto
<1>11. CASE ExportUnlink("unlink", "export")
  BY <1>11 DEF ExportUnlink, Goto
<1>12. CASE ExportUnlink("x_unlink", "x_export")
  BY <1>12 DEF ExportUnlink, Goto
<1>13. CASE Export("export") /\ Goto("export", "f_poweroff")
  BY <1>13 DEF Export, By, Goto
<1>14. CASE ExportRaises
  BY <1>14 DEF ExportRaises, By, Raise
<1>15. CASE ExportDone
  BY <1>15 DEF ExportDone, Export, By
<1>16. CASE Restore
  <2> HIDE DEF Disks
  <2>1. snaps = Append(left, before) /\ box' = Head(snaps)
    BY <1>16 DEF Restore, Goto
  <2>2. Head(snaps) = RolledBackTo
    BY <2>1, HeadOfAppend
  <2> QED
    BY <1>16, <2>1, <2>2 DEF Restore, Goto
<1>17. CASE Rollback
  BY <1>17 DEF Rollback
<1>18. CASE Reach
  BY <1>18 DEF Reach, OnTarget, Goto
<1>19. CASE ReachTimesOut
  BY <1>19 DEF ReachTimesOut, Raise
<1>20. CASE Bake
  BY <1>20 DEF Bake, OnTarget, Goto, SudoWorks, SudoRan, Target
<1>21. CASE Purge
  BY <1>21 DEF Purge, OnTarget, Goto, SudoWorks, SudoRan, Target
<1>22. CASE PurgeIncomplete
  BY <1>22 DEF PurgeIncomplete, SudoWorks, SudoRan
<1>23. CASE Tooling
  BY <1>23 DEF Tooling, OnTarget, Goto, SudoWorks, SudoRan, Target
<1>24. CASE VerifyNoKeys
  BY <1>24 DEF VerifyNoKeys, OnTarget, Goto, SudoRan, Target
<1>25. CASE KeysSurvived
  BY <1>25 DEF KeysSurvived, Raise, SudoRan, Target
<1>26. CASE RemoveOptout
  BY <1>26 DEF RemoveOptout, OnTarget, Goto, SudoWorks, SudoRan, Target
<1>27. CASE CloudInitClean
  BY <1>27 DEF CloudInitClean, OnTarget, Goto, SudoWorks, SudoRan, Target
<1>28. CASE WriteDropins
  BY <1>28 DEF WriteDropins, OnTarget, Goto, SudoWorks, SudoRan, Target
<1>29. CASE VerifyArmed
  BY <1>29 DEF VerifyArmed, OnTarget, Goto, SudoRan, Target, Armed
<1>30. CASE NotArmed
  BY <1>30 DEF NotArmed, Raise, SudoRan, Target, Armed
<1>31. ASSUME NEW p \in {"bake", "purge", "tooling", "optout", "clean", "dropins"}, SudoRefused(p)
      PROVE  RollbackInv'
  BY <1>31 DEF SudoRefused, Raise, SudoWorks, SudoRan
<1>32. CASE CleanFails
  BY <1>32 DEF CleanFails, Raise
<1>33. CASE ReachOther
  BY <1>33 DEF ReachOther
<1>34. CASE UNCHANGED vars
  BY <1>34 DEF vars
<1> HIDE DEF IInv, TypeOK, Disks, DiskInv, RollbackInv, RolledBackTo
<1> QED
  BY <1>1, <1>2, <1>3, <1>4, <1>5, <1>6, <1>7, <1>8, <1>9, <1>10, <1>11, <1>12, <1>13, <1>14, <1>15, <1>16, <1>17, <1>18, <1>19, <1>20, <1>21, <1>22, <1>23, <1>24, <1>25, <1>26, <1>27, <1>28, <1>29, <1>30, <1>31, <1>32, <1>33, <1>34
  DEF Next, Hypervisor, Session

\* Every step keeps an exported image clean.
LEMMA ImageStep == IInv /\ [Next]_vars => PublishedImageClean'
<1> SUFFICES ASSUME IInv, [Next]_vars PROVE PublishedImageClean'
  OBVIOUS
<1> USE DEF IInv, TypeOK, Disks, NoOva, ControlInv, DiskInv, Target, SudoRan, PublishedImageClean, Pcs, PrePcs, TryPcs, FinallyPcs, ExportPcs, ArmedPcs, hostVars, sessionVars, history
<1>1. CASE CmdTemplate
  BY <1>1 DEF CmdTemplate
<1>2. CASE StepRaises
  BY <1>2 DEF StepRaises, Raise
<1>3. CASE Killed
  BY <1>3 DEF Killed
<1>4. CASE PowerOff("poweroff", "snapdelete")
  BY <1>4 DEF PowerOff, Goto
<1>5. CASE PowerOff("powerdown", "unlink")
  BY <1>5 DEF PowerOff, Goto
<1>6. CASE PowerOff("f_poweroff", "f_restore")
  BY <1>6 DEF PowerOff, Goto
<1>7. CASE PowerOff("x_poweroff", "x_unlink")
  BY <1>7 DEF PowerOff, Goto
<1>8. CASE SnapshotDelete
  BY <1>8 DEF SnapshotDelete
<1>9. CASE SnapshotTake
  BY <1>9 DEF SnapshotTake, Goto
<1>10. CASE StartHeadless
  BY <1>10 DEF StartHeadless, Goto
<1>11. CASE ExportUnlink("unlink", "export")
  BY <1>11 DEF ExportUnlink, Goto
<1>12. CASE ExportUnlink("x_unlink", "x_export")
  BY <1>12 DEF ExportUnlink, Goto
<1>13. CASE Export("export") /\ Goto("export", "f_poweroff")
  BY <1>13 DEF Export, By, Goto
<1>14. CASE ExportRaises
  BY <1>14 DEF ExportRaises, By, Raise
<1>15. CASE ExportDone
  BY <1>15 DEF ExportDone, Export, By
<1>16. CASE Restore
  BY <1>16 DEF Restore, Goto
<1>17. CASE Rollback
  BY <1>17 DEF Rollback
<1>18. CASE Reach
  BY <1>18 DEF Reach, OnTarget, Goto
<1>19. CASE ReachTimesOut
  BY <1>19 DEF ReachTimesOut, Raise
<1>20. CASE Bake
  BY <1>20 DEF Bake, OnTarget, Goto, SudoWorks, SudoRan, Target
<1>21. CASE Purge
  BY <1>21 DEF Purge, OnTarget, Goto, SudoWorks, SudoRan, Target
<1>22. CASE PurgeIncomplete
  BY <1>22 DEF PurgeIncomplete, SudoWorks, SudoRan
<1>23. CASE Tooling
  BY <1>23 DEF Tooling, OnTarget, Goto, SudoWorks, SudoRan, Target
<1>24. CASE VerifyNoKeys
  BY <1>24 DEF VerifyNoKeys, OnTarget, Goto, SudoRan, Target
<1>25. CASE KeysSurvived
  BY <1>25 DEF KeysSurvived, Raise, SudoRan, Target
<1>26. CASE RemoveOptout
  BY <1>26 DEF RemoveOptout, OnTarget, Goto, SudoWorks, SudoRan, Target
<1>27. CASE CloudInitClean
  BY <1>27 DEF CloudInitClean, OnTarget, Goto, SudoWorks, SudoRan, Target
<1>28. CASE WriteDropins
  BY <1>28 DEF WriteDropins, OnTarget, Goto, SudoWorks, SudoRan, Target
<1>29. CASE VerifyArmed
  BY <1>29 DEF VerifyArmed, OnTarget, Goto, SudoRan, Target, Armed
<1>30. CASE NotArmed
  BY <1>30 DEF NotArmed, Raise, SudoRan, Target, Armed
<1>31. ASSUME NEW p \in {"bake", "purge", "tooling", "optout", "clean", "dropins"}, SudoRefused(p)
      PROVE  PublishedImageClean'
  BY <1>31 DEF SudoRefused, Raise, SudoWorks, SudoRan
<1>32. CASE CleanFails
  BY <1>32 DEF CleanFails, Raise
<1>33. CASE ReachOther
  BY <1>33 DEF ReachOther
<1>34. CASE UNCHANGED vars
  BY <1>34 DEF vars
<1> HIDE DEF IInv, TypeOK, Disks, NoOva, ControlInv, DiskInv, Target, SudoRan, PublishedImageClean
<1> QED
  BY <1>1, <1>2, <1>3, <1>4, <1>5, <1>6, <1>7, <1>8, <1>9, <1>10, <1>11, <1>12, <1>13, <1>14, <1>15, <1>16, <1>17, <1>18, <1>19, <1>20, <1>21, <1>22, <1>23, <1>24, <1>25, <1>26, <1>27, <1>28, <1>29, <1>30, <1>31, <1>32, <1>33, <1>34
  DEF Next, Hypervisor, Session

\* Every step keeps the prior state recoverable.
LEMMA PriorStep == IInv /\ [Next]_vars => PriorStateRecoverable'
<1> SUFFICES ASSUME IInv, [Next]_vars PROVE PriorStateRecoverable'
  OBVIOUS
<1> USE DEF IInv, TypeOK, Disks, ControlInv, DiskInv, RollbackInv, PriorStateRecoverable, Pcs, PrePcs, TryPcs, FinallyPcs, ExportPcs, ArmedPcs, hostVars, sessionVars, history
<1>1. CASE CmdTemplate
  BY <1>1 DEF CmdTemplate
<1>2. CASE StepRaises
  BY <1>2 DEF StepRaises, Raise
<1>3. CASE Killed
  BY <1>3 DEF Killed
<1>4. CASE PowerOff("poweroff", "snapdelete")
  BY <1>4 DEF PowerOff, Goto
<1>5. CASE PowerOff("powerdown", "unlink")
  BY <1>5 DEF PowerOff, Goto
<1>6. CASE PowerOff("f_poweroff", "f_restore")
  BY <1>6 DEF PowerOff, Goto
<1>7. CASE PowerOff("x_poweroff", "x_unlink")
  BY <1>7 DEF PowerOff, Goto
<1>8. CASE SnapshotDelete
  BY <1>8 DEF SnapshotDelete
<1>9. CASE SnapshotTake
  BY <1>9 DEF SnapshotTake, Goto
<1>10. CASE StartHeadless
  BY <1>10 DEF StartHeadless, Goto
<1>11. CASE ExportUnlink("unlink", "export")
  BY <1>11 DEF ExportUnlink, Goto
<1>12. CASE ExportUnlink("x_unlink", "x_export")
  BY <1>12 DEF ExportUnlink, Goto
<1>13. CASE Export("export") /\ Goto("export", "f_poweroff")
  BY <1>13 DEF Export, By, Goto
<1>14. CASE ExportRaises
  BY <1>14 DEF ExportRaises, By, Raise
<1>15. CASE ExportDone
  BY <1>15 DEF ExportDone, Export, By
<1>16. CASE Restore
  <2> HIDE DEF Disks
  <2>1. snaps = Append(left, before) /\ UNCHANGED <<snaps, before>>
    BY <1>16 DEF Restore, Goto
  <2>2. \E i \in DOMAIN snaps : snaps[i] = before
    <3>1. left \in Seq(Disks) /\ before \in Disks
      OBVIOUS
    <3>2. \E i \in DOMAIN Append(left, before) : Append(left, before)[i] = before
      BY <3>1, HeadOfAppend, Zenon
    <3> QED
      BY <2>1, <3>2, Zenon
  <2> QED
    BY <2>1, <2>2
<1>17. CASE Rollback
  <2> HIDE DEF Disks
  <2>1. snaps = Append(left, before) /\ box = RolledBackTo /\ UNCHANGED <<box, before>>
    BY <1>17 DEF Rollback
  <2>2. CASE left = <<>>
    BY <2>1, <2>2 DEF RolledBackTo
  <2>3. CASE left # <<>>
    <3>0. left \in Seq(Disks) /\ before \in Disks
      OBVIOUS
    <3> DEFINE all == Append(left, before)
    <3>1. \E i \in DOMAIN Tail(all) : Tail(all)[i] = before
      BY <2>3, <3>0, HeadOfAppend, Zenon
    <3>2. \E i \in DOMAIN all : all[i] = before
      BY <3>0, HeadOfAppend, Zenon
    <3>3. snaps' = all \/ snaps' = Tail(all)
      BY <1>17, <2>1 DEF Rollback
    <3> HIDE DEF all
    <3> QED
      BY <2>1, <3>1, <3>2, <3>3
  <2> QED
    BY <2>2, <2>3
<1>18. CASE Reach
  BY <1>18 DEF Reach, OnTarget, Goto
<1>19. CASE ReachTimesOut
  BY <1>19 DEF ReachTimesOut, Raise
<1>20. CASE Bake
  BY <1>20 DEF Bake, OnTarget, Goto, SudoWorks, SudoRan, Target
<1>21. CASE Purge
  BY <1>21 DEF Purge, OnTarget, Goto, SudoWorks, SudoRan, Target
<1>22. CASE PurgeIncomplete
  BY <1>22 DEF PurgeIncomplete, SudoWorks, SudoRan
<1>23. CASE Tooling
  BY <1>23 DEF Tooling, OnTarget, Goto, SudoWorks, SudoRan, Target
<1>24. CASE VerifyNoKeys
  BY <1>24 DEF VerifyNoKeys, OnTarget, Goto, SudoRan, Target
<1>25. CASE KeysSurvived
  BY <1>25 DEF KeysSurvived, Raise, SudoRan, Target
<1>26. CASE RemoveOptout
  BY <1>26 DEF RemoveOptout, OnTarget, Goto, SudoWorks, SudoRan, Target
<1>27. CASE CloudInitClean
  BY <1>27 DEF CloudInitClean, OnTarget, Goto, SudoWorks, SudoRan, Target
<1>28. CASE WriteDropins
  BY <1>28 DEF WriteDropins, OnTarget, Goto, SudoWorks, SudoRan, Target
<1>29. CASE VerifyArmed
  BY <1>29 DEF VerifyArmed, OnTarget, Goto, SudoRan, Target, Armed
<1>30. CASE NotArmed
  BY <1>30 DEF NotArmed, Raise, SudoRan, Target, Armed
<1>31. ASSUME NEW p \in {"bake", "purge", "tooling", "optout", "clean", "dropins"}, SudoRefused(p)
      PROVE  PriorStateRecoverable'
  BY <1>31 DEF SudoRefused, Raise, SudoWorks, SudoRan
<1>32. CASE CleanFails
  BY <1>32 DEF CleanFails, Raise
<1>33. CASE ReachOther
  BY <1>33 DEF ReachOther
<1>34. CASE UNCHANGED vars
  BY <1>34 DEF vars
<1> HIDE DEF IInv, TypeOK, Disks, ControlInv, DiskInv, RollbackInv, PriorStateRecoverable
<1> QED
  BY <1>1, <1>2, <1>3, <1>4, <1>5, <1>6, <1>7, <1>8, <1>9, <1>10, <1>11, <1>12, <1>13, <1>14, <1>15, <1>16, <1>17, <1>18, <1>19, <1>20, <1>21, <1>22, <1>23, <1>24, <1>25, <1>26, <1>27, <1>28, <1>29, <1>30, <1>31, <1>32, <1>33, <1>34
  DEF Next, Hypervisor, Session

\* A build ends in success only rolled back.
LEMMA SuccessStep == IInv /\ [Next]_vars => SuccessMeansRolledBack'
<1> SUFFICES ASSUME IInv, [Next]_vars PROVE SuccessMeansRolledBack'
  OBVIOUS
<1> USE DEF IInv, TypeOK, Disks, ControlInv, DiskInv, RollbackInv, RolledBackTo, SuccessMeansRolledBack, Pcs, PrePcs, TryPcs, FinallyPcs, ExportPcs, ArmedPcs, hostVars, sessionVars, history
<1>1. CASE CmdTemplate
  BY <1>1 DEF CmdTemplate
<1>2. CASE StepRaises
  BY <1>2 DEF StepRaises, Raise
<1>3. CASE Killed
  BY <1>3 DEF Killed
<1>4. CASE PowerOff("poweroff", "snapdelete")
  BY <1>4 DEF PowerOff, Goto
<1>5. CASE PowerOff("powerdown", "unlink")
  BY <1>5 DEF PowerOff, Goto
<1>6. CASE PowerOff("f_poweroff", "f_restore")
  BY <1>6 DEF PowerOff, Goto
<1>7. CASE PowerOff("x_poweroff", "x_unlink")
  BY <1>7 DEF PowerOff, Goto
<1>8. CASE SnapshotDelete
  BY <1>8 DEF SnapshotDelete
<1>9. CASE SnapshotTake
  BY <1>9 DEF SnapshotTake, Goto
<1>10. CASE StartHeadless
  BY <1>10 DEF StartHeadless, Goto
<1>11. CASE ExportUnlink("unlink", "export")
  BY <1>11 DEF ExportUnlink, Goto
<1>12. CASE ExportUnlink("x_unlink", "x_export")
  BY <1>12 DEF ExportUnlink, Goto
<1>13. CASE Export("export") /\ Goto("export", "f_poweroff")
  BY <1>13 DEF Export, By, Goto
<1>14. CASE ExportRaises
  BY <1>14 DEF ExportRaises, By, Raise
<1>15. CASE ExportDone
  BY <1>15 DEF ExportDone, Export, By
<1>16. CASE Restore
  BY <1>16 DEF Restore, Goto
<1>17. CASE Rollback
  BY <1>17 DEF Rollback
<1>18. CASE Reach
  BY <1>18 DEF Reach, OnTarget, Goto
<1>19. CASE ReachTimesOut
  BY <1>19 DEF ReachTimesOut, Raise
<1>20. CASE Bake
  BY <1>20 DEF Bake, OnTarget, Goto, SudoWorks, SudoRan, Target
<1>21. CASE Purge
  BY <1>21 DEF Purge, OnTarget, Goto, SudoWorks, SudoRan, Target
<1>22. CASE PurgeIncomplete
  BY <1>22 DEF PurgeIncomplete, SudoWorks, SudoRan
<1>23. CASE Tooling
  BY <1>23 DEF Tooling, OnTarget, Goto, SudoWorks, SudoRan, Target
<1>24. CASE VerifyNoKeys
  BY <1>24 DEF VerifyNoKeys, OnTarget, Goto, SudoRan, Target
<1>25. CASE KeysSurvived
  BY <1>25 DEF KeysSurvived, Raise, SudoRan, Target
<1>26. CASE RemoveOptout
  BY <1>26 DEF RemoveOptout, OnTarget, Goto, SudoWorks, SudoRan, Target
<1>27. CASE CloudInitClean
  BY <1>27 DEF CloudInitClean, OnTarget, Goto, SudoWorks, SudoRan, Target
<1>28. CASE WriteDropins
  BY <1>28 DEF WriteDropins, OnTarget, Goto, SudoWorks, SudoRan, Target
<1>29. CASE VerifyArmed
  BY <1>29 DEF VerifyArmed, OnTarget, Goto, SudoRan, Target, Armed
<1>30. CASE NotArmed
  BY <1>30 DEF NotArmed, Raise, SudoRan, Target, Armed
<1>31. ASSUME NEW p \in {"bake", "purge", "tooling", "optout", "clean", "dropins"}, SudoRefused(p)
      PROVE  SuccessMeansRolledBack'
  BY <1>31 DEF SudoRefused, Raise, SudoWorks, SudoRan
<1>32. CASE CleanFails
  BY <1>32 DEF CleanFails, Raise
<1>33. CASE ReachOther
  BY <1>33 DEF ReachOther
<1>34. CASE UNCHANGED vars
  BY <1>34 DEF vars
<1> HIDE DEF IInv, TypeOK, Disks, ControlInv, DiskInv, RollbackInv, RolledBackTo, SuccessMeansRolledBack
<1> QED
  BY <1>1, <1>2, <1>3, <1>4, <1>5, <1>6, <1>7, <1>8, <1>9, <1>10, <1>11, <1>12, <1>13, <1>14, <1>15, <1>16, <1>17, <1>18, <1>19, <1>20, <1>21, <1>22, <1>23, <1>24, <1>25, <1>26, <1>27, <1>28, <1>29, <1>30, <1>31, <1>32, <1>33, <1>34
  DEF Next, Hypervisor, Session

\* A build fails only where something went wrong.
LEMMA FailureStep == IInv /\ [Next]_vars => NoSpuriousFailure'
<1> SUFFICES ASSUME IInv, [Next]_vars PROVE NoSpuriousFailure'
  OBVIOUS
<1> USE DEF IInv, TypeOK, Disks, ControlInv, DiskInv, Target, SudoRan, NoSpuriousFailure, Pcs, PrePcs, TryPcs, FinallyPcs, ExportPcs, ArmedPcs, hostVars, sessionVars, history
<1>1. CASE CmdTemplate
  BY <1>1 DEF CmdTemplate
<1>2. CASE StepRaises
  BY <1>2 DEF StepRaises, Raise
<1>3. CASE Killed
  BY <1>3 DEF Killed
<1>4. CASE PowerOff("poweroff", "snapdelete")
  BY <1>4 DEF PowerOff, Goto
<1>5. CASE PowerOff("powerdown", "unlink")
  BY <1>5 DEF PowerOff, Goto
<1>6. CASE PowerOff("f_poweroff", "f_restore")
  BY <1>6 DEF PowerOff, Goto
<1>7. CASE PowerOff("x_poweroff", "x_unlink")
  BY <1>7 DEF PowerOff, Goto
<1>8. CASE SnapshotDelete
  BY <1>8 DEF SnapshotDelete
<1>9. CASE SnapshotTake
  BY <1>9 DEF SnapshotTake, Goto
<1>10. CASE StartHeadless
  BY <1>10 DEF StartHeadless, Goto
<1>11. CASE ExportUnlink("unlink", "export")
  BY <1>11 DEF ExportUnlink, Goto
<1>12. CASE ExportUnlink("x_unlink", "x_export")
  BY <1>12 DEF ExportUnlink, Goto
<1>13. CASE Export("export") /\ Goto("export", "f_poweroff")
  BY <1>13 DEF Export, By, Goto
<1>14. CASE ExportRaises
  BY <1>14 DEF ExportRaises, By, Raise
<1>15. CASE ExportDone
  BY <1>15 DEF ExportDone, Export, By
<1>16. CASE Restore
  BY <1>16 DEF Restore, Goto
<1>17. CASE Rollback
  BY <1>17 DEF Rollback
<1>18. CASE Reach
  BY <1>18 DEF Reach, OnTarget, Goto
<1>19. CASE ReachTimesOut
  BY <1>19 DEF ReachTimesOut, Raise
<1>20. CASE Bake
  BY <1>20 DEF Bake, OnTarget, Goto, SudoWorks, SudoRan, Target
<1>21. CASE Purge
  BY <1>21 DEF Purge, OnTarget, Goto, SudoWorks, SudoRan, Target
<1>22. CASE PurgeIncomplete
  BY <1>22 DEF PurgeIncomplete, SudoWorks, SudoRan
<1>23. CASE Tooling
  BY <1>23 DEF Tooling, OnTarget, Goto, SudoWorks, SudoRan, Target
<1>24. CASE VerifyNoKeys
  BY <1>24 DEF VerifyNoKeys, OnTarget, Goto, SudoRan, Target
<1>25. CASE KeysSurvived
  BY <1>25 DEF KeysSurvived, Raise, SudoRan, Target
<1>26. CASE RemoveOptout
  BY <1>26 DEF RemoveOptout, OnTarget, Goto, SudoWorks, SudoRan, Target
<1>27. CASE CloudInitClean
  BY <1>27 DEF CloudInitClean, OnTarget, Goto, SudoWorks, SudoRan, Target
<1>28. CASE WriteDropins
  BY <1>28 DEF WriteDropins, OnTarget, Goto, SudoWorks, SudoRan, Target
<1>29. CASE VerifyArmed
  BY <1>29 DEF VerifyArmed, OnTarget, Goto, SudoRan, Target, Armed
<1>30. CASE NotArmed
  BY <1>30 DEF NotArmed, Raise, SudoRan, Target, Armed
<1>31. ASSUME NEW p \in {"bake", "purge", "tooling", "optout", "clean", "dropins"}, SudoRefused(p)
      PROVE  NoSpuriousFailure'
  BY <1>31 DEF SudoRefused, Raise, SudoWorks, SudoRan
<1>32. CASE CleanFails
  BY <1>32 DEF CleanFails, Raise
<1>33. CASE ReachOther
  BY <1>33 DEF ReachOther
<1>34. CASE UNCHANGED vars
  BY <1>34 DEF vars
<1> HIDE DEF IInv, TypeOK, Disks, ControlInv, DiskInv, Target, SudoRan, NoSpuriousFailure
<1> QED
  BY <1>1, <1>2, <1>3, <1>4, <1>5, <1>6, <1>7, <1>8, <1>9, <1>10, <1>11, <1>12, <1>13, <1>14, <1>15, <1>16, <1>17, <1>18, <1>19, <1>20, <1>21, <1>22, <1>23, <1>24, <1>25, <1>26, <1>27, <1>28, <1>29, <1>30, <1>31, <1>32, <1>33, <1>34
  DEF Next, Hypervisor, Session

\* The initial states satisfy the invariant.
LEMMA InitInv == Init => IInv
<1> SUFFICES ASSUME Init PROVE IInv
  OBVIOUS
<1> USE DEF Init
<1>1. Pristine \in Disks /\ Deployed \in Disks
  BY DEF Pristine, Deployed, Disks
<1>2. TypeOK
  <2>1. runs \in 0..MaxRuns
    BY MaxRunsAssumption
  <2>2. ova \in [kind: {"none", "partial", "whole"}, disk: Disks, by: {"build", "elsewhere", "asis"}]
    BY <1>1 DEF NoOva
  <2>3. snaps \in Seq(Disks) /\ left \in Seq(Disks)
    BY EmptySeq
  <2> QED
    BY <1>1, <2>1, <2>2, <2>3 DEF TypeOK, Pcs
<1>3. ControlInv /\ DiskInv /\ RollbackInv
  BY DEF ControlInv, DiskInv, RollbackInv, PrePcs, TryPcs, FinallyPcs, ExportPcs, ArmedPcs
<1>4. PublishedImageClean /\ PriorStateRecoverable /\ SuccessMeansRolledBack /\ NoSpuriousFailure
  BY DEF PublishedImageClean, PriorStateRecoverable, SuccessMeansRolledBack, RolledBackTo, NoSpuriousFailure, NoOva
<1> QED
  BY <1>2, <1>3, <1>4 DEF IInv

\* The invariant holds of every reachable state.
THEOREM Inductive == Spec => []IInv
<1>1. IInv /\ [Next]_vars => IInv'
  BY TypeStep, ControlStep, DiskStep, RollbackStep, ImageStep, PriorStep, SuccessStep, FailureStep
  DEF IInv
<1> QED
  BY InitInv, <1>1, PTL DEF Spec

\* Every variable of the template build keeps its type.
THEOREM TypeCorrect == Spec => []TypeOK
BY Inductive, PTL DEF IInv

\* A build whose session is on the box never exports an image that carries a login
\* or will not read its seed.
THEOREM ImagesAreClean == Spec => []PublishedImageClean
BY Inductive, PTL DEF IInv

\* However a build fails or dies, the state before it is not lost before the next.
THEOREM PriorStateKept == Spec => []PriorStateRecoverable
BY Inductive, PTL DEF IInv

\* A build that returns has put the box back to the oldest snapshot of the name: to
\* its state before the build, unless an older one could not be deleted.
THEOREM SuccessRollsBack == Spec => []SuccessMeansRolledBack
BY Inductive, PTL DEF IInv

\* The build's own checks refuse no build in which nothing went wrong.
THEOREM ChecksNeverMisfire == Spec => []NoSpuriousFailure
BY Inductive, PTL DEF IInv

==============================================================================
