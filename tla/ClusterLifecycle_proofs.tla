----------------------- MODULE ClusterLifecycle_proofs -----------------------
(***************************************************************************)
(* Proofs about the lifecycle commands for any number of backends and any  *)
(* number of commands, however they raise, die or interleave with guests   *)
(* that boot, stop and start.                                              *)
(***************************************************************************)
EXTENDS ClusterLifecycle, TLAPS

\* all_hosts: the jump station first, every host at one position.
LEMMA HostFacts ==
    /\ Last \in Nat /\ Last >= 1
    /\ AllHosts[1] = Jump
    /\ Jump \in Hosts
    /\ \A i \in 1..Last : AllHosts[i] \in Hosts
    /\ \A h \in Hosts : \E i \in 1..Last : AllHosts[i] = h
    /\ \A i, j \in 1..Last : AllHosts[i] = AllHosts[j] => i = j
    /\ NoHost \notin Hosts
<1>1. Len(Backends) \in Nat
  BY HostsAssumption
<1>2. Last = 1 + Len(Backends) /\ AllHosts[1] = Jump
  BY HostsAssumption DEF AllHosts, Last
<1>3. \A i \in 1..Last : AllHosts[i] \in Hosts
  BY DEF Hosts
<1>4. \A h \in Hosts : \E i \in 1..Last : AllHosts[i] = h
  BY DEF Hosts
<1> QED
  BY <1>1, <1>2, <1>3, <1>4, HostsAssumption

\* A step on a guest yields a guest.
LEMMA GuestUpdates ==
    ASSUME NEW g \in Guests
    PROVE  /\ [g EXCEPT !.seed = TRUE] \in Guests
           /\ [g EXCEPT !.service = TRUE] \in Guests
           /\ [g EXCEPT !.store = TRUE] \in Guests
           /\ [g EXCEPT !.vm = "running"] \in Guests
           /\ Clone \in Guests
<1>1. [g EXCEPT !.seed = TRUE] \in Guests
  BY DEF Guests
<1>2. [g EXCEPT !.service = TRUE] \in Guests
  BY DEF Guests
<1>3. [g EXCEPT !.store = TRUE] \in Guests
  BY DEF Guests
<1>4. [g EXCEPT !.vm = "running"] \in Guests
  BY DEF Guests
<1>5. Clone \in Guests
  BY DEF Guests, Clone, Absent
<1> QED
  BY <1>1, <1>2, <1>3, <1>4, <1>5


\* Every step keeps the types.
LEMMA TypeStep == IInv /\ [Next]_vars => TypeOK'
<1> SUFFICES ASSUME IInv, [Next]_vars PROVE TypeOK'
  OBVIOUS
<1> USE DEF IInv, TypeOK, ControlInv, Guests, Absent, Clone, Statuses, NoManifest, TornManifest, Manifest, Attempts, Here, NoAddresses, Pcs, DestroyPcs, ProvisionPcs, ConfigurePcs, ManifestPcs, WritePcs, world, locals
<1>1. CASE Command
  <2>1. runs' \in 0..MaxRuns
    BY <1>1, MaxRunsAssumption DEF Command
  <2>2. UNCHANGED world
    BY <1>1 DEF Command
  <2>3. cmd' \in {"deploy", "provision", "configure", "teardown"} /\ pc' \in Pcs
    BY <1>1 DEF Command
  <2>4. /\ k' \in 1..Last /\ attempt' \in 1..Attempts
        /\ addr' \in [Hosts -> Hosts \union {NoHost}]
        /\ result' = "none" /\ fault' = FALSE
    BY <1>1, HostFacts DEF Command
  <2> QED
    BY <2>1, <2>2, <2>3, <2>4
<1>2. CASE TeardownUnconfirmed
  <2>1. runs' \in 0..MaxRuns
    BY <1>2, MaxRunsAssumption DEF TeardownUnconfirmed
  <2> QED
    BY <1>2, <2>1, HostFacts DEF TeardownUnconfirmed
<1>3. CASE StepRaises
  BY <1>3, HostFacts, MaxRunsAssumption DEF StepRaises, Raise, End
<1>4. CASE Killed
  BY <1>4, HostFacts, MaxRunsAssumption DEF Killed, End
<1>5. CASE Preflight
  BY <1>5, HostFacts, MaxRunsAssumption DEF Preflight, Goto
<1>6. CASE PreflightFails
  BY <1>6, HostFacts, MaxRunsAssumption DEF PreflightFails, End
<1>7. CASE Template
  BY <1>7, HostFacts, MaxRunsAssumption DEF Template, Goto
<1>8. CASE TemplateRaises
  BY <1>8, HostFacts, MaxRunsAssumption DEF TemplateRaises, Raise, End
<1>9. CASE NothingToDestroy
  BY <1>9, HostFacts, MaxRunsAssumption DEF NothingToDestroy, Destroyed
<1>10. CASE Registered
  BY <1>10, HostFacts, MaxRunsAssumption DEF Registered, Goto
<1>11. CASE PowerOff
  BY <1>11, HostFacts, MaxRunsAssumption DEF PowerOff, Goto
<1>12. CASE PowerOffSkipped
  BY <1>12, HostFacts, MaxRunsAssumption DEF PowerOffSkipped
<1>13. CASE Unregister
  BY <1>13, HostFacts, MaxRunsAssumption DEF Unregister, Destroyed
<1>14. CASE UnregisterFails
  <2>1. CASE attempt < Attempts
    BY <1>14, <2>1 DEF UnregisterFails
  <2>2. CASE ~(attempt < Attempts)
    BY <1>14, <2>2 DEF UnregisterFails, Raise, End
  <2> QED
    BY <2>1, <2>2
<1>15. CASE Import
  BY <1>15, HostFacts, MaxRunsAssumption DEF Import, Goto
<1>16. CASE ImportFails
  <2> HIDE DEF Guests, Clone
  <2>1. Here \in Hosts /\ Clone \in Guests
    BY HostFacts, GuestUpdates
  <2>2. guests' = guests \/ guests' = [guests EXCEPT ![Here] = Clone]
    BY <1>16 DEF ImportFails
  <2>3. guests' \in [Hosts -> Guests]
    BY <2>1, <2>2
  <2> QED
    BY <1>16, <2>3, HostFacts DEF ImportFails, Raise, End
<1>17. CASE AttachSeed
  <2> HIDE DEF Guests
  <2>1. Here \in Hosts /\ guests[Here] \in Guests
    BY <1>17, HostFacts DEF AttachSeed, Goto
  <2>2. [guests[Here] EXCEPT !.seed = TRUE] \in Guests
    BY <2>1, GuestUpdates
  <2>3. guests' = [guests EXCEPT ![Here] = [guests[Here] EXCEPT !.seed = TRUE]]
    BY <1>17 DEF AttachSeed, Goto
  <2>4. guests' \in [Hosts -> Guests]
    BY <2>1, <2>2, <2>3
  <2> QED
    BY <1>17, <2>4, HostFacts DEF AttachSeed, Goto
<1>18. CASE StartHeadless
  <2> HIDE DEF Guests
  <2>1. Here \in Hosts /\ guests[Here] \in Guests
    BY <1>18, HostFacts DEF StartHeadless, Goto
  <2>2. [guests[Here] EXCEPT !.vm = "running"] \in Guests
    BY <2>1, GuestUpdates
  <2>3. guests' = [guests EXCEPT ![Here] = [guests[Here] EXCEPT !.vm = "running"]]
    BY <1>18 DEF StartHeadless, Goto
  <2>4. guests' \in [Hosts -> Guests]
    BY <2>1, <2>2, <2>3
  <2> QED
    BY <1>18, <2>4, HostFacts DEF StartHeadless, Goto
<1>19. CASE GuestAddress
  BY <1>19, HostFacts, MaxRunsAssumption DEF GuestAddress, Goto
<1>20. CASE Individualised
  BY <1>20, HostFacts, MaxRunsAssumption DEF Individualised
<1>21. CASE NotIndividualised
  BY <1>21, HostFacts, MaxRunsAssumption DEF NotIndividualised, Raise, End
<1>22. CASE Addresses
  BY <1>22, HostFacts, MaxRunsAssumption DEF Addresses, Goto
<1>23. CASE AddressesMissing
  BY <1>23, HostFacts, MaxRunsAssumption DEF AddressesMissing, Raise, End
<1>24. CASE ConfigureBackend
  BY <1>24, HostFacts, MaxRunsAssumption DEF ConfigureBackend, Goto, OnGuest
<1>25. CASE PublishSite
  BY <1>25, HostFacts, MaxRunsAssumption DEF PublishSite, Goto, OnGuest
<1>26. CASE ConfigureBalancer
  BY <1>26, HostFacts, MaxRunsAssumption DEF ConfigureBalancer, Goto, OnGuest
<1>27. CASE DeployService
  <2> HIDE DEF Guests
  <2>1. addr[Jump] \in Hosts /\ guests[addr[Jump]] \in Guests
    BY <1>27, HostFacts DEF DeployService, Goto, OnGuest
  <2>2. [guests[addr[Jump]] EXCEPT !.service = TRUE] \in Guests
    BY <2>1, GuestUpdates
  <2>3. guests' = [guests EXCEPT ![addr[Jump]] = [guests[addr[Jump]] EXCEPT !.service = TRUE]]
    BY <1>27 DEF DeployService, Goto, OnGuest
  <2>4. guests' \in [Hosts -> Guests]
    BY <2>1, <2>2, <2>3
  <2> QED
    BY <1>27, <2>4, HostFacts DEF DeployService, Goto, OnGuest
<1>28. CASE SeedInventory
  <2> HIDE DEF Guests
  <2>1. addr[Jump] \in Hosts /\ guests[addr[Jump]] \in Guests
    BY <1>28, HostFacts DEF SeedInventory, Goto, OnGuest
  <2>2. [guests[addr[Jump]] EXCEPT !.store = TRUE] \in Guests
    BY <2>1, GuestUpdates
  <2>3. guests' = [guests EXCEPT ![addr[Jump]] = [guests[addr[Jump]] EXCEPT !.store = TRUE]]
    BY <1>28 DEF SeedInventory, Goto, OnGuest
  <2>4. guests' \in [Hosts -> Guests]
    BY <2>1, <2>2, <2>3
  <2> QED
    BY <1>28, <2>4, HostFacts DEF SeedInventory, Goto, OnGuest
<1>29. CASE ClusterReady
  BY <1>29, HostFacts, MaxRunsAssumption DEF ClusterReady, End
<1>30. CASE ReadManifest
  BY <1>30, HostFacts, MaxRunsAssumption DEF ReadManifest, Goto
<1>31. CASE ManifestUnreadable
  BY <1>31, HostFacts, MaxRunsAssumption DEF ManifestUnreadable, End
<1>32. CASE ManifestErrorSwallowed
  BY <1>32, HostFacts, MaxRunsAssumption DEF ManifestErrorSwallowed, End
<1>33. CASE TruncateManifest
  BY <1>33, HostFacts, MaxRunsAssumption DEF TruncateManifest, Goto
<1>34. CASE WriteDeployed
  BY <1>34, HostFacts, MaxRunsAssumption DEF WriteDeployed, Goto
<1>35. CASE WriteRemoved
  BY <1>35, HostFacts, MaxRunsAssumption DEF WriteRemoved, End
<1>36. ASSUME NEW h \in Hosts, FirstBoot(h) PROVE TypeOK'
  BY <1>36, HostFacts, MaxRunsAssumption DEF FirstBoot
<1>37. ASSUME NEW h \in Hosts, GuestStops(h) PROVE TypeOK'
  BY <1>37, HostFacts, MaxRunsAssumption DEF GuestStops
<1>38. ASSUME NEW h \in Hosts, GuestStartsAgain(h) PROVE TypeOK'
  BY <1>38, HostFacts, MaxRunsAssumption DEF GuestStartsAgain
<1>39. CASE UNCHANGED vars
  BY <1>39 DEF vars, Misled
<1> HIDE DEF IInv, TypeOK, ControlInv, Guests, Absent, Clone, Statuses, NoManifest, TornManifest, Manifest, Attempts, Here, NoAddresses, Pcs, DestroyPcs, ProvisionPcs, ConfigurePcs, ManifestPcs, WritePcs
<1> QED
  BY <1>1, <1>2, <1>3, <1>4, <1>5, <1>6, <1>7, <1>8, <1>9, <1>10, <1>11, <1>12, <1>13, <1>14, <1>15, <1>16, <1>17, <1>18, <1>19, <1>20, <1>21, <1>22, <1>23, <1>24, <1>25, <1>26, <1>27, <1>28, <1>29, <1>30, <1>31, <1>32, <1>33, <1>34, <1>35, <1>36, <1>37, <1>38, <1>39
  DEF Next, Destroy, Provision, Configure, Record

\* Every step keeps to its command.
LEMMA ControlStep == IInv /\ [Next]_vars => ControlInv'
<1> SUFFICES ASSUME IInv, [Next]_vars PROVE ControlInv'
  OBVIOUS
<1> USE DEF IInv, TypeOK, ControlInv, Here, NoAddresses, Pcs, DestroyPcs, ProvisionPcs, ConfigurePcs, ManifestPcs, WritePcs, world, locals
<1>1. CASE Command
  BY <1>1, HostFacts DEF Command
<1>2. CASE TeardownUnconfirmed
  BY <1>2, HostFacts DEF TeardownUnconfirmed
<1>3. CASE StepRaises
  BY <1>3, HostFacts DEF StepRaises, Raise, End
<1>4. CASE Killed
  BY <1>4, HostFacts DEF Killed, End
<1>5. CASE Preflight
  BY <1>5, HostFacts DEF Preflight, Goto
<1>6. CASE PreflightFails
  BY <1>6, HostFacts DEF PreflightFails, End
<1>7. CASE Template
  BY <1>7, HostFacts DEF Template, Goto
<1>8. CASE TemplateRaises
  BY <1>8, HostFacts DEF TemplateRaises, Raise, End
<1>9. CASE NothingToDestroy
  BY <1>9, HostFacts DEF NothingToDestroy, Destroyed
<1>10. CASE Registered
  BY <1>10, HostFacts DEF Registered, Goto
<1>11. CASE PowerOff
  BY <1>11, HostFacts DEF PowerOff, Goto
<1>12. CASE PowerOffSkipped
  BY <1>12, HostFacts DEF PowerOffSkipped
<1>13. CASE Unregister
  BY <1>13, HostFacts DEF Unregister, Destroyed
<1>14. CASE UnregisterFails
  BY <1>14, HostFacts DEF UnregisterFails, Raise, End
<1>15. CASE Import
  BY <1>15, HostFacts DEF Import, Goto
<1>16. CASE ImportFails
  BY <1>16, HostFacts DEF ImportFails, Raise, End
<1>17. CASE AttachSeed
  BY <1>17, HostFacts DEF AttachSeed, Goto
<1>18. CASE StartHeadless
  BY <1>18, HostFacts DEF StartHeadless, Goto
<1>19. CASE GuestAddress
  BY <1>19, HostFacts DEF GuestAddress, Goto
<1>20. CASE Individualised
  BY <1>20, HostFacts DEF Individualised
<1>21. CASE NotIndividualised
  BY <1>21, HostFacts DEF NotIndividualised, Raise, End
<1>22. CASE Addresses
  BY <1>22, HostFacts DEF Addresses, Goto
<1>23. CASE AddressesMissing
  BY <1>23, HostFacts DEF AddressesMissing, Raise, End
<1>24. CASE ConfigureBackend
  BY <1>24, HostFacts DEF ConfigureBackend, Goto, OnGuest
<1>25. CASE PublishSite
  BY <1>25, HostFacts DEF PublishSite, Goto, OnGuest
<1>26. CASE ConfigureBalancer
  BY <1>26, HostFacts DEF ConfigureBalancer, Goto, OnGuest
<1>27. CASE DeployService
  BY <1>27, HostFacts DEF DeployService, Goto, OnGuest
<1>28. CASE SeedInventory
  BY <1>28, HostFacts DEF SeedInventory, Goto, OnGuest
<1>29. CASE ClusterReady
  BY <1>29, HostFacts DEF ClusterReady, End
<1>30. CASE ReadManifest
  BY <1>30, HostFacts DEF ReadManifest, Goto
<1>31. CASE ManifestUnreadable
  BY <1>31, HostFacts DEF ManifestUnreadable, End
<1>32. CASE ManifestErrorSwallowed
  BY <1>32, HostFacts DEF ManifestErrorSwallowed, End
<1>33. CASE TruncateManifest
  BY <1>33, HostFacts DEF TruncateManifest, Goto
<1>34. CASE WriteDeployed
  BY <1>34, HostFacts DEF WriteDeployed, Goto
<1>35. CASE WriteRemoved
  BY <1>35, HostFacts DEF WriteRemoved, End
<1>36. ASSUME NEW h \in Hosts, FirstBoot(h) PROVE ControlInv'
  BY <1>36, HostFacts DEF FirstBoot
<1>37. ASSUME NEW h \in Hosts, GuestStops(h) PROVE ControlInv'
  BY <1>37, HostFacts DEF GuestStops
<1>38. ASSUME NEW h \in Hosts, GuestStartsAgain(h) PROVE ControlInv'
  BY <1>38, HostFacts DEF GuestStartsAgain
<1>39. CASE UNCHANGED vars
  BY <1>39 DEF vars, Misled
<1> HIDE DEF IInv, TypeOK, ControlInv, Here, NoAddresses, Pcs, DestroyPcs, ProvisionPcs, ConfigurePcs, ManifestPcs, WritePcs
<1> QED
  BY <1>1, <1>2, <1>3, <1>4, <1>5, <1>6, <1>7, <1>8, <1>9, <1>10, <1>11, <1>12, <1>13, <1>14, <1>15, <1>16, <1>17, <1>18, <1>19, <1>20, <1>21, <1>22, <1>23, <1>24, <1>25, <1>26, <1>27, <1>28, <1>29, <1>30, <1>31, <1>32, <1>33, <1>34, <1>35, <1>36, <1>37, <1>38, <1>39
  DEF Next, Destroy, Provision, Configure, Record

\* Every step leaves individualised the hosts the loop has passed.
LEMMA SerialStep == IInv /\ [Next]_vars => SerialInv'
<1> SUFFICES ASSUME IInv, [Next]_vars PROVE SerialInv'
  OBVIOUS
<1> USE DEF IInv, TypeOK, Guests, ControlInv, SerialInv, Here, Absent, Clone, Pcs, DestroyPcs, ProvisionPcs, ConfigurePcs, ManifestPcs, WritePcs, world, locals
<1>1. CASE Command
  BY <1>1, HostFacts DEF Command
<1>2. CASE TeardownUnconfirmed
  BY <1>2, HostFacts DEF TeardownUnconfirmed
<1>3. CASE StepRaises
  BY <1>3, HostFacts DEF StepRaises, Raise, End
<1>4. CASE Killed
  BY <1>4, HostFacts DEF Killed, End
<1>5. CASE Preflight
  BY <1>5, HostFacts DEF Preflight, Goto
<1>6. CASE PreflightFails
  BY <1>6, HostFacts DEF PreflightFails, End
<1>7. CASE Template
  BY <1>7, HostFacts DEF Template, Goto
<1>8. CASE TemplateRaises
  BY <1>8, HostFacts DEF TemplateRaises, Raise, End
<1>9. CASE NothingToDestroy
  BY <1>9, HostFacts DEF NothingToDestroy, Destroyed
<1>10. CASE Registered
  BY <1>10, HostFacts DEF Registered, Goto
<1>11. CASE PowerOff
  BY <1>11, HostFacts DEF PowerOff, Goto
<1>12. CASE PowerOffSkipped
  BY <1>12, HostFacts DEF PowerOffSkipped
<1>13. CASE Unregister
  BY <1>13, HostFacts DEF Unregister, Destroyed
<1>14. CASE UnregisterFails
  BY <1>14, HostFacts DEF UnregisterFails, Raise, End
<1>15. CASE Import
  BY <1>15, HostFacts DEF Import, Goto
<1>16. CASE ImportFails
  BY <1>16, HostFacts DEF ImportFails, Raise, End
<1>17. CASE AttachSeed
  BY <1>17, HostFacts DEF AttachSeed, Goto
<1>18. CASE StartHeadless
  BY <1>18, HostFacts DEF StartHeadless, Goto
<1>19. CASE GuestAddress
  BY <1>19, HostFacts DEF GuestAddress, Goto
<1>20. CASE Individualised
  BY <1>20, HostFacts DEF Individualised, IsItself
<1>21. CASE NotIndividualised
  BY <1>21, HostFacts DEF NotIndividualised, Raise, End
<1>22. CASE Addresses
  BY <1>22, HostFacts DEF Addresses, Goto
<1>23. CASE AddressesMissing
  BY <1>23, HostFacts DEF AddressesMissing, Raise, End
<1>24. CASE ConfigureBackend
  BY <1>24, HostFacts DEF ConfigureBackend, Goto, OnGuest
<1>25. CASE PublishSite
  BY <1>25, HostFacts DEF PublishSite, Goto, OnGuest
<1>26. CASE ConfigureBalancer
  BY <1>26, HostFacts DEF ConfigureBalancer, Goto, OnGuest
<1>27. CASE DeployService
  BY <1>27, HostFacts DEF DeployService, Goto, OnGuest
<1>28. CASE SeedInventory
  BY <1>28, HostFacts DEF SeedInventory, Goto, OnGuest
<1>29. CASE ClusterReady
  BY <1>29, HostFacts DEF ClusterReady, End
<1>30. CASE ReadManifest
  BY <1>30, HostFacts DEF ReadManifest, Goto
<1>31. CASE ManifestUnreadable
  BY <1>31, HostFacts DEF ManifestUnreadable, End
<1>32. CASE ManifestErrorSwallowed
  BY <1>32, HostFacts DEF ManifestErrorSwallowed, End
<1>33. CASE TruncateManifest
  BY <1>33, HostFacts DEF TruncateManifest, Goto
<1>34. CASE WriteDeployed
  BY <1>34, HostFacts DEF WriteDeployed, Goto
<1>35. CASE WriteRemoved
  BY <1>35, HostFacts DEF WriteRemoved, End
<1>36. ASSUME NEW h \in Hosts, FirstBoot(h) PROVE SerialInv'
  BY <1>36, HostFacts DEF FirstBoot
<1>37. ASSUME NEW h \in Hosts, GuestStops(h) PROVE SerialInv'
  BY <1>37, HostFacts DEF GuestStops
<1>38. ASSUME NEW h \in Hosts, GuestStartsAgain(h) PROVE SerialInv'
  BY <1>38, HostFacts DEF GuestStartsAgain
<1>39. CASE UNCHANGED vars
  BY <1>39 DEF vars, Misled
<1> HIDE DEF IInv, TypeOK, Guests, ControlInv, SerialInv, Here, Absent, Clone, Pcs, DestroyPcs, ProvisionPcs, ConfigurePcs, ManifestPcs, WritePcs
<1> QED
  BY <1>1, <1>2, <1>3, <1>4, <1>5, <1>6, <1>7, <1>8, <1>9, <1>10, <1>11, <1>12, <1>13, <1>14, <1>15, <1>16, <1>17, <1>18, <1>19, <1>20, <1>21, <1>22, <1>23, <1>24, <1>25, <1>26, <1>27, <1>28, <1>29, <1>30, <1>31, <1>32, <1>33, <1>34, <1>35, <1>36, <1>37, <1>38, <1>39
  DEF Next, Destroy, Provision, Configure, Record

\* Every step leaves gone the hosts teardown has passed, and blames a failure on a fault.
LEMMA TeardownStep == IInv /\ [Next]_vars => TeardownInv'
<1> SUFFICES ASSUME IInv, [Next]_vars PROVE TeardownInv'
  OBVIOUS
<1> USE DEF IInv, TypeOK, Guests, ControlInv, TeardownInv, Here, Absent, Clone, Pcs, DestroyPcs, ProvisionPcs, ConfigurePcs, ManifestPcs, WritePcs, world, locals
<1>1. CASE Command
  BY <1>1, HostFacts DEF Command
<1>2. CASE TeardownUnconfirmed
  BY <1>2, HostFacts DEF TeardownUnconfirmed
<1>3. CASE StepRaises
  BY <1>3, HostFacts DEF StepRaises, Raise, End
<1>4. CASE Killed
  BY <1>4, HostFacts DEF Killed, End
<1>5. CASE Preflight
  BY <1>5, HostFacts DEF Preflight, Goto
<1>6. CASE PreflightFails
  BY <1>6, HostFacts DEF PreflightFails, End
<1>7. CASE Template
  BY <1>7, HostFacts DEF Template, Goto
<1>8. CASE TemplateRaises
  BY <1>8, HostFacts DEF TemplateRaises, Raise, End
<1>9. CASE NothingToDestroy
  BY <1>9, HostFacts DEF NothingToDestroy, Destroyed
<1>10. CASE Registered
  BY <1>10, HostFacts DEF Registered, Goto
<1>11. CASE PowerOff
  BY <1>11, HostFacts DEF PowerOff, Goto
<1>12. CASE PowerOffSkipped
  BY <1>12, HostFacts DEF PowerOffSkipped
<1>13. CASE Unregister
  BY <1>13, HostFacts DEF Unregister, Destroyed
<1>14. CASE UnregisterFails
  BY <1>14, HostFacts DEF UnregisterFails, Raise, End
<1>15. CASE Import
  BY <1>15, HostFacts DEF Import, Goto
<1>16. CASE ImportFails
  BY <1>16, HostFacts DEF ImportFails, Raise, End
<1>17. CASE AttachSeed
  BY <1>17, HostFacts DEF AttachSeed, Goto
<1>18. CASE StartHeadless
  BY <1>18, HostFacts DEF StartHeadless, Goto
<1>19. CASE GuestAddress
  BY <1>19, HostFacts DEF GuestAddress, Goto
<1>20. CASE Individualised
  BY <1>20, HostFacts DEF Individualised
<1>21. CASE NotIndividualised
  BY <1>21, HostFacts DEF NotIndividualised, Raise, End
<1>22. CASE Addresses
  BY <1>22, HostFacts DEF Addresses, Goto
<1>23. CASE AddressesMissing
  BY <1>23, HostFacts DEF AddressesMissing, Raise, End
<1>24. CASE ConfigureBackend
  BY <1>24, HostFacts DEF ConfigureBackend, Goto, OnGuest
<1>25. CASE PublishSite
  BY <1>25, HostFacts DEF PublishSite, Goto, OnGuest
<1>26. CASE ConfigureBalancer
  BY <1>26, HostFacts DEF ConfigureBalancer, Goto, OnGuest
<1>27. CASE DeployService
  BY <1>27, HostFacts DEF DeployService, Goto, OnGuest
<1>28. CASE SeedInventory
  BY <1>28, HostFacts DEF SeedInventory, Goto, OnGuest
<1>29. CASE ClusterReady
  BY <1>29, HostFacts DEF ClusterReady, End
<1>30. CASE ReadManifest
  BY <1>30, HostFacts DEF ReadManifest, Goto
<1>31. CASE ManifestUnreadable
  BY <1>31, HostFacts DEF ManifestUnreadable, End
<1>32. CASE ManifestErrorSwallowed
  BY <1>32, HostFacts DEF ManifestErrorSwallowed, End
<1>33. CASE TruncateManifest
  BY <1>33, HostFacts DEF TruncateManifest, Goto
<1>34. CASE WriteDeployed
  BY <1>34, HostFacts DEF WriteDeployed, Goto
<1>35. CASE WriteRemoved
  BY <1>35, HostFacts DEF WriteRemoved, End
<1>36. ASSUME NEW h \in Hosts, FirstBoot(h) PROVE TeardownInv'
  BY <1>36, HostFacts DEF FirstBoot
<1>37. ASSUME NEW h \in Hosts, GuestStops(h) PROVE TeardownInv'
  BY <1>37, HostFacts DEF GuestStops
<1>38. ASSUME NEW h \in Hosts, GuestStartsAgain(h) PROVE TeardownInv'
  BY <1>38, HostFacts DEF GuestStartsAgain
<1>39. CASE UNCHANGED vars
  BY <1>39 DEF vars, Misled
<1> HIDE DEF IInv, TypeOK, Guests, ControlInv, TeardownInv, Here, Absent, Clone, Pcs, DestroyPcs, ProvisionPcs, ConfigurePcs, ManifestPcs, WritePcs
<1> QED
  BY <1>1, <1>2, <1>3, <1>4, <1>5, <1>6, <1>7, <1>8, <1>9, <1>10, <1>11, <1>12, <1>13, <1>14, <1>15, <1>16, <1>17, <1>18, <1>19, <1>20, <1>21, <1>22, <1>23, <1>24, <1>25, <1>26, <1>27, <1>28, <1>29, <1>30, <1>31, <1>32, <1>33, <1>34, <1>35, <1>36, <1>37, <1>38, <1>39
  DEF Next, Destroy, Provision, Configure, Record

\* Every step of cmd_configure adds to what is done and undoes nothing.
LEMMA ProgressStep == IInv /\ [Next]_vars => ProgressInv'
<1> SUFFICES ASSUME IInv, [Next]_vars PROVE ProgressInv'
  OBVIOUS
<1> USE DEF IInv, TypeOK, Guests, ControlInv, ProgressInv, BackendDone, Misled, Here, NoAddresses, Absent, Clone, Pcs, DestroyPcs, ProvisionPcs, ConfigurePcs, ManifestPcs, WritePcs, world, locals
<1>1. CASE Command
  BY <1>1, HostFacts DEF Command
<1>2. CASE TeardownUnconfirmed
  BY <1>2, HostFacts DEF TeardownUnconfirmed
<1>3. CASE StepRaises
  BY <1>3, HostFacts DEF StepRaises, Raise, End
<1>4. CASE Killed
  BY <1>4, HostFacts DEF Killed, End
<1>5. CASE Preflight
  BY <1>5, HostFacts DEF Preflight, Goto
<1>6. CASE PreflightFails
  BY <1>6, HostFacts DEF PreflightFails, End
<1>7. CASE Template
  BY <1>7, HostFacts DEF Template, Goto
<1>8. CASE TemplateRaises
  BY <1>8, HostFacts DEF TemplateRaises, Raise, End
<1>9. CASE NothingToDestroy
  BY <1>9, HostFacts DEF NothingToDestroy, Destroyed
<1>10. CASE Registered
  BY <1>10, HostFacts DEF Registered, Goto
<1>11. CASE PowerOff
  BY <1>11, HostFacts DEF PowerOff, Goto
<1>12. CASE PowerOffSkipped
  BY <1>12, HostFacts DEF PowerOffSkipped
<1>13. CASE Unregister
  BY <1>13, HostFacts DEF Unregister, Destroyed
<1>14. CASE UnregisterFails
  BY <1>14, HostFacts DEF UnregisterFails, Raise, End
<1>15. CASE Import
  BY <1>15, HostFacts DEF Import, Goto
<1>16. CASE ImportFails
  BY <1>16, HostFacts DEF ImportFails, Raise, End
<1>17. CASE AttachSeed
  BY <1>17, HostFacts DEF AttachSeed, Goto
<1>18. CASE StartHeadless
  BY <1>18, HostFacts DEF StartHeadless, Goto
<1>19. CASE GuestAddress
  BY <1>19, HostFacts DEF GuestAddress, Goto
<1>20. CASE Individualised
  BY <1>20, HostFacts DEF Individualised
<1>21. CASE NotIndividualised
  BY <1>21, HostFacts DEF NotIndividualised, Raise, End
<1>22. CASE Addresses
  BY <1>22, HostFacts DEF Addresses, Goto
<1>23. CASE AddressesMissing
  BY <1>23, HostFacts DEF AddressesMissing, Raise, End
<1>24. CASE ConfigureBackend
  BY <1>24, HostFacts DEF ConfigureBackend, Goto, OnGuest
<1>25. CASE PublishSite
  <2> SUFFICES ASSUME cmd \in {"configure", "deploy"}, ~Misled PROVE ProgressInv'
    BY <1>25 DEF PublishSite, Goto
  <2>1. Here \in Hosts /\ addr[Here] = Here /\ UNCHANGED <<cmd, addr>>
    BY <1>25, HostFacts DEF PublishSite, Goto
  <2>2. guests' = [guests EXCEPT ![Here] = [guests[Here] EXCEPT !.page = Here]]
    BY <1>25, <2>1 DEF PublishSite, OnGuest
  <2>3. guests[Here].vhost = Here /\ k > 1
    BY <1>25 DEF PublishSite, Goto
  <2>4. guests'[Here].vhost = Here /\ guests'[Here].page = Here
    BY <2>1, <2>2, <2>3
  <2>5. \A i \in 2..(k - 1) : guests'[AllHosts[i]] = guests[AllHosts[i]]
    BY <2>1, <2>2, HostFacts
  <2>6. \A i \in 2..k : guests'[AllHosts[i]].vhost = AllHosts[i] /\ guests'[AllHosts[i]].page = AllHosts[i]
    BY <1>25, <2>4, <2>5 DEF PublishSite, Goto
  <2>7. CASE k < Last
    BY <1>25, <2>1, <2>6, <2>7, HostFacts DEF PublishSite, Goto
  <2>8. CASE ~(k < Last)
    BY <1>25, <2>1, <2>6, <2>8, HostFacts DEF PublishSite, Goto
  <2> QED
    BY <2>7, <2>8
<1>26. CASE ConfigureBalancer
  BY <1>26, HostFacts DEF ConfigureBalancer, Goto, OnGuest
<1>27. CASE DeployService
  BY <1>27, HostFacts DEF DeployService, Goto, OnGuest
<1>28. CASE SeedInventory
  BY <1>28, HostFacts DEF SeedInventory, Goto, OnGuest
<1>29. CASE ClusterReady
  BY <1>29, HostFacts DEF ClusterReady, End
<1>30. CASE ReadManifest
  BY <1>30, HostFacts DEF ReadManifest, Goto
<1>31. CASE ManifestUnreadable
  BY <1>31, HostFacts DEF ManifestUnreadable, End
<1>32. CASE ManifestErrorSwallowed
  BY <1>32, HostFacts DEF ManifestErrorSwallowed, End
<1>33. CASE TruncateManifest
  BY <1>33, HostFacts DEF TruncateManifest, Goto
<1>34. CASE WriteDeployed
  BY <1>34, HostFacts DEF WriteDeployed, Goto
<1>35. CASE WriteRemoved
  BY <1>35, HostFacts DEF WriteRemoved, End
<1>36. ASSUME NEW h \in Hosts, FirstBoot(h) PROVE ProgressInv'
  BY <1>36, HostFacts DEF FirstBoot
<1>37. ASSUME NEW h \in Hosts, GuestStops(h) PROVE ProgressInv'
  BY <1>37, HostFacts DEF GuestStops
<1>38. ASSUME NEW h \in Hosts, GuestStartsAgain(h) PROVE ProgressInv'
  BY <1>38, HostFacts DEF GuestStartsAgain
<1>39. CASE UNCHANGED vars
  BY <1>39 DEF vars, Misled
<1> HIDE DEF IInv, TypeOK, Guests, ControlInv, ProgressInv, BackendDone, Misled, Here, NoAddresses, Absent, Clone, Pcs, DestroyPcs, ProvisionPcs, ConfigurePcs, ManifestPcs, WritePcs
<1> QED
  BY <1>1, <1>2, <1>3, <1>4, <1>5, <1>6, <1>7, <1>8, <1>9, <1>10, <1>11, <1>12, <1>13, <1>14, <1>15, <1>16, <1>17, <1>18, <1>19, <1>20, <1>21, <1>22, <1>23, <1>24, <1>25, <1>26, <1>27, <1>28, <1>29, <1>30, <1>31, <1>32, <1>33, <1>34, <1>35, <1>36, <1>37, <1>38, <1>39
  DEF Next, Destroy, Provision, Configure, Record

\* A command that ends well has delivered, until the next command.
LEMMA ConfigureStep == IInv /\ [Next]_vars => ConfigureDelivers'
<1> SUFFICES ASSUME IInv, [Next]_vars PROVE ConfigureDelivers'
  OBVIOUS
<1> USE DEF IInv, TypeOK, Guests, ControlInv, ProgressInv, ConfigureDelivers, BackendDone, Misled, Here, NoAddresses, Absent, Clone, Pcs, DestroyPcs, ProvisionPcs, ConfigurePcs, ManifestPcs, WritePcs, world, locals
<1>1. CASE Command
  BY <1>1, HostFacts DEF Command
<1>2. CASE TeardownUnconfirmed
  BY <1>2, HostFacts DEF TeardownUnconfirmed
<1>3. CASE StepRaises
  BY <1>3, HostFacts DEF StepRaises, Raise, End
<1>4. CASE Killed
  BY <1>4, HostFacts DEF Killed, End
<1>5. CASE Preflight
  BY <1>5, HostFacts DEF Preflight, Goto
<1>6. CASE PreflightFails
  BY <1>6, HostFacts DEF PreflightFails, End
<1>7. CASE Template
  BY <1>7, HostFacts DEF Template, Goto
<1>8. CASE TemplateRaises
  BY <1>8, HostFacts DEF TemplateRaises, Raise, End
<1>9. CASE NothingToDestroy
  BY <1>9, HostFacts DEF NothingToDestroy, Destroyed
<1>10. CASE Registered
  BY <1>10, HostFacts DEF Registered, Goto
<1>11. CASE PowerOff
  BY <1>11, HostFacts DEF PowerOff, Goto
<1>12. CASE PowerOffSkipped
  BY <1>12, HostFacts DEF PowerOffSkipped
<1>13. CASE Unregister
  BY <1>13, HostFacts DEF Unregister, Destroyed
<1>14. CASE UnregisterFails
  BY <1>14, HostFacts DEF UnregisterFails, Raise, End
<1>15. CASE Import
  BY <1>15, HostFacts DEF Import, Goto
<1>16. CASE ImportFails
  BY <1>16, HostFacts DEF ImportFails, Raise, End
<1>17. CASE AttachSeed
  BY <1>17, HostFacts DEF AttachSeed, Goto
<1>18. CASE StartHeadless
  BY <1>18, HostFacts DEF StartHeadless, Goto
<1>19. CASE GuestAddress
  BY <1>19, HostFacts DEF GuestAddress, Goto
<1>20. CASE Individualised
  BY <1>20, HostFacts DEF Individualised
<1>21. CASE NotIndividualised
  BY <1>21, HostFacts DEF NotIndividualised, Raise, End
<1>22. CASE Addresses
  BY <1>22, HostFacts DEF Addresses, Goto
<1>23. CASE AddressesMissing
  BY <1>23, HostFacts DEF AddressesMissing, Raise, End
<1>24. CASE ConfigureBackend
  BY <1>24, HostFacts DEF ConfigureBackend, Goto, OnGuest
<1>25. CASE PublishSite
  BY <1>25, HostFacts DEF PublishSite, Goto, OnGuest
<1>26. CASE ConfigureBalancer
  BY <1>26, HostFacts DEF ConfigureBalancer, Goto, OnGuest
<1>27. CASE DeployService
  BY <1>27, HostFacts DEF DeployService, Goto, OnGuest
<1>28. CASE SeedInventory
  BY <1>28, HostFacts DEF SeedInventory, Goto, OnGuest
<1>29. CASE ClusterReady
  BY <1>29, HostFacts DEF ClusterReady, End
<1>30. CASE ReadManifest
  BY <1>30, HostFacts DEF ReadManifest, Goto
<1>31. CASE ManifestUnreadable
  BY <1>31, HostFacts DEF ManifestUnreadable, End
<1>32. CASE ManifestErrorSwallowed
  BY <1>32, HostFacts DEF ManifestErrorSwallowed, End
<1>33. CASE TruncateManifest
  BY <1>33, HostFacts DEF TruncateManifest, Goto
<1>34. CASE WriteDeployed
  BY <1>34, HostFacts DEF WriteDeployed, Goto
<1>35. CASE WriteRemoved
  BY <1>35, HostFacts DEF WriteRemoved, End
<1>36. ASSUME NEW h \in Hosts, FirstBoot(h) PROVE ConfigureDelivers'
  BY <1>36, HostFacts DEF FirstBoot
<1>37. ASSUME NEW h \in Hosts, GuestStops(h) PROVE ConfigureDelivers'
  BY <1>37, HostFacts DEF GuestStops
<1>38. ASSUME NEW h \in Hosts, GuestStartsAgain(h) PROVE ConfigureDelivers'
  BY <1>38, HostFacts DEF GuestStartsAgain
<1>39. CASE UNCHANGED vars
  BY <1>39 DEF vars, Misled
<1> HIDE DEF IInv, TypeOK, Guests, ControlInv, ProgressInv, ConfigureDelivers, BackendDone, Misled, Here, NoAddresses, Absent, Clone, Pcs, DestroyPcs, ProvisionPcs, ConfigurePcs, ManifestPcs, WritePcs
<1> QED
  BY <1>1, <1>2, <1>3, <1>4, <1>5, <1>6, <1>7, <1>8, <1>9, <1>10, <1>11, <1>12, <1>13, <1>14, <1>15, <1>16, <1>17, <1>18, <1>19, <1>20, <1>21, <1>22, <1>23, <1>24, <1>25, <1>26, <1>27, <1>28, <1>29, <1>30, <1>31, <1>32, <1>33, <1>34, <1>35, <1>36, <1>37, <1>38, <1>39
  DEF Next, Destroy, Provision, Configure, Record

\* A teardown that ends well has delivered, until the next command.
LEMMA TeardownEndStep == IInv /\ [Next]_vars => TeardownDelivers'
<1> SUFFICES ASSUME IInv, [Next]_vars PROVE TeardownDelivers'
  OBVIOUS
<1> USE DEF IInv, TypeOK, Guests, ControlInv, TeardownInv, TeardownDelivers, Here, NoAddresses, Absent, Clone, Pcs, DestroyPcs, ProvisionPcs, ConfigurePcs, ManifestPcs, WritePcs, world, locals
<1>1. CASE Command
  BY <1>1, HostFacts DEF Command
<1>2. CASE TeardownUnconfirmed
  BY <1>2, HostFacts DEF TeardownUnconfirmed
<1>3. CASE StepRaises
  BY <1>3, HostFacts DEF StepRaises, Raise, End
<1>4. CASE Killed
  BY <1>4, HostFacts DEF Killed, End
<1>5. CASE Preflight
  BY <1>5, HostFacts DEF Preflight, Goto
<1>6. CASE PreflightFails
  BY <1>6, HostFacts DEF PreflightFails, End
<1>7. CASE Template
  BY <1>7, HostFacts DEF Template, Goto
<1>8. CASE TemplateRaises
  BY <1>8, HostFacts DEF TemplateRaises, Raise, End
<1>9. CASE NothingToDestroy
  BY <1>9, HostFacts DEF NothingToDestroy, Destroyed
<1>10. CASE Registered
  BY <1>10, HostFacts DEF Registered, Goto
<1>11. CASE PowerOff
  BY <1>11, HostFacts DEF PowerOff, Goto
<1>12. CASE PowerOffSkipped
  BY <1>12, HostFacts DEF PowerOffSkipped
<1>13. CASE Unregister
  BY <1>13, HostFacts DEF Unregister, Destroyed
<1>14. CASE UnregisterFails
  BY <1>14, HostFacts DEF UnregisterFails, Raise, End
<1>15. CASE Import
  BY <1>15, HostFacts DEF Import, Goto
<1>16. CASE ImportFails
  BY <1>16, HostFacts DEF ImportFails, Raise, End
<1>17. CASE AttachSeed
  BY <1>17, HostFacts DEF AttachSeed, Goto
<1>18. CASE StartHeadless
  BY <1>18, HostFacts DEF StartHeadless, Goto
<1>19. CASE GuestAddress
  BY <1>19, HostFacts DEF GuestAddress, Goto
<1>20. CASE Individualised
  BY <1>20, HostFacts DEF Individualised
<1>21. CASE NotIndividualised
  BY <1>21, HostFacts DEF NotIndividualised, Raise, End
<1>22. CASE Addresses
  BY <1>22, HostFacts DEF Addresses, Goto
<1>23. CASE AddressesMissing
  BY <1>23, HostFacts DEF AddressesMissing, Raise, End
<1>24. CASE ConfigureBackend
  BY <1>24, HostFacts DEF ConfigureBackend, Goto, OnGuest
<1>25. CASE PublishSite
  BY <1>25, HostFacts DEF PublishSite, Goto, OnGuest
<1>26. CASE ConfigureBalancer
  BY <1>26, HostFacts DEF ConfigureBalancer, Goto, OnGuest
<1>27. CASE DeployService
  BY <1>27, HostFacts DEF DeployService, Goto, OnGuest
<1>28. CASE SeedInventory
  BY <1>28, HostFacts DEF SeedInventory, Goto, OnGuest
<1>29. CASE ClusterReady
  BY <1>29, HostFacts DEF ClusterReady, End
<1>30. CASE ReadManifest
  BY <1>30, HostFacts DEF ReadManifest, Goto
<1>31. CASE ManifestUnreadable
  BY <1>31, HostFacts DEF ManifestUnreadable, End
<1>32. CASE ManifestErrorSwallowed
  BY <1>32, HostFacts DEF ManifestErrorSwallowed, End
<1>33. CASE TruncateManifest
  BY <1>33, HostFacts DEF TruncateManifest, Goto
<1>34. CASE WriteDeployed
  BY <1>34, HostFacts DEF WriteDeployed, Goto
<1>35. CASE WriteRemoved
  BY <1>35, HostFacts DEF WriteRemoved, End
<1>36. ASSUME NEW h \in Hosts, FirstBoot(h) PROVE TeardownDelivers'
  BY <1>36, HostFacts DEF FirstBoot
<1>37. ASSUME NEW h \in Hosts, GuestStops(h) PROVE TeardownDelivers'
  BY <1>37, HostFacts DEF GuestStops
<1>38. ASSUME NEW h \in Hosts, GuestStartsAgain(h) PROVE TeardownDelivers'
  BY <1>38, HostFacts DEF GuestStartsAgain
<1>39. CASE UNCHANGED vars
  BY <1>39 DEF vars, Misled
<1> HIDE DEF IInv, TypeOK, Guests, ControlInv, TeardownInv, TeardownDelivers, Here, NoAddresses, Absent, Clone, Pcs, DestroyPcs, ProvisionPcs, ConfigurePcs, ManifestPcs, WritePcs
<1> QED
  BY <1>1, <1>2, <1>3, <1>4, <1>5, <1>6, <1>7, <1>8, <1>9, <1>10, <1>11, <1>12, <1>13, <1>14, <1>15, <1>16, <1>17, <1>18, <1>19, <1>20, <1>21, <1>22, <1>23, <1>24, <1>25, <1>26, <1>27, <1>28, <1>29, <1>30, <1>31, <1>32, <1>33, <1>34, <1>35, <1>36, <1>37, <1>38, <1>39
  DEF Next, Destroy, Provision, Configure, Record

\* The initial states satisfy the invariant.
LEMMA InitInv == Init => IInv
<1> SUFFICES ASSUME Init PROVE IInv
  OBVIOUS
<1> USE HostFacts DEF Init
<1>1. TypeOK
  <2>1. guests \in [Hosts -> Guests]
    BY DEF Guests, Absent
  <2>2. manifest \in [kind: {"missing", "torn", "whole"}, status: [Hosts -> Statuses]]
    BY DEF NoManifest, Statuses
  <2>3. runs \in 0..MaxRuns /\ k \in 1..Last /\ attempt \in 1..Attempts
    BY MaxRunsAssumption DEF Attempts
  <2> QED
    BY <2>1, <2>2, <2>3 DEF TypeOK, Pcs, NoAddresses
<1>2. ControlInv /\ SerialInv /\ TeardownInv
  BY DEF ControlInv, SerialInv, TeardownInv, DestroyPcs, ManifestPcs, ConfigurePcs, WritePcs
<1>3. ProgressInv /\ ConfigureDelivers /\ TeardownDelivers
  BY DEF ProgressInv, ConfigureDelivers, TeardownDelivers
<1> QED
  BY <1>1, <1>2, <1>3 DEF IInv

\* The invariant holds of every reachable state.
THEOREM Inductive == Spec => []IInv
<1>1. IInv /\ [Next]_vars => IInv'
  BY TypeStep, ControlStep, SerialStep, TeardownStep, ProgressStep, ConfigureStep,
     TeardownEndStep DEF IInv
<1> QED
  BY InitInv, <1>1, PTL DEF Spec

\* Every variable of the lifecycle commands keeps its type.
THEOREM TypeCorrect == Spec => []TypeOK
BY Inductive, PTL DEF IInv

\* provision_cluster individualises host after host, for any number of hosts.
THEOREM ProvisionsInTurn == Spec => []IndividualisedInTurn
<1>1. IInv => IndividualisedInTurn
  BY DEF IInv, SerialInv, IndividualisedInTurn
<1> QED
  BY Inductive, <1>1, PTL

\* A configure that reports success has configured every host.
THEOREM ConfigureSucceeds == Spec => []ConfigureDelivers
BY Inductive, PTL DEF IInv

\* A teardown that reports success has removed every guest.
THEOREM TeardownSucceeds == Spec => []TeardownDelivers
BY Inductive, PTL DEF IInv

\* Only a fault can make a teardown fail, whatever earlier commands left behind.
THEOREM TeardownRepeatable == Spec => []TeardownNeverRefused
<1>1. IInv => TeardownNeverRefused
  BY DEF IInv, TeardownInv, TeardownNeverRefused
<1> QED
  BY Inductive, <1>1, PTL

\* What write_local_manifest records is true when it is recorded.
THEOREM ManifestTruthful == Spec => ManifestTellsTruth
<1> DEFINE Truth ==
      manifest' # manifest /\ manifest'.kind = "whole" =>
        \/ manifest' = Manifest("Removed") /\ \A h \in Hosts : guests[h].vm = "absent"
        \/ /\ manifest' = Manifest("Deployed")
           /\ Misled \/ (guests[Jump].store /\ \A h \in Hosts : guests[h].vhost = h)
<1>1. ASSUME IInv, Next PROVE Truth
  <2> SUFFICES ASSUME manifest' # manifest, manifest'.kind = "whole" PROVE Truth
    OBVIOUS
  <2>1. WriteDeployed \/ WriteRemoved
    BY <1>1 DEF Next, Destroy, Provision, Configure, Record, world, Command, TeardownUnconfirmed,
       StepRaises, Killed, Preflight, PreflightFails, Template, TemplateRaises, NothingToDestroy,
       Registered, PowerOff, PowerOffSkipped, Unregister, UnregisterFails, Import, ImportFails,
       AttachSeed, StartHeadless, GuestAddress, Individualised, NotIndividualised, Addresses,
       AddressesMissing, ConfigureBackend, PublishSite, ConfigureBalancer, DeployService,
       SeedInventory, ClusterReady, OnGuest, ReadManifest, ManifestUnreadable,
       ManifestErrorSwallowed, TruncateManifest, TornManifest, NoManifest, FirstBoot,
       GuestStops, GuestStartsAgain
  <2>2. CASE WriteRemoved
    BY <1>1, <2>2 DEF WriteRemoved, IInv, TeardownInv, ManifestPcs
  <2>3. CASE WriteDeployed
    <3>1. manifest' = Manifest("Deployed") /\ pc = "write" /\ cmd \in {"configure", "deploy"}
      BY <1>1, <2>3 DEF WriteDeployed, Goto, IInv, TypeOK, ControlInv, ProvisionPcs, DestroyPcs
    <3>2. ASSUME ~Misled PROVE guests[Jump].store /\ \A h \in Hosts : guests[h].vhost = h
      BY <1>1, <3>1, <3>2, HostFacts DEF IInv, ProgressInv, BackendDone
    <3> QED
      BY <3>1, <3>2
  <2> QED
    BY <2>1, <2>2, <2>3
<1>2. ASSUME UNCHANGED vars PROVE Truth
  BY <1>2 DEF vars, world
<1> QED
  BY Inductive, <1>1, <1>2, PTL DEF Spec, ManifestTellsTruth

================================================================================
