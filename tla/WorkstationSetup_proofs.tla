----------------------- MODULE WorkstationSetup_proofs ------------------------
(***************************************************************************)
(* Proofs about setup, --keys-only and restore-bootstrap, for every set of *)
(* accounts and key paths and any number of commands: the inductive        *)
(* invariant IInv of WorkstationSetup, and from it the properties of setup *)
(* that the Workstation run checks.                                        *)
(***************************************************************************)
EXTENDS Workstation, TLAPS

\* What the configuration may name is an identity.
LEMMA SetupConfigured ==
    ASSUME Setup!TypeOK, NEW env \in EnvUsers \union {NoUser}
    PROVE  Setup!Configured(env) \in Setup!Identities
BY SetupHolds DEF Setup!SetupAssumption, Setup!TypeOK, Setup!Configured, Setup!Identities,
   Setup!NoIdentity

\* The changes that a session makes to an account make an account of it.
LEMMA SetupAccounts ==
    ASSUME NEW a \in Setup!Accounts, NEW k \in {Setup!NoLine} \union Setup!Keys
    PROVE  /\ [Setup!NoAccount EXCEPT !.exists = TRUE, !.shell = TRUE] \in Setup!Accounts
           /\ [a EXCEPT !.group = TRUE] \in Setup!Accounts
           /\ [a EXCEPT !.key = k, !.owned = FALSE] \in Setup!Accounts
           /\ [a EXCEPT !.owned = TRUE] \in Setup!Accounts
           /\ [a EXCEPT !.rule = TRUE] \in Setup!Accounts
           /\ [a EXCEPT !.rule = FALSE] \in Setup!Accounts
           /\ [a EXCEPT !.pw = "set"] \in Setup!Accounts
           /\ [a EXCEPT !.shell = TRUE] \in Setup!Accounts
           /\ \A p \in Setup!DisablePcs : Setup!Disabled(p, a) \in Setup!Accounts
<1>1. /\ [Setup!NoAccount EXCEPT !.exists = TRUE, !.shell = TRUE] \in Setup!Accounts
      /\ [a EXCEPT !.group = TRUE] \in Setup!Accounts
      /\ [a EXCEPT !.key = k, !.owned = FALSE] \in Setup!Accounts
      /\ [a EXCEPT !.owned = TRUE] \in Setup!Accounts
      /\ [a EXCEPT !.rule = TRUE] \in Setup!Accounts
      /\ [a EXCEPT !.rule = FALSE] \in Setup!Accounts
      /\ [a EXCEPT !.pw = "set"] \in Setup!Accounts
      /\ [a EXCEPT !.shell = TRUE] \in Setup!Accounts
  BY DEF Setup!Accounts, Setup!NoAccount
<1>2. /\ [a EXCEPT !.pw = IF a.pw = "set" THEN "locked" ELSE a.pw] \in Setup!Accounts
      /\ [a EXCEPT !.shell = FALSE] \in Setup!Accounts
      /\ [a EXCEPT !.group = FALSE] \in Setup!Accounts
      /\ [a EXCEPT !.key = Setup!NoLine, !.owned = FALSE] \in Setup!Accounts
  BY DEF Setup!Accounts
<1>3. ASSUME NEW p \in Setup!DisablePcs PROVE Setup!Disabled(p, a) \in Setup!Accounts
  BY <1>1, <1>2 DEF Setup!Disabled, Setup!DisablePcs
<1> QED
  BY <1>1, <1>3


\* Every step keeps the types.
LEMMA SetupTypeStep == ASSUME Setup!IInv, [Setup!Next]_Setup!vars PROVE Setup!TypeOK'
<1> USE DEF Setup!TypeOK, Setup!IInv, Setup!vars, Setup!boxVars, Setup!fileVars, Setup!runVars
<1> DEFINE Was0 == acct[target.user]
<1>a. /\ target.user \in Users /\ target.path \in Paths /\ cfg.user \in Users
      /\ Was0 \in Setup!Accounts /\ acct[cfg.user] \in Setup!Accounts
  BY DEF Setup!Identities
<1>b. /\ Setup!NoLine \in {Setup!NoLine} \union Setup!Keys
      /\ Setup!NoIdentity \in {Setup!NoIdentity}
      /\ {Setup!NoLine} \union Setup!Keys \subseteq Setup!Contents
      /\ Setup!Truncated \in Setup!Contents
      /\ Setup!Pcs = {"idle", "reach", "verify", "poweroff", "useradd", "group", "key", "chown",
                "rule", "visudo", "lock", "nologin", "gpasswd", "rmrule", "rmkey", "id",
                "unlock", "shell", "keypair", "privwrite", "pubtrunc", "pubwrite",
                "inventory", "invwrite", "overlay", "overlaywrite"}
  BY DEF Setup!NoLine, Setup!Contents, Setup!NoFile, Setup!Pcs, Setup!CreatePcs, Setup!DisablePcs,
     Setup!EnablePcs, Setup!FilePcs
<1>c. ASSUME NEW u \in Users, NEW a \in Setup!Accounts, acct' = [acct EXCEPT ![u] = a]
      PROVE  acct' \in [Users -> Setup!Accounts]
  BY <1>c
<1>d. \A c \in Setup!Contents : c = Setup!Truncated \/ c \in {Setup!NoLine} \union Setup!Keys
  BY DEF Setup!Contents, Setup!NoFile, Setup!NoLine
<1>e. \A p \in Setup!DisablePcs : Setup!AfterDisable(p) \in Setup!Pcs
  BY <1>b DEF Setup!DisablePcs, Setup!AfterDisable
<1>f. SetupMax \in Nat /\ MaxKeys \in Nat
  BY SetupHolds DEF Setup!SetupAssumption
<1>1. CASE Setup!CmdSetup
  <2>1. PICK env \in EnvUsers \union {NoUser} : \E m \in {"setup", "keys", "restore"},
                 pcs \in {"keypair", "reach"} : Setup!Begin(m, env, pcs)
    BY <1>1 DEF Setup!CmdSetup
  <2>2. PICK u \in Users, p \in Paths : target' = [user |-> u, path |-> p]
    BY <1>1, SetupHolds DEF Setup!CmdSetup, Setup!SetupAssumption
  <2>3. target' \in Setup!Identities /\ Setup!Configured(env) \in Setup!Identities
    BY <2>2, SetupConfigured, SetupHolds DEF Setup!Identities, Setup!SetupAssumption
  <2>4. setupRuns' \in 0..SetupMax
    BY <2>1, <1>f DEF Setup!Begin
  <2>5. line' \in {Setup!NoLine} \union Setup!Keys
    BY <1>1, <1>b, <1>d, SetupHolds DEF Setup!CmdSetup, Setup!SetupAssumption
  <2> QED
    BY <2>1, <2>3, <2>4, <2>5, <1>b DEF Setup!Begin
<1>2. CASE Setup!CmdKeysOnly
  <2>1. PICK env \in EnvUsers \union {NoUser} : \E m \in {"setup", "keys", "restore"},
                 pcs \in {"keypair", "reach"} : Setup!Begin(m, env, pcs)
    BY <1>2 DEF Setup!CmdKeysOnly
  <2>2. PICK u \in Users, p \in Paths : target' = [user |-> u, path |-> p]
    BY <1>2, SetupHolds DEF Setup!CmdKeysOnly, Setup!SetupAssumption
  <2>3. target' \in Setup!Identities /\ Setup!Configured(env) \in Setup!Identities
    BY <2>2, SetupConfigured, SetupHolds DEF Setup!Identities, Setup!SetupAssumption
  <2>4. setupRuns' \in 0..SetupMax
    BY <2>1, <1>f DEF Setup!Begin
  <2>5. line' \in {Setup!NoLine} \union Setup!Keys
    BY <1>2, <1>b, <1>d, SetupHolds DEF Setup!CmdKeysOnly, Setup!SetupAssumption
  <2> QED
    BY <2>1, <2>3, <2>4, <2>5, <1>b DEF Setup!Begin
<1>3. CASE Setup!CmdRestore
  <2>1. PICK env \in EnvUsers \union {NoUser} : \E m \in {"setup", "keys", "restore"},
                 pcs \in {"keypair", "reach"} : Setup!Begin(m, env, pcs)
    BY <1>3 DEF Setup!CmdRestore
  <2>2. PICK u \in Users, p \in Paths : target' = [user |-> u, path |-> p]
    BY <1>3, SetupHolds DEF Setup!CmdRestore, Setup!SetupAssumption
  <2>3. target' \in Setup!Identities /\ Setup!Configured(env) \in Setup!Identities
    BY <2>2, SetupConfigured, SetupHolds DEF Setup!Identities, Setup!SetupAssumption
  <2>4. setupRuns' \in 0..SetupMax
    BY <2>1, <1>f DEF Setup!Begin
  <2>5. line' \in {Setup!NoLine} \union Setup!Keys
    BY <1>3, <1>b, <1>d, SetupHolds DEF Setup!CmdRestore, Setup!SetupAssumption
  <2> QED
    BY <2>1, <2>3, <2>4, <2>5, <1>b DEF Setup!Begin
<1>4. CASE Setup!KeypairReused
  BY <1>4, <1>a, <1>b, <1>d DEF Setup!KeypairReused, Setup!Goto
<1>5. CASE Setup!KeypairGenerated
  <2>1. minted' \in Setup!Keys /\ line' \in Setup!Keys
    BY <1>5, <1>f DEF Setup!KeypairGenerated, Setup!Keys
  <2>2. priv' \in [Paths -> Setup!Contents]
    BY <1>5, <1>a, <1>b DEF Setup!KeypairGenerated
  <2> QED
    BY <1>5, <2>1, <2>2, <1>b DEF Setup!KeypairGenerated, Setup!Goto
<1>6. CASE Setup!PrivateWritten
  <2>1. priv' \in [Paths -> Setup!Contents]
    BY <1>6, <1>a, <1>b DEF Setup!PrivateWritten
  <2> QED
    BY <1>6, <2>1, <1>b DEF Setup!PrivateWritten, Setup!Goto
<1>7. CASE Setup!PublicTruncated
  <2>1. pub' \in [Paths -> Setup!Contents]
    BY <1>7, <1>a, <1>b DEF Setup!PublicTruncated
  <2> QED
    BY <1>7, <2>1, <1>b DEF Setup!PublicTruncated, Setup!Goto
<1>8. CASE Setup!PublicWritten
  <2>1. pub' \in [Paths -> Setup!Contents]
    BY <1>8, <1>a, <1>b DEF Setup!PublicWritten
  <2> QED
    BY <1>8, <2>1, <1>b DEF Setup!PublicWritten, Setup!Goto
<1>9. CASE Setup!InventoryKeyLoaded
  BY <1>9, <1>b DEF Setup!InventoryKeyLoaded, Setup!Goto,
     Setup!AfterKeys
<1>10. CASE Setup!InventoryKeyInvalid
  BY <1>10, <1>b DEF Setup!InventoryKeyInvalid, Setup!Raise
<1>11. CASE Setup!InventoryKeyTruncated
  BY <1>11, <1>b DEF Setup!InventoryKeyTruncated, Setup!Goto
<1>12. CASE Setup!InventoryKeyWritten
  BY <1>12, <1>b DEF Setup!InventoryKeyWritten, Setup!Goto,
     Setup!AfterKeys
<1>13. CASE Setup!OverlayTruncated
  BY <1>13, <1>b DEF Setup!OverlayTruncated, Setup!Goto
<1>14. CASE Setup!OverlayWritten
  BY <1>14, <1>b DEF Setup!OverlayWritten, Setup!Done
<1>15. CASE Setup!Reach
  BY <1>15, <1>b DEF Setup!Reach, Setup!AfterReach, Setup!Goto
<1>16. CASE Setup!ReachTimesOut
  BY <1>16, <1>b DEF Setup!ReachTimesOut, Setup!Raise
<1>17. CASE Setup!SudoRefused
  BY <1>17, <1>b DEF Setup!SudoRefused, Setup!Raise
<1>18. CASE Setup!UserAdd
  <2>1. acct' \in [Users -> Setup!Accounts]
    BY <1>18, <1>a, <1>c, SetupAccounts DEF Setup!UserAdd, Setup!Sudo, Setup!OnBox, Setup!Was
  <2> QED
    BY <1>18, <2>1, <1>b DEF Setup!UserAdd, Setup!Sudo, Setup!OnBox, Setup!Goto
<1>19. CASE Setup!AddToGroup
  <2>1. acct' \in [Users -> Setup!Accounts]
    BY <1>19, <1>a, <1>c, SetupAccounts DEF Setup!AddToGroup, Setup!Sudo, Setup!OnBox, Setup!Was
  <2> QED
    BY <1>19, <2>1, <1>b DEF Setup!AddToGroup, Setup!Sudo, Setup!OnBox, Setup!Goto
<1>20. CASE Setup!InstallKey
  <2>1. acct' \in [Users -> Setup!Accounts]
    BY <1>20, <1>a, <1>c, SetupAccounts DEF Setup!InstallKey, Setup!Sudo, Setup!OnBox, Setup!Was
  <2> QED
    BY <1>20, <2>1, <1>b DEF Setup!InstallKey, Setup!Sudo, Setup!OnBox, Setup!Goto
<1>21. CASE Setup!ChownKey
  <2>1. acct' \in [Users -> Setup!Accounts]
    BY <1>21, <1>a, <1>c, SetupAccounts DEF Setup!ChownKey, Setup!Sudo, Setup!OnBox, Setup!Was
  <2> QED
    BY <1>21, <2>1, <1>b DEF Setup!ChownKey, Setup!Sudo, Setup!OnBox, Setup!Goto
<1>22. CASE Setup!WriteRule
  <2>1. acct' \in [Users -> Setup!Accounts]
    BY <1>22, <1>a, <1>c, SetupAccounts DEF Setup!WriteRule, Setup!Sudo, Setup!OnBox, Setup!Was
  <2> QED
    BY <1>22, <2>1, <1>b DEF Setup!WriteRule, Setup!Sudo, Setup!OnBox, Setup!Goto
<1>23. CASE Setup!ValidateRule
  <2>1. acct' \in [Users -> Setup!Accounts]
    BY <1>23, <1>a, <1>c, SetupAccounts DEF Setup!ValidateRule, Setup!Sudo, Setup!OnBox, Setup!Was
  <2> QED
    BY <1>23, <2>1, <1>b DEF Setup!ValidateRule, Setup!Sudo, Setup!OnBox, Setup!Goto
<1>24. CASE Setup!RuleRejected
  <2>1. CASE password
    <3>1. acct' = [acct EXCEPT ![target.user] = [Was0 EXCEPT !.rule = FALSE]]
      BY <1>24, <2>1 DEF Setup!RuleRejected
    <3> QED
      BY <1>24, <3>1, <1>a, <1>b, <1>c, SetupAccounts DEF Setup!RuleRejected, Setup!Raise
  <2>2. CASE ~password
    <3>1. acct' = [acct EXCEPT ![target.user] = Was0]
      BY <1>24, <2>2, <1>a DEF Setup!RuleRejected, Setup!Accounts
    <3> QED
      BY <1>24, <3>1, <1>a, <1>b, <1>c DEF Setup!RuleRejected, Setup!Raise
  <2> QED
    BY <2>1, <2>2
<1>25. CASE Setup!Verify
  <2>1. acct' \in [Users -> Setup!Accounts]
    BY <1>25, <1>a, <1>c, SetupAccounts DEF Setup!Verify, Setup!OnBox, Setup!Was
  <2> QED
    BY <1>25, <2>1, <1>b DEF Setup!Verify, Setup!OnBox, Setup!Goto
<1>26. CASE Setup!VerifyFails
  BY <1>26, <1>b DEF Setup!VerifyFails, Setup!Raise
<1>27. CASE Setup!DisableBootstrap
  <2>1. PICK p \in Setup!DisablePcs : Setup!Disable(p) \/ Setup!DisableFails(p)
    BY <1>27 DEF Setup!DisableBootstrap
  <2>2. CASE Setup!Disable(p)
    <3>1. acct' \in [Users -> Setup!Accounts]
      BY <2>2, <1>a, <1>c, SetupAccounts DEF Setup!Disable, Setup!OnBox
    <3> QED
      BY <2>2, <3>1, <1>e DEF Setup!Disable, Setup!OnBox, Setup!Goto
  <2>3. CASE Setup!DisableFails(p)
    BY <2>3, <1>b, <1>e DEF Setup!DisableFails, Setup!Raise
  <2> QED
    BY <2>1, <2>2, <2>3
<1>28. CASE Setup!AccountFound
  <2>1. acct' \in [Users -> Setup!Accounts]
    BY <1>28, <1>a, <1>c, SetupAccounts DEF Setup!AccountFound, Setup!OnBox, Setup!Was
  <2> QED
    BY <1>28, <2>1, <1>b DEF Setup!AccountFound, Setup!OnBox, Setup!Goto
<1>29. CASE Setup!AccountMissing
  BY <1>29, <1>b DEF Setup!AccountMissing, Setup!Raise
<1>30. CASE Setup!Unlock
  <2>1. acct' \in [Users -> Setup!Accounts]
    BY <1>30, <1>a, <1>c, SetupAccounts DEF Setup!Unlock, Setup!Sudo, Setup!OnBox, Setup!Was
  <2> QED
    BY <1>30, <2>1, <1>b DEF Setup!Unlock, Setup!Sudo, Setup!OnBox, Setup!Goto
<1>31. CASE Setup!UnlockFails
  <2>1. acct' \in [Users -> Setup!Accounts]
    BY <1>31, <1>a, <1>c, SetupAccounts DEF Setup!UnlockFails, Setup!OnBox, Setup!Was
  <2> QED
    BY <1>31, <2>1, <1>b DEF Setup!UnlockFails, Setup!OnBox, Setup!Goto, Setup!Raise
<1>32. CASE Setup!RestoreShell
  <2>1. acct' \in [Users -> Setup!Accounts]
    BY <1>32, <1>a, <1>c, SetupAccounts DEF Setup!RestoreShell, Setup!Sudo, Setup!OnBox, Setup!Was
  <2> QED
    BY <1>32, <2>1, <1>b DEF Setup!RestoreShell, Setup!Sudo, Setup!OnBox, Setup!Goto
<1>33. CASE Setup!RestoreDone
  BY <1>33, <1>b DEF Setup!RestoreDone, Setup!Done
<1>34. CASE Setup!StepRaises
  BY <1>34, <1>b DEF Setup!StepRaises, Setup!Raise
<1>35. CASE Setup!Killed
  BY <1>35, <1>b DEF Setup!Killed
<1>36. CASE UNCHANGED Setup!vars
  BY <1>36
<1>37. CASE Setup!ReachOther
  BY <1>37, <1>b DEF Setup!ReachOther, Setup!AfterReach
<1>38. CASE Setup!ElsewhereSucceeds
  <2>1. Setup!AfterStep(setupPc) \in Setup!Pcs
    BY <1>38, <1>b, <1>e DEF Setup!ElsewhereSucceeds, Setup!AfterStep, Setup!SessionPcs,
       Setup!CreatePcs, Setup!DisablePcs, Setup!EnablePcs
  <2> QED
    BY <1>38, <2>1 DEF Setup!ElsewhereSucceeds
<1>39. CASE Setup!ElsewhereFails
  BY <1>39, <1>b DEF Setup!ElsewhereFails, Setup!Raise
<1> QED
  BY <1>1, <1>2, <1>3, <1>4, <1>5, <1>6, <1>7, <1>8, <1>9, <1>10, <1>11, <1>12, <1>13, <1>14,
     <1>15, <1>16, <1>17, <1>18, <1>19, <1>20, <1>21, <1>22, <1>23, <1>24, <1>25, <1>26, <1>27,
     <1>28, <1>29, <1>30, <1>31, <1>32, <1>33, <1>34, <1>35, <1>36, <1>37, <1>38, <1>39
     DEF Setup!Next, Setup!Command,
     Setup!LocalFiles, Setup!Session, Setup!Create, Setup!Restore

\* Every step keeps the commands apart: a command goes through its own steps, and the account it
\* came in with is never the one that setup is about.
LEMMA SetupModesStep == ASSUME Setup!IInv, [Setup!Next]_Setup!vars PROVE Setup!ModesInv'
<1> USE DEF Setup!IInv, Setup!ModesInv, Setup!vars, Setup!boxVars, Setup!fileVars, Setup!runVars,
   Setup!FilePcs, Setup!KeypairPcs, Setup!CreatePcs, Setup!DisablePcs, Setup!EnablePcs
<1>1. CASE Setup!CmdSetup
  BY <1>1 DEF Setup!CmdSetup, Setup!Begin
<1>2. CASE Setup!CmdKeysOnly
  BY <1>2 DEF Setup!CmdKeysOnly, Setup!Begin
<1>3. CASE Setup!CmdRestore
  BY <1>3 DEF Setup!CmdRestore, Setup!Begin
<1>4. CASE Setup!KeypairReused
  BY <1>4 DEF Setup!KeypairReused, Setup!Goto
<1>5. CASE Setup!KeypairGenerated
  BY <1>5 DEF Setup!KeypairGenerated, Setup!Goto
<1>6. CASE Setup!PrivateWritten
  BY <1>6 DEF Setup!PrivateWritten, Setup!Goto
<1>7. CASE Setup!PublicTruncated
  BY <1>7 DEF Setup!PublicTruncated, Setup!Goto
<1>8. CASE Setup!PublicWritten
  BY <1>8 DEF Setup!PublicWritten, Setup!Goto
<1>9. CASE Setup!InventoryKeyLoaded
  BY <1>9 DEF Setup!InventoryKeyLoaded, Setup!Goto, Setup!AfterKeys
<1>10. CASE Setup!InventoryKeyInvalid
  BY <1>10 DEF Setup!InventoryKeyInvalid, Setup!Raise
<1>11. CASE Setup!InventoryKeyTruncated
  BY <1>11 DEF Setup!InventoryKeyTruncated, Setup!Goto
<1>12. CASE Setup!InventoryKeyWritten
  BY <1>12 DEF Setup!InventoryKeyWritten, Setup!Goto, Setup!AfterKeys
<1>13. CASE Setup!OverlayTruncated
  BY <1>13 DEF Setup!OverlayTruncated, Setup!Goto
<1>14. CASE Setup!OverlayWritten
  BY <1>14 DEF Setup!OverlayWritten, Setup!Done
<1>15. CASE Setup!Reach
  BY <1>15 DEF Setup!Reach, Setup!AfterReach, Setup!Goto
<1>16. CASE Setup!ReachTimesOut
  BY <1>16 DEF Setup!ReachTimesOut, Setup!Raise
<1>17. CASE Setup!SudoRefused
  BY <1>17 DEF Setup!SudoRefused, Setup!Raise
<1>18. CASE Setup!UserAdd
  BY <1>18 DEF Setup!UserAdd, Setup!Sudo, Setup!OnBox, Setup!Goto, Setup!Was
<1>19. CASE Setup!AddToGroup
  BY <1>19 DEF Setup!AddToGroup, Setup!Sudo, Setup!OnBox, Setup!Goto, Setup!Was
<1>20. CASE Setup!InstallKey
  BY <1>20 DEF Setup!InstallKey, Setup!Sudo, Setup!OnBox, Setup!Goto, Setup!Was
<1>21. CASE Setup!ChownKey
  BY <1>21 DEF Setup!ChownKey, Setup!Sudo, Setup!OnBox, Setup!Goto, Setup!Was
<1>22. CASE Setup!WriteRule
  BY <1>22 DEF Setup!WriteRule, Setup!Sudo, Setup!OnBox, Setup!Goto, Setup!Was
<1>23. CASE Setup!ValidateRule
  BY <1>23 DEF Setup!ValidateRule, Setup!Sudo, Setup!OnBox, Setup!Goto, Setup!Was
<1>24. CASE Setup!RuleRejected
  BY <1>24 DEF Setup!RuleRejected, Setup!Raise
<1>25. CASE Setup!Verify
  BY <1>25 DEF Setup!Verify, Setup!OnBox, Setup!Goto, Setup!Was
<1>26. CASE Setup!VerifyFails
  BY <1>26 DEF Setup!VerifyFails, Setup!Raise
<1>27. CASE Setup!DisableBootstrap
  <2>1. PICK p \in Setup!DisablePcs : Setup!Disable(p) \/ Setup!DisableFails(p)
    BY <1>27 DEF Setup!DisableBootstrap
  <2>2. CASE Setup!Disable(p)
    BY <2>1, <2>2 DEF Setup!Disable, Setup!OnBox, Setup!Goto, Setup!AfterDisable
  <2>3. CASE Setup!DisableFails(p)
    BY <2>1, <2>3 DEF Setup!DisableFails, Setup!Raise, Setup!AfterDisable
  <2> QED
    BY <2>1, <2>2, <2>3
<1>28. CASE Setup!AccountFound
  BY <1>28 DEF Setup!AccountFound, Setup!OnBox, Setup!Goto, Setup!Was
<1>29. CASE Setup!AccountMissing
  BY <1>29 DEF Setup!AccountMissing, Setup!Raise
<1>30. CASE Setup!Unlock
  BY <1>30 DEF Setup!Unlock, Setup!Sudo, Setup!OnBox, Setup!Goto, Setup!Was
<1>31. CASE Setup!UnlockFails
  BY <1>31 DEF Setup!UnlockFails, Setup!OnBox, Setup!Goto, Setup!Raise, Setup!Was
<1>32. CASE Setup!RestoreShell
  BY <1>32 DEF Setup!RestoreShell, Setup!Sudo, Setup!OnBox, Setup!Goto, Setup!Was
<1>33. CASE Setup!RestoreDone
  BY <1>33 DEF Setup!RestoreDone, Setup!Done
<1>34. CASE Setup!StepRaises
  BY <1>34 DEF Setup!StepRaises, Setup!Raise
<1>35. CASE Setup!Killed
  BY <1>35 DEF Setup!Killed
<1>36. CASE UNCHANGED Setup!vars
  BY <1>36
<1>37. CASE Setup!ReachOther
  BY <1>37 DEF Setup!ReachOther, Setup!AfterReach
<1>38. CASE Setup!ElsewhereSucceeds
  BY <1>38 DEF Setup!ElsewhereSucceeds, Setup!AfterStep, Setup!SessionPcs, Setup!AfterDisable
<1>39. CASE Setup!ElsewhereFails
  BY <1>39 DEF Setup!ElsewhereFails, Setup!Raise
<1> QED
  BY <1>1, <1>2, <1>3, <1>4, <1>5, <1>6, <1>7, <1>8, <1>9, <1>10, <1>11, <1>12, <1>13, <1>14,
     <1>15, <1>16, <1>17, <1>18, <1>19, <1>20, <1>21, <1>22, <1>23, <1>24, <1>25, <1>26, <1>27,
     <1>28, <1>29, <1>30, <1>31, <1>32, <1>33, <1>34, <1>35, <1>36, <1>37, <1>38, <1>39
     DEF Setup!Next, Setup!Command,
     Setup!LocalFiles, Setup!Session, Setup!Create, Setup!Restore

\* Every step keeps the keys within those minted so far.
LEMMA SetupMintedStep == ASSUME Setup!IInv, [Setup!Next]_Setup!vars PROVE Setup!MintedInv'
<1> USE DEF Setup!IInv, Setup!MintedInv, Setup!vars, Setup!boxVars, Setup!fileVars, Setup!runVars
<1>a. target.user \in Users /\ target.path \in Paths /\ cfg.user \in Users
  BY DEF Setup!TypeOK, Setup!Identities
<1>b. minted \in Int /\ 1 <= minted /\ 0 <= minted /\ line \in Int
  BY SetupHolds DEF Setup!TypeOK, Setup!Keys, Setup!SetupAssumption, Setup!NoLine
<1>c. /\ \A p \in Paths : priv[p] \in Int /\ pub[p] \in Int
      /\ \A u \in Users : acct[u] \in Setup!Accounts /\ acct[u].key \in Int
  BY SetupHolds DEF Setup!TypeOK, Setup!Keys, Setup!SetupAssumption, Setup!NoLine, Setup!Contents,
     Setup!NoFile, Setup!Truncated, Setup!Accounts
<1>d. ASSUME NEW u \in Users, NEW a, acct' = [acct EXCEPT ![u] = a], a.key <= minted,
             UNCHANGED <<priv, pub, minted, line>>
      PROVE  Setup!MintedInv'
  <2>1. \A v \in Users : acct'[v].key <= minted
    BY <1>d DEF Setup!TypeOK
  <2> QED
    BY <2>1, <1>d
<1>e. ASSUME UNCHANGED <<acct, priv, pub, minted, line>> PROVE Setup!MintedInv'
  BY <1>e
<1>1. CASE Setup!CmdSetup
  <2>1. UNCHANGED <<acct, priv, pub, minted>>
    BY <1>1 DEF Setup!CmdSetup, Setup!Begin
  <2>2. line' <= minted
    BY <1>1, <1>b, SetupHolds DEF Setup!CmdSetup, Setup!NoLine, Setup!SetupAssumption
  <2> QED
    BY <2>1, <2>2
<1>2. CASE Setup!CmdKeysOnly
  <2>1. UNCHANGED <<acct, priv, pub, minted>>
    BY <1>2 DEF Setup!CmdKeysOnly, Setup!Begin
  <2>2. line' <= minted
    BY <1>2, <1>b, SetupHolds DEF Setup!CmdKeysOnly, Setup!NoLine, Setup!SetupAssumption
  <2> QED
    BY <2>1, <2>2
<1>3. CASE Setup!CmdRestore
  <2>1. UNCHANGED <<acct, priv, pub, minted>>
    BY <1>3 DEF Setup!CmdRestore, Setup!Begin
  <2>2. line' <= minted
    BY <1>3, <1>b, SetupHolds DEF Setup!CmdRestore, Setup!NoLine, Setup!SetupAssumption
  <2> QED
    BY <2>1, <2>2
<1>4. CASE Setup!KeypairReused
  BY <1>4, <1>a, <1>b DEF Setup!KeypairReused, Setup!NoLine
<1>5. CASE Setup!KeypairGenerated
  <2>1. minted' = minted + 1 /\ line' = minted' /\ UNCHANGED <<acct, pub>>
    BY <1>5 DEF Setup!KeypairGenerated, Setup!boxVars
  <2>2. \A p \in Paths : priv'[p] <= minted'
    BY <1>5, <2>1, <1>a, <1>b, <1>c DEF Setup!KeypairGenerated, Setup!TypeOK, Setup!Truncated
  <2> QED
    BY <2>1, <2>2, <1>b, <1>c
<1>6. CASE Setup!PrivateWritten
  BY <1>6, <1>a, <1>b DEF Setup!PrivateWritten, Setup!TypeOK
<1>7. CASE Setup!PublicTruncated
  BY <1>7, <1>a, <1>b DEF Setup!PublicTruncated, Setup!TypeOK, Setup!Truncated
<1>8. CASE Setup!PublicWritten
  BY <1>8, <1>a, <1>b DEF Setup!PublicWritten, Setup!TypeOK
<1>9. CASE Setup!InventoryKeyLoaded
  BY <1>9, <1>e DEF Setup!InventoryKeyLoaded, Setup!Goto, Setup!AfterKeys
<1>10. CASE Setup!InventoryKeyInvalid
  BY <1>10, <1>e DEF Setup!InventoryKeyInvalid, Setup!Raise
<1>11. CASE Setup!InventoryKeyTruncated
  BY <1>11, <1>e DEF Setup!InventoryKeyTruncated, Setup!Goto
<1>12. CASE Setup!InventoryKeyWritten
  BY <1>12, <1>e DEF Setup!InventoryKeyWritten, Setup!Goto, Setup!AfterKeys
<1>13. CASE Setup!OverlayTruncated
  BY <1>13, <1>e DEF Setup!OverlayTruncated, Setup!Goto
<1>14. CASE Setup!OverlayWritten
  BY <1>14, <1>e DEF Setup!OverlayWritten, Setup!Done
<1>15. CASE Setup!Reach
  BY <1>15, <1>e DEF Setup!Reach, Setup!Goto
<1>16. CASE Setup!ReachTimesOut
  BY <1>16, <1>e DEF Setup!ReachTimesOut, Setup!Raise
<1>17. CASE Setup!SudoRefused
  BY <1>17, <1>e DEF Setup!SudoRefused, Setup!Raise
<1>18. CASE Setup!UserAdd
  BY <1>18, <1>a, <1>b, <1>c, <1>d DEF Setup!UserAdd, Setup!Sudo, Setup!OnBox, Setup!Goto,
     Setup!Was, Setup!Accounts, Setup!TypeOK, Setup!NoAccount, Setup!NoLine
<1>19. CASE Setup!AddToGroup
  BY <1>19, <1>a, <1>b, <1>c, <1>d DEF Setup!AddToGroup, Setup!Sudo, Setup!OnBox, Setup!Goto,
     Setup!Was, Setup!Accounts, Setup!TypeOK
<1>20. CASE Setup!InstallKey
  BY <1>20, <1>a, <1>b, <1>c, <1>d DEF Setup!InstallKey, Setup!Sudo, Setup!OnBox, Setup!Goto,
     Setup!Was, Setup!Accounts, Setup!TypeOK
<1>21. CASE Setup!ChownKey
  BY <1>21, <1>a, <1>b, <1>c, <1>d DEF Setup!ChownKey, Setup!Sudo, Setup!OnBox, Setup!Goto,
     Setup!Was, Setup!Accounts, Setup!TypeOK
<1>22. CASE Setup!WriteRule
  BY <1>22, <1>a, <1>b, <1>c, <1>d DEF Setup!WriteRule, Setup!Sudo, Setup!OnBox, Setup!Goto,
     Setup!Was, Setup!Accounts, Setup!TypeOK
<1>23. CASE Setup!ValidateRule
  BY <1>23, <1>a, <1>b, <1>c, <1>d DEF Setup!ValidateRule, Setup!Sudo, Setup!OnBox, Setup!Goto,
     Setup!Was, Setup!Accounts, Setup!TypeOK
<1>24. CASE Setup!RuleRejected
  <2>1. \A u \in Users : acct'[u].key = acct[u].key
    BY <1>24, <1>a, <1>c DEF Setup!RuleRejected, Setup!TypeOK, Setup!Accounts
  <2> QED
    BY <1>24, <2>1 DEF Setup!RuleRejected, Setup!Raise
<1>25. CASE Setup!Verify
  BY <1>25, <1>a, <1>b, <1>c, <1>d DEF Setup!Verify, Setup!OnBox, Setup!Goto, Setup!Was,
     Setup!Accounts, Setup!TypeOK
<1>26. CASE Setup!VerifyFails
  BY <1>26, <1>e DEF Setup!VerifyFails, Setup!Raise
<1>27. CASE Setup!DisableBootstrap
  <2>1. PICK p \in Setup!DisablePcs : Setup!Disable(p) \/ Setup!DisableFails(p)
    BY <1>27 DEF Setup!DisableBootstrap
  <2>2. CASE Setup!Disable(p)
    <3>1. Setup!Disabled(p, acct[cfg.user]).key <= minted
      BY <1>a, <1>b, <1>c DEF Setup!Disabled, Setup!DisablePcs, Setup!Accounts, Setup!NoLine
    <3> QED
      BY <2>2, <3>1, <1>a, <1>d DEF Setup!Disable, Setup!OnBox
  <2>3. CASE Setup!DisableFails(p)
    BY <2>3, <1>e DEF Setup!DisableFails, Setup!Raise
  <2> QED
    BY <2>1, <2>2, <2>3
<1>28. CASE Setup!AccountFound
  BY <1>28, <1>a, <1>b, <1>c, <1>d DEF Setup!AccountFound, Setup!OnBox, Setup!Goto, Setup!Was,
     Setup!Accounts, Setup!TypeOK
<1>29. CASE Setup!AccountMissing
  BY <1>29, <1>e DEF Setup!AccountMissing, Setup!Raise
<1>30. CASE Setup!Unlock
  BY <1>30, <1>a, <1>b, <1>c, <1>d DEF Setup!Unlock, Setup!Sudo, Setup!OnBox, Setup!Goto,
     Setup!Was, Setup!Accounts, Setup!TypeOK
<1>31. CASE Setup!UnlockFails
  BY <1>31, <1>a, <1>c, <1>d, <1>e DEF Setup!UnlockFails, Setup!OnBox, Setup!Raise, Setup!Was
<1>32. CASE Setup!RestoreShell
  BY <1>32, <1>a, <1>b, <1>c, <1>d DEF Setup!RestoreShell, Setup!Sudo, Setup!OnBox, Setup!Goto,
     Setup!Was, Setup!Accounts, Setup!TypeOK
<1>33. CASE Setup!RestoreDone
  BY <1>33, <1>e DEF Setup!RestoreDone, Setup!Done
<1>34. CASE Setup!StepRaises
  BY <1>34, <1>e DEF Setup!StepRaises, Setup!Raise
<1>35. CASE Setup!Killed
  BY <1>35, <1>e DEF Setup!Killed
<1>36. CASE UNCHANGED Setup!vars
  BY <1>36, <1>e
<1>37. CASE Setup!ReachOther
  BY <1>37, <1>e DEF Setup!ReachOther
<1>38. CASE Setup!ElsewhereSucceeds
  BY <1>38, <1>e DEF Setup!ElsewhereSucceeds
<1>39. CASE Setup!ElsewhereFails
  BY <1>39, <1>e DEF Setup!ElsewhereFails, Setup!Raise
<1> QED
  BY <1>1, <1>2, <1>3, <1>4, <1>5, <1>6, <1>7, <1>8, <1>9, <1>10, <1>11, <1>12, <1>13, <1>14,
     <1>15, <1>16, <1>17, <1>18, <1>19, <1>20, <1>21, <1>22, <1>23, <1>24, <1>25, <1>26, <1>27,
     <1>28, <1>29, <1>30, <1>31, <1>32, <1>33, <1>34, <1>35, <1>36, <1>37, <1>38, <1>39
     DEF Setup!Next, Setup!Command,
     Setup!LocalFiles, Setup!Session, Setup!Create, Setup!Restore

\* Every step keeps a key that is being written out of everything but its own files.
LEMMA SetupFreshStep == ASSUME Setup!IInv, [Setup!Next]_Setup!vars PROVE Setup!FreshInv'
<1> USE DEF Setup!IInv, Setup!FreshInv, Setup!vars, Setup!boxVars, Setup!fileVars, Setup!runVars,
   Setup!MintedPcs
<1>a. target.user \in Users /\ target.path \in Paths
  BY DEF Setup!TypeOK, Setup!Identities
<1>b. minted \in Int /\ \A n \in Int : n <= minted => n # minted + 1
  BY DEF Setup!TypeOK, Setup!Keys
<1>c. /\ \A p \in Paths : priv[p] \in Int /\ pub[p] \in Int
      /\ \A u \in Users : acct[u].key \in Int
  BY SetupHolds DEF Setup!TypeOK, Setup!Keys, Setup!SetupAssumption, Setup!NoLine, Setup!Contents,
     Setup!NoFile, Setup!Truncated, Setup!Accounts
<1>1. CASE Setup!KeypairGenerated
  <2>1. /\ \A p \in Paths : pub[p] # minted + 1 /\ priv[p] # minted + 1
        /\ \A u \in Users : acct[u].key # minted + 1
    BY <1>b, <1>c DEF Setup!MintedInv
  <2>2. /\ minted' = minted + 1 /\ line' = minted' /\ setupPc' = "privwrite"
        /\ UNCHANGED <<acct, pub, target>>
        /\ priv' = [priv EXCEPT ![target.path] = Setup!Truncated]
    BY <1>1 DEF Setup!KeypairGenerated, Setup!Goto
  <2>3. \A p \in Paths : p # target.path => priv'[p] # minted'
    BY <2>1, <2>2 DEF Setup!TypeOK
  <2>4. priv'[target.path] = Setup!Truncated
    BY <2>2, <1>a DEF Setup!TypeOK
  <2> QED
    BY <2>1, <2>2, <2>3, <2>4
<1>2. CASE Setup!PrivateWritten
  BY <1>2, <1>a DEF Setup!PrivateWritten, Setup!Goto, Setup!TypeOK
<1>3. CASE Setup!PublicTruncated
  <2>1. Setup!Truncated # minted
    BY DEF Setup!TypeOK, Setup!Keys, Setup!Truncated
  <2> QED
    BY <1>3, <2>1, <1>a DEF Setup!PublicTruncated, Setup!Goto, Setup!TypeOK
<1>4. CASE UNCHANGED Setup!vars
  BY <1>4
<1>5. CASE Setup!Command
  BY <1>5 DEF Setup!Command, Setup!CmdSetup, Setup!CmdKeysOnly, Setup!CmdRestore, Setup!Begin
<1>6. CASE \/ Setup!KeypairReused \/ Setup!PublicWritten \/ Setup!InventoryKeyLoaded
           \/ Setup!InventoryKeyInvalid
           \/ Setup!InventoryKeyTruncated \/ Setup!InventoryKeyWritten \/ Setup!OverlayTruncated
           \/ Setup!OverlayWritten
  BY <1>6 DEF Setup!KeypairReused, Setup!PublicWritten, Setup!InventoryKeyLoaded,
     Setup!InventoryKeyInvalid, Setup!InventoryKeyTruncated, Setup!InventoryKeyWritten,
     Setup!OverlayTruncated, Setup!OverlayWritten, Setup!Goto, Setup!Raise, Setup!Done,
     Setup!AfterKeys
<1>7. CASE Setup!Session
  <2>1. CASE Setup!Create
    BY <1>7, <2>1 DEF Setup!Create, Setup!UserAdd, Setup!AddToGroup, Setup!InstallKey,
       Setup!ChownKey, Setup!WriteRule, Setup!ValidateRule, Setup!RuleRejected, Setup!Verify,
       Setup!VerifyFails, Setup!Sudo, Setup!OnBox, Setup!Goto, Setup!Raise
  <2>2. CASE Setup!DisableBootstrap
    BY <2>2 DEF Setup!DisableBootstrap, Setup!DisablePcs, Setup!Disable, Setup!DisableFails,
       Setup!AfterDisable, Setup!OnBox, Setup!Goto, Setup!Raise
  <2>3. CASE Setup!Restore
    BY <2>3 DEF Setup!Restore, Setup!AccountFound, Setup!AccountMissing, Setup!Unlock,
       Setup!UnlockFails, Setup!RestoreShell, Setup!Sudo, Setup!OnBox, Setup!Goto, Setup!Raise
  <2>4. CASE \/ Setup!Reach \/ Setup!ReachOther \/ Setup!ReachTimesOut \/ Setup!SudoRefused
             \/ Setup!RestoreDone \/ Setup!ElsewhereFails
    BY <2>4 DEF Setup!Reach, Setup!ReachOther, Setup!ReachTimesOut, Setup!SudoRefused,
       Setup!RestoreDone, Setup!ElsewhereFails, Setup!AfterReach, Setup!Goto, Setup!Raise,
       Setup!Done
  <2>5. CASE Setup!ElsewhereSucceeds
    BY <2>5 DEF Setup!ElsewhereSucceeds, Setup!AfterStep, Setup!SessionPcs, Setup!AfterDisable,
       Setup!CreatePcs, Setup!DisablePcs, Setup!EnablePcs
  <2> QED
    BY <1>7, <2>1, <2>2, <2>3, <2>4, <2>5 DEF Setup!Session
<1>8. CASE Setup!StepRaises \/ Setup!Killed
  BY <1>8 DEF Setup!StepRaises, Setup!Killed, Setup!Raise
<1> QED
  BY <1>1, <1>2, <1>3, <1>4, <1>5, <1>6, <1>7, <1>8 DEF Setup!Next, Setup!LocalFiles

\* Every step keeps a private key without its public half from being trusted.
LEMMA SetupOrphanStep == ASSUME Setup!IInv, [Setup!Next]_Setup!vars PROVE Setup!OrphanInv'
<1> USE DEF Setup!IInv, Setup!vars, Setup!boxVars, Setup!fileVars, Setup!runVars
<1>a. /\ target.user \in Users /\ target.path \in Paths /\ cfg.user \in Users
      /\ NewKeyPaths \subseteq Paths
  BY SetupHolds DEF Setup!TypeOK, Setup!Identities, Setup!SetupAssumption
<1>b. \A k \in Setup!Keys : k # Setup!NoLine /\ k # Setup!Truncated /\ k # Setup!NoFile
  BY DEF Setup!Keys, Setup!NoLine, Setup!NoFile, Setup!Truncated
<1>c. ASSUME UNCHANGED <<acct, priv, pub, line>>, setupPc \notin {"idle", "privwrite", "pubtrunc"}
      PROVE  Setup!OrphanInv'
  BY <1>c DEF Setup!OrphanInv
<1>e. ASSUME UNCHANGED <<acct, priv, pub>>, setupPc' = "idle"
      PROVE  Setup!OrphanInv'
  BY <1>e DEF Setup!OrphanInv
<1>f. ASSUME NEW a \in Setup!Accounts
      PROVE  /\ [a EXCEPT !.group = TRUE].key = a.key /\ [a EXCEPT !.owned = TRUE].key = a.key
             /\ [a EXCEPT !.rule = TRUE].key = a.key /\ [a EXCEPT !.shell = TRUE].key = a.key
             /\ [a EXCEPT !.pw = "set"].key = a.key
             /\ [a EXCEPT !.key = line, !.owned = FALSE].key = line
  BY DEF Setup!Accounts
<1>g. acct[target.user] \in Setup!Accounts
  BY <1>a DEF Setup!TypeOK
<1>d. ASSUME NEW u \in Users, NEW a, acct' = [acct EXCEPT ![u] = a],
             UNCHANGED <<priv, pub, line>>, setupPc # "privwrite", setupPc # "pubtrunc", setupPc # "idle",
             a.key = acct[u].key \/ a.key = Setup!NoLine \/ a.key = line
      PROVE  Setup!OrphanInv'
  <2> SUFFICES ASSUME NEW p \in NewKeyPaths, pub[p] = Setup!NoFile, priv[p] \in Setup!Keys \ {1}
               PROVE  /\ \A v \in Users : acct'[v].key # priv[p]
                      /\ \A q \in Paths : pub[q] # priv[p]
                      /\ line # priv[p]
    BY <1>d DEF Setup!OrphanInv
  <2>1. /\ \A v \in Users : acct[v].key # priv[p]
        /\ \A q \in Paths : pub[q] # priv[p]
        /\ line # priv[p] /\ Setup!NoLine # priv[p]
    BY <1>d, <1>b DEF Setup!OrphanInv
  <2>2. \A v \in Users : acct'[v] = IF v = u THEN a ELSE acct[v]
    BY <1>d DEF Setup!TypeOK
  <2> QED
    BY <2>1, <2>2, <1>d
<1>1. CASE Setup!CmdSetup
  <2>1. UNCHANGED <<acct, priv, pub>>
    BY <1>1 DEF Setup!CmdSetup, Setup!Begin
  <2>2. line' = Setup!NoLine \/ \E p \in Paths : line' = pub[p]
    BY <1>1 DEF Setup!CmdSetup
  <2> QED
    BY <2>1, <2>2, <1>a, <1>b DEF Setup!OrphanInv
<1>2. CASE Setup!CmdKeysOnly
  <2>1. UNCHANGED <<acct, priv, pub>>
    BY <1>2 DEF Setup!CmdKeysOnly, Setup!Begin
  <2>2. line' = Setup!NoLine \/ \E p \in Paths : line' = pub[p]
    BY <1>2 DEF Setup!CmdKeysOnly
  <2> QED
    BY <2>1, <2>2, <1>a, <1>b DEF Setup!OrphanInv
<1>3. CASE Setup!CmdRestore
  <2>1. UNCHANGED <<acct, priv, pub>>
    BY <1>3 DEF Setup!CmdRestore, Setup!Begin
  <2>2. line' = Setup!NoLine \/ \E p \in Paths : line' = pub[p]
    BY <1>3 DEF Setup!CmdRestore
  <2> QED
    BY <2>1, <2>2, <1>a, <1>b DEF Setup!OrphanInv
<1>4. CASE Setup!KeypairReused
  <2>1. UNCHANGED <<acct, priv, pub>>
    BY <1>4 DEF Setup!KeypairReused
  <2>2. line' = Setup!NoLine \/ \E p \in Paths : line' = pub[p]
    BY <1>4, <1>a DEF Setup!KeypairReused
  <2> QED
    BY <2>1, <2>2, <1>a, <1>b DEF Setup!OrphanInv
<1>5. CASE Setup!KeypairGenerated
  <2>1. /\ setupPc' = "privwrite" /\ UNCHANGED <<acct, pub>>
        /\ priv' = [priv EXCEPT ![target.path] = Setup!Truncated]
    BY <1>5 DEF Setup!KeypairGenerated, Setup!Goto
  <2>2. \A p \in Paths : priv'[p] \in Setup!Keys => priv'[p] = priv[p]
    BY <2>1, <1>a, <1>b DEF Setup!TypeOK
  <2> QED
    BY <2>1, <2>2, <1>a DEF Setup!OrphanInv
<1>6. CASE Setup!PrivateWritten
  <2>1. /\ setupPc = "privwrite" /\ setupPc' = "pubtrunc" /\ UNCHANGED <<acct, pub>>
        /\ priv' = [priv EXCEPT ![target.path] = line]
    BY <1>6 DEF Setup!PrivateWritten, Setup!Goto
  <2>2. /\ \A p \in Paths : pub[p] # line
        /\ \A u \in Users : acct[u].key # line
    BY <2>1 DEF Setup!FreshInv, Setup!MintedPcs
  <2>3. \A p \in Paths : priv'[p] = IF p = target.path THEN line ELSE priv[p]
    BY <2>1 DEF Setup!TypeOK
  <2> QED
    BY <2>1, <2>2, <2>3, <1>a DEF Setup!OrphanInv
<1>7. CASE Setup!PublicTruncated
  <2>1. /\ setupPc = "pubtrunc" /\ UNCHANGED <<acct, priv, line>>
        /\ pub' = [pub EXCEPT ![target.path] = Setup!Truncated]
    BY <1>7 DEF Setup!PublicTruncated, Setup!Goto
  <2>2. \A p \in Paths : p # target.path => priv[p] # line
    BY <2>1 DEF Setup!FreshInv, Setup!MintedPcs
  <2>3. \A p \in Paths : pub'[p] = IF p = target.path THEN Setup!Truncated ELSE pub[p]
    BY <2>1 DEF Setup!TypeOK
  <2>4. Setup!Truncated # Setup!NoFile
    BY DEF Setup!Truncated, Setup!NoFile
  <2> QED
    BY <2>1, <2>2, <2>3, <2>4, <1>a, <1>b DEF Setup!OrphanInv
<1>8. CASE Setup!PublicWritten
  <2>1. /\ setupPc = "pubwrite" /\ setupPc' = "inventory" /\ UNCHANGED <<acct, priv, line>>
        /\ pub' = [pub EXCEPT ![target.path] = line]
    BY <1>8 DEF Setup!PublicWritten, Setup!Goto
  <2>2. line = minted /\ \A p \in Paths : p # target.path => priv[p] # line
    BY <2>1 DEF Setup!FreshInv, Setup!MintedPcs
  <2>3. \A p \in Paths : pub'[p] = IF p = target.path THEN line ELSE pub[p]
    BY <2>1 DEF Setup!TypeOK
  <2>4. line # Setup!NoFile
    BY <2>2, <1>b DEF Setup!TypeOK
  <2> QED
    BY <2>1, <2>2, <2>3, <2>4, <1>a, <1>b DEF Setup!OrphanInv
<1>9. CASE Setup!InventoryKeyLoaded
  BY <1>9, <1>c DEF Setup!InventoryKeyLoaded, Setup!Goto, Setup!AfterKeys
<1>10. CASE Setup!InventoryKeyInvalid
  BY <1>10, <1>e DEF Setup!InventoryKeyInvalid, Setup!Raise
<1>11. CASE Setup!InventoryKeyTruncated
  BY <1>11, <1>c DEF Setup!InventoryKeyTruncated, Setup!Goto
<1>12. CASE Setup!InventoryKeyWritten
  BY <1>12, <1>c DEF Setup!InventoryKeyWritten, Setup!Goto, Setup!AfterKeys
<1>13. CASE Setup!OverlayTruncated
  BY <1>13, <1>c DEF Setup!OverlayTruncated, Setup!Goto
<1>14. CASE Setup!OverlayWritten
  BY <1>14, <1>e DEF Setup!OverlayWritten, Setup!Done
<1>15. CASE Setup!Reach
  BY <1>15, <1>c DEF Setup!Reach, Setup!AfterReach, Setup!Goto
<1>16. CASE Setup!ReachTimesOut
  BY <1>16, <1>e DEF Setup!ReachTimesOut, Setup!Raise
<1>17. CASE Setup!SudoRefused
  BY <1>17, <1>e DEF Setup!SudoRefused, Setup!Raise
<1>18. CASE Setup!UserAdd
  BY <1>18, <1>a, <1>d, <1>f, <1>g DEF Setup!UserAdd, Setup!Sudo, Setup!OnBox, Setup!Goto,
     Setup!Was, Setup!NoAccount, Setup!NoLine
<1>19. CASE Setup!AddToGroup
  BY <1>19, <1>a, <1>d, <1>f, <1>g DEF Setup!AddToGroup, Setup!Sudo, Setup!OnBox, Setup!Goto,
     Setup!Was
<1>20. CASE Setup!InstallKey
  BY <1>20, <1>a, <1>d, <1>f, <1>g DEF Setup!InstallKey, Setup!Sudo, Setup!OnBox, Setup!Goto,
     Setup!Was
<1>21. CASE Setup!ChownKey
  BY <1>21, <1>a, <1>d, <1>f, <1>g DEF Setup!ChownKey, Setup!Sudo, Setup!OnBox, Setup!Goto,
     Setup!Was
<1>22. CASE Setup!WriteRule
  BY <1>22, <1>a, <1>d, <1>f, <1>g DEF Setup!WriteRule, Setup!Sudo, Setup!OnBox, Setup!Goto,
     Setup!Was
<1>23. CASE Setup!ValidateRule
  BY <1>23, <1>a, <1>d, <1>f, <1>g DEF Setup!ValidateRule, Setup!Sudo, Setup!OnBox, Setup!Goto,
     Setup!Was
<1>24. CASE Setup!RuleRejected
  <2>1. \A u \in Users : acct'[u].key = acct[u].key
    BY <1>24, <1>a DEF Setup!RuleRejected, Setup!TypeOK, Setup!Accounts
  <2> QED
    BY <1>24, <2>1 DEF Setup!RuleRejected, Setup!Raise, Setup!OrphanInv
<1>25. CASE Setup!Verify
  BY <1>25, <1>a, <1>d, <1>f, <1>g DEF Setup!Verify, Setup!OnBox, Setup!Goto, Setup!Was
<1>26. CASE Setup!VerifyFails
  BY <1>26, <1>e DEF Setup!VerifyFails, Setup!Raise
<1>27. CASE Setup!DisableBootstrap
  <2>1. PICK p \in Setup!DisablePcs : Setup!Disable(p) \/ Setup!DisableFails(p)
    BY <1>27 DEF Setup!DisableBootstrap
  <2>2. CASE Setup!Disable(p)
    <3>1. Setup!Disabled(p, acct[cfg.user]).key \in {acct[cfg.user].key, Setup!NoLine}
      BY <1>a DEF Setup!Disabled, Setup!DisablePcs, Setup!Accounts, Setup!TypeOK
    <3> QED
      BY <2>2, <3>1, <1>a, <1>d DEF Setup!Disable, Setup!OnBox, Setup!Goto, Setup!DisablePcs
  <2>3. CASE Setup!DisableFails(p)
    BY <2>3, <1>c, <1>e DEF Setup!DisablePcs, Setup!DisableFails, Setup!Raise
  <2> QED
    BY <2>1, <2>2, <2>3
<1>28. CASE Setup!AccountFound
  BY <1>28, <1>a, <1>d, <1>f, <1>g DEF Setup!AccountFound, Setup!OnBox, Setup!Goto, Setup!Was
<1>29. CASE Setup!AccountMissing
  BY <1>29, <1>e DEF Setup!AccountMissing, Setup!Raise
<1>30. CASE Setup!Unlock
  BY <1>30, <1>a, <1>d, <1>f, <1>g DEF Setup!Unlock, Setup!Sudo, Setup!OnBox, Setup!Goto,
     Setup!Was
<1>31. CASE Setup!UnlockFails
  BY <1>31, <1>a, <1>d, <1>e DEF Setup!UnlockFails, Setup!OnBox, Setup!Goto, Setup!Raise,
     Setup!Was
<1>32. CASE Setup!RestoreShell
  BY <1>32, <1>a, <1>d, <1>f, <1>g DEF Setup!RestoreShell, Setup!Sudo, Setup!OnBox, Setup!Goto,
     Setup!Was
<1>33. CASE Setup!RestoreDone
  BY <1>33, <1>e DEF Setup!RestoreDone, Setup!Done
<1>34. CASE Setup!StepRaises
  BY <1>34, <1>e DEF Setup!StepRaises, Setup!Raise
<1>35. CASE Setup!Killed
  BY <1>35, <1>e DEF Setup!Killed
<1>36. CASE UNCHANGED Setup!vars
  BY <1>36 DEF Setup!OrphanInv
<1>37. CASE Setup!ReachOther
  BY <1>37, <1>c DEF Setup!ReachOther, Setup!AfterReach
<1>38. CASE Setup!ElsewhereSucceeds
  <2>1. setupPc \notin {"idle", "privwrite", "pubtrunc"}
    BY <1>38 DEF Setup!ElsewhereSucceeds, Setup!SessionPcs, Setup!CreatePcs, Setup!DisablePcs,
       Setup!EnablePcs
  <2> QED
    BY <1>38, <2>1, <1>c DEF Setup!ElsewhereSucceeds
<1>39. CASE Setup!ElsewhereFails
  BY <1>39, <1>e DEF Setup!ElsewhereFails, Setup!Raise
<1> QED
  BY <1>1, <1>2, <1>3, <1>4, <1>5, <1>6, <1>7, <1>8, <1>9, <1>10, <1>11, <1>12, <1>13, <1>14,
     <1>15, <1>16, <1>17, <1>18, <1>19, <1>20, <1>21, <1>22, <1>23, <1>24, <1>25, <1>26, <1>27,
     <1>28, <1>29, <1>30, <1>31, <1>32, <1>33, <1>34, <1>35, <1>36, <1>37, <1>38, <1>39
     DEF Setup!Next, Setup!Command,
     Setup!LocalFiles, Setup!Session, Setup!Create, Setup!Restore

\* What the changes that a session makes to an account leave alone, and what they set.
LEMMA SetupFields ==
    ASSUME NEW a \in Setup!Accounts, NEW k
    PROVE  /\ \A b \in {[a EXCEPT !.group = TRUE], [a EXCEPT !.pw = "set"]} :
                /\ b.exists = a.exists /\ b.shell = a.shell /\ b.owned = a.owned
                /\ b.key = a.key /\ b.rule = a.rule
           /\ [a EXCEPT !.key = k, !.owned = FALSE].exists = a.exists
           /\ [a EXCEPT !.key = k, !.owned = FALSE].shell = a.shell
           /\ [a EXCEPT !.key = k, !.owned = FALSE].key = k
           /\ [a EXCEPT !.owned = TRUE].exists = a.exists
           /\ [a EXCEPT !.owned = TRUE].shell = a.shell
           /\ [a EXCEPT !.owned = TRUE].key = a.key
           /\ [a EXCEPT !.owned = TRUE].owned
           /\ [a EXCEPT !.rule = TRUE].exists = a.exists
           /\ [a EXCEPT !.rule = TRUE].shell = a.shell
           /\ [a EXCEPT !.rule = TRUE].key = a.key
           /\ [a EXCEPT !.rule = TRUE].owned = a.owned
           /\ [a EXCEPT !.rule = TRUE].rule
           /\ [a EXCEPT !.shell = TRUE].exists = a.exists
           /\ [a EXCEPT !.shell = TRUE].shell
BY DEF Setup!Accounts

\* What each command of the disabling takes from an account stays taken.
LEMMA SetupDisabled ==
    ASSUME NEW a \in Setup!Accounts, NEW p \in Setup!DisablePcs
    PROVE  /\ p = "nologin" \/ ~a.shell => ~Setup!Disabled(p, a).shell
           /\ p = "rmrule" \/ ~a.rule => ~Setup!Disabled(p, a).rule
<1>1. CASE p = "lock"
  BY <1>1 DEF Setup!Disabled, Setup!Accounts
<1>2. CASE p = "nologin"
  BY <1>2 DEF Setup!Disabled, Setup!Accounts
<1>3. CASE p = "gpasswd"
  BY <1>3 DEF Setup!Disabled, Setup!Accounts
<1>4. CASE p = "rmrule"
  BY <1>4 DEF Setup!Disabled, Setup!Accounts
<1>5. CASE p = "rmkey"
  BY <1>5 DEF Setup!Disabled, Setup!Accounts
<1> QED
  BY <1>1, <1>2, <1>3, <1>4, <1>5 DEF Setup!DisablePcs

\* Every step keeps the identity that the session depends on.
LEMMA SetupSessionStep == ASSUME Setup!IInv, [Setup!Next]_Setup!vars PROVE Setup!SessionInv'
<1> USE DEF Setup!IInv, Setup!vars, Setup!boxVars, Setup!fileVars, Setup!runVars, Setup!CreatePcs,
   Setup!EnablePcs, Setup!DisablePcs
<1>a. /\ target \in Setup!Identities
      /\ cfg \in Setup!Identities
      /\ target.user \in Users
      /\ cfg.user \in Users
  BY DEF Setup!TypeOK, Setup!Identities
<1>b. ASSUME setupPc' \notin Setup!CreatePcs \union Setup!EnablePcs \union Setup!DisablePcs \union
                        {"verify", "poweroff", "overlay", "overlaywrite"}
      PROVE  Setup!SessionInv'
  BY <1>b DEF Setup!SessionInv
<1>c. ASSUME NEW a, acct' = [acct EXCEPT ![target.user] = a],
             UNCHANGED <<priv, password, cfg, target, away>>,
             setupPc \in Setup!CreatePcs \union Setup!EnablePcs,
             setupPc' \in Setup!CreatePcs \union Setup!EnablePcs \union {"verify", "poweroff"},
             Setup!CanRoot(cfg.user) \/ setupPc' # "poweroff"
      PROVE  Setup!SessionInv'
  <2> SUFFICES ASSUME ~away, cfg.user # target.user PROVE Setup!SessionInv'
    BY <1>c DEF Setup!SessionInv
  <2>1. acct'[cfg.user] = acct[cfg.user]
    BY <1>c, <1>a DEF Setup!TypeOK
  <2>2. Setup!CanLogin(cfg.user, priv[cfg.path])
    BY <1>c DEF Setup!SessionInv
  <2> QED
    BY <1>c, <2>1, <2>2 DEF Setup!SessionInv, Setup!CanLogin, Setup!CanRoot
<1>d. ASSUME acct'[target.user] = acct[target.user], UNCHANGED <<priv, password, target>>,
             Setup!Works(target), setupPc' \in Setup!DisablePcs \union {"overlay", "overlaywrite"}
      PROVE  Setup!SessionInv'
  BY <1>d DEF Setup!SessionInv, Setup!Works, Setup!CanLogin, Setup!CanRoot
<1>e. ASSUME away' PROVE Setup!SessionInv'
  BY <1>e DEF Setup!SessionInv
<1>1. CASE Setup!CmdSetup
  BY <1>1, <1>b DEF Setup!CmdSetup, Setup!Begin
<1>2. CASE Setup!CmdKeysOnly
  BY <1>2, <1>b DEF Setup!CmdKeysOnly, Setup!Begin
<1>3. CASE Setup!CmdRestore
  BY <1>3, <1>b DEF Setup!CmdRestore, Setup!Begin
<1>4. CASE Setup!KeypairReused
  BY <1>4, <1>b DEF Setup!KeypairReused, Setup!Goto
<1>5. CASE Setup!KeypairGenerated
  BY <1>5, <1>b DEF Setup!KeypairGenerated, Setup!Goto
<1>6. CASE Setup!PrivateWritten
  BY <1>6, <1>b DEF Setup!PrivateWritten, Setup!Goto
<1>7. CASE Setup!PublicTruncated
  BY <1>7, <1>b DEF Setup!PublicTruncated, Setup!Goto
<1>8. CASE Setup!PublicWritten
  BY <1>8, <1>b DEF Setup!PublicWritten, Setup!Goto
<1>9. CASE Setup!InventoryKeyLoaded
  <2>1. setupPc' = "reach" \/ (setupPc' = "overlay" /\ setupMode' = "keys")
    BY <1>9 DEF Setup!InventoryKeyLoaded, Setup!Goto, Setup!AfterKeys
  <2> QED
    BY <2>1 DEF Setup!SessionInv
<1>10. CASE Setup!InventoryKeyInvalid
  BY <1>10, <1>b DEF Setup!InventoryKeyInvalid, Setup!Raise
<1>11. CASE Setup!InventoryKeyTruncated
  BY <1>11, <1>b DEF Setup!InventoryKeyTruncated, Setup!Goto
<1>12. CASE Setup!InventoryKeyWritten
  <2>1. setupPc' = "reach" \/ (setupPc' = "overlay" /\ setupMode' = "keys")
    BY <1>12 DEF Setup!InventoryKeyWritten, Setup!Goto, Setup!AfterKeys
  <2> QED
    BY <2>1 DEF Setup!SessionInv
<1>13. CASE Setup!OverlayTruncated
  BY <1>13 DEF Setup!OverlayTruncated, Setup!Goto, Setup!SessionInv, Setup!Works, Setup!CanLogin,
     Setup!CanRoot
<1>14. CASE Setup!OverlayWritten
  BY <1>14, <1>b DEF Setup!OverlayWritten, Setup!Done
<1>15. CASE Setup!Reach
  <2>1. /\ UNCHANGED <<acct, priv, cfg>>
        /\ Setup!CanLogin(cfg.user, priv[cfg.path])
        /\ setupPc' \in {"id", "useradd"}
    BY <1>15 DEF Setup!Reach, Setup!AfterReach, Setup!Goto
  <2> QED
    BY <2>1 DEF Setup!SessionInv, Setup!CanLogin
<1>16. CASE Setup!ReachTimesOut
  BY <1>16, <1>b DEF Setup!ReachTimesOut, Setup!Raise
<1>17. CASE Setup!SudoRefused
  BY <1>17, <1>b DEF Setup!SudoRefused, Setup!Raise
<1>18. CASE Setup!UserAdd
  BY <1>18, <1>c DEF Setup!UserAdd, Setup!Sudo, Setup!OnBox, Setup!Goto, Setup!Was
<1>19. CASE Setup!AddToGroup
  BY <1>19, <1>c DEF Setup!AddToGroup, Setup!Sudo, Setup!OnBox, Setup!Goto, Setup!Was
<1>20. CASE Setup!InstallKey
  BY <1>20, <1>c DEF Setup!InstallKey, Setup!Sudo, Setup!OnBox, Setup!Goto, Setup!Was
<1>21. CASE Setup!ChownKey
  BY <1>21, <1>c DEF Setup!ChownKey, Setup!Sudo, Setup!OnBox, Setup!Goto, Setup!Was
<1>22. CASE Setup!WriteRule
  BY <1>22, <1>c DEF Setup!WriteRule, Setup!Sudo, Setup!OnBox, Setup!Goto, Setup!Was
<1>23. CASE Setup!ValidateRule
  BY <1>23, <1>c DEF Setup!ValidateRule, Setup!Sudo, Setup!OnBox, Setup!Goto, Setup!Was
<1>24. CASE Setup!RuleRejected
  BY <1>24, <1>b DEF Setup!RuleRejected, Setup!Raise
<1>25. CASE Setup!Verify
  <2>1. acct'[target.user] = acct[target.user]
    BY <1>25, <1>a DEF Setup!Verify, Setup!OnBox, Setup!Was, Setup!TypeOK
  <2> QED
    BY <1>25, <2>1, <1>d DEF Setup!Verify, Setup!OnBox, Setup!Goto
<1>26. CASE Setup!VerifyFails
  BY <1>26, <1>b DEF Setup!VerifyFails, Setup!Raise
<1>27. CASE Setup!DisableBootstrap
  <2>1. PICK p \in Setup!DisablePcs : Setup!Disable(p) \/ Setup!DisableFails(p)
    BY <1>27 DEF Setup!DisableBootstrap
  <2>2. setupPc = p /\ setupMode = "setup" /\ cfg.user # target.user
    BY <2>1 DEF Setup!Disable, Setup!DisableFails, Setup!OnBox, Setup!Goto, Setup!ModesInv
  <2>3. away \/ Setup!Works(target)
    BY <2>2 DEF Setup!SessionInv
  <2>4. Setup!AfterDisable(p) \in Setup!DisablePcs \union {"overlay"}
    BY DEF Setup!AfterDisable
  <2>5. CASE Setup!Disable(p)
    <3>1. acct'[target.user] = acct[target.user]
      BY <2>5, <2>2, <1>a DEF Setup!Disable, Setup!OnBox, Setup!TypeOK
    <3> QED
      BY <2>5, <2>3, <2>4, <3>1, <1>d, <1>e DEF Setup!Disable, Setup!OnBox, Setup!Goto
  <2>6. CASE Setup!DisableFails(p)
    BY <2>6, <2>3, <2>4, <1>b, <1>d, <1>e DEF Setup!DisableFails, Setup!Raise
  <2> QED
    BY <2>1, <2>5, <2>6
<1>28. CASE Setup!AccountFound
  BY <1>28, <1>c DEF Setup!AccountFound, Setup!OnBox, Setup!Goto, Setup!Was
<1>29. CASE Setup!AccountMissing
  BY <1>29, <1>b DEF Setup!AccountMissing, Setup!Raise
<1>30. CASE Setup!Unlock
  BY <1>30, <1>c DEF Setup!Unlock, Setup!Sudo, Setup!OnBox, Setup!Goto, Setup!Was
<1>31. CASE Setup!UnlockFails
  BY <1>31, <1>b, <1>c DEF Setup!UnlockFails, Setup!OnBox, Setup!Goto, Setup!Raise, Setup!Was
<1>32. CASE Setup!RestoreShell
  BY <1>32, <1>c DEF Setup!RestoreShell, Setup!Sudo, Setup!OnBox, Setup!Goto, Setup!Was
<1>33. CASE Setup!RestoreDone
  BY <1>33, <1>b DEF Setup!RestoreDone, Setup!Done
<1>34. CASE Setup!StepRaises
  BY <1>34, <1>b DEF Setup!StepRaises, Setup!Raise
<1>35. CASE Setup!Killed
  BY <1>35, <1>b DEF Setup!Killed
<1>36. CASE UNCHANGED Setup!vars
  BY <1>36 DEF Setup!SessionInv, Setup!Works, Setup!CanLogin, Setup!CanRoot
<1>37. CASE Setup!ReachOther
  BY <1>37, <1>e DEF Setup!ReachOther
<1>38. CASE away /\ Setup!ElsewhereSucceeds
  BY <1>38, <1>e DEF Setup!ElsewhereSucceeds
<1>39. CASE Setup!ElsewhereFails
  BY <1>39, <1>b DEF Setup!ElsewhereFails, Setup!Raise
<1> QED
  BY <1>1, <1>2, <1>3, <1>4, <1>5, <1>6, <1>7, <1>8, <1>9, <1>10, <1>11, <1>12, <1>13, <1>14,
     <1>15, <1>16, <1>17, <1>18, <1>19, <1>20, <1>21, <1>22, <1>23, <1>24, <1>25, <1>26, <1>27,
     <1>28, <1>29, <1>30, <1>31, <1>32, <1>33, <1>34, <1>35, <1>36, <1>37, <1>38, <1>39
     DEF Setup!Next, Setup!Command,
     Setup!LocalFiles, Setup!Session, Setup!Create, Setup!Restore

\* Every step keeps what the disabling has done.
LEMMA SetupDisabledStep == ASSUME Setup!IInv, [Setup!Next]_Setup!vars PROVE Setup!DisabledInv'
<1> USE DEF Setup!IInv, Setup!vars, Setup!boxVars, Setup!fileVars, Setup!runVars
<1> DEFINE Late == {"gpasswd", "rmrule", "rmkey", "overlay", "overlaywrite"}
<1>a. ASSUME setupPc' \notin Late \/ setupMode' # "setup" PROVE Setup!DisabledInv'
  BY <1>a DEF Setup!DisabledInv
<1>b. ASSUME away' PROVE Setup!DisabledInv'
  BY <1>b DEF Setup!DisabledInv
<1>1. CASE Setup!DisableBootstrap
  <2>1. PICK p \in Setup!DisablePcs : Setup!Disable(p) \/ Setup!DisableFails(p)
    BY <1>1 DEF Setup!DisableBootstrap
  <2>2. /\ setupPc = p /\ setupMode = "setup" /\ UNCHANGED <<setupMode, cfg, away>>
        /\ cfg.user \in Users /\ acct[cfg.user] \in Setup!Accounts
    BY <2>1 DEF Setup!Disable, Setup!DisableFails, Setup!OnBox, Setup!Goto, Setup!Raise,
       Setup!ModesInv, Setup!TypeOK, Setup!Identities
  <2>3. CASE Setup!Disable(p)
    <3>1. /\ setupPc' = Setup!AfterDisable(p) /\ setupFault' = setupFault
          /\ acct' = [acct EXCEPT ![cfg.user] = Setup!Disabled(p, acct[cfg.user])]
      BY <2>3 DEF Setup!Disable, Setup!OnBox, Setup!Goto
    <3>2. acct'[cfg.user] = Setup!Disabled(p, acct[cfg.user])
      BY <3>1, <2>2 DEF Setup!TypeOK
    <3> QED
      BY <2>2, <3>1, <3>2, SetupDisabled DEF Setup!DisabledInv, Setup!AfterDisable,
         Setup!DisablePcs
  <2>4. CASE Setup!DisableFails(p)
    <3>1. CASE setupPc' = "idle"
      BY <3>1, <1>a
    <3>2. CASE setupPc' # "idle"
      <4>1. /\ setupPc' = Setup!AfterDisable(p) /\ acct' = acct
            /\ ~setupFault' => ~setupFault /\ p = "gpasswd"
        BY <2>4, <3>2 DEF Setup!DisableFails, Setup!Raise
      <4> QED
        BY <2>2, <4>1 DEF Setup!DisabledInv, Setup!AfterDisable, Setup!DisablePcs
    <3> QED
      BY <3>1, <3>2
  <2> QED
    BY <2>1, <2>3, <2>4
<1>2. CASE Setup!InventoryKeyLoaded \/ Setup!InventoryKeyWritten
  BY <1>2, <1>a DEF Setup!InventoryKeyLoaded, Setup!InventoryKeyWritten, Setup!Goto,
     Setup!AfterKeys
<1>3. CASE Setup!OverlayTruncated
  BY <1>3 DEF Setup!OverlayTruncated, Setup!Goto, Setup!DisabledInv
<1>4. CASE Setup!OverlayWritten \/ Setup!StepRaises \/ Setup!Killed
  BY <1>4, <1>a DEF Setup!OverlayWritten, Setup!StepRaises, Setup!Killed, Setup!Done, Setup!Raise
<1>5. CASE \/ Setup!KeypairReused \/ Setup!KeypairGenerated \/ Setup!PrivateWritten
           \/ Setup!PublicTruncated
           \/ Setup!PublicWritten \/ Setup!InventoryKeyInvalid \/ Setup!InventoryKeyTruncated
  BY <1>5, <1>a DEF Setup!KeypairReused, Setup!KeypairGenerated, Setup!PrivateWritten,
     Setup!PublicTruncated, Setup!PublicWritten, Setup!InventoryKeyInvalid,
     Setup!InventoryKeyTruncated, Setup!Goto, Setup!Raise
<1>6. CASE Setup!Command
  BY <1>6, <1>a DEF Setup!Command, Setup!CmdSetup, Setup!CmdKeysOnly, Setup!CmdRestore,
     Setup!Begin
<1>7. CASE Setup!Create
  BY <1>7, <1>a DEF Setup!Create, Setup!UserAdd, Setup!AddToGroup, Setup!InstallKey,
     Setup!ChownKey, Setup!WriteRule, Setup!ValidateRule, Setup!RuleRejected, Setup!Verify,
     Setup!VerifyFails, Setup!Sudo, Setup!OnBox, Setup!Goto, Setup!Raise
<1>8. CASE Setup!Restore
  BY <1>8, <1>a DEF Setup!Restore, Setup!AccountFound, Setup!AccountMissing, Setup!Unlock,
     Setup!UnlockFails, Setup!RestoreShell, Setup!Sudo, Setup!OnBox, Setup!Goto, Setup!Raise
<1>9. CASE Setup!Reach \/ Setup!ReachTimesOut \/ Setup!SudoRefused \/ Setup!RestoreDone
  BY <1>9, <1>a DEF Setup!Reach, Setup!AfterReach, Setup!ReachTimesOut, Setup!SudoRefused,
     Setup!RestoreDone, Setup!Goto, Setup!Raise, Setup!Done
<1>11. CASE Setup!ReachOther \/ (away /\ (Setup!ElsewhereSucceeds \/ Setup!ElsewhereFails))
  BY <1>11, <1>b DEF Setup!ReachOther, Setup!ElsewhereSucceeds, Setup!ElsewhereFails, Setup!Raise
<1>10. CASE UNCHANGED Setup!vars
  BY <1>10 DEF Setup!DisabledInv
<1> QED
  BY <1>1, <1>2, <1>3, <1>4, <1>5, <1>6, <1>7, <1>8, <1>9, <1>10, <1>11 DEF Setup!Next, Setup!LocalFiles,
     Setup!Session

\* Every step keeps what restore-bootstrap has done.
LEMMA SetupRestoredStep == ASSUME Setup!IInv, [Setup!Next]_Setup!vars PROVE Setup!RestoredInv'
<1> USE DEF Setup!IInv, Setup!vars, Setup!boxVars, Setup!fileVars, Setup!runVars
<1> DEFINE Restoring == {"unlock", "shell", "group", "key", "chown", "rule", "visudo", "poweroff"}
<1>a. ASSUME setupPc' \notin Restoring \/ setupMode' # "restore" PROVE Setup!RestoredInv'
  BY <1>a DEF Setup!RestoredInv
<1>d. ASSUME away' PROVE Setup!RestoredInv'
  BY <1>d DEF Setup!RestoredInv
<1>b. target.user \in Users /\ acct[target.user] \in Setup!Accounts
  BY DEF Setup!TypeOK, Setup!Identities
<1>c. ASSUME NEW a, acct' = [acct EXCEPT ![target.user] = a] PROVE acct'[target.user] = a
  BY <1>b, <1>c DEF Setup!TypeOK
<1>1. CASE Setup!AccountFound
  <2>1. acct'[target.user] = acct[target.user]
    BY <1>1, <1>c DEF Setup!AccountFound, Setup!OnBox, Setup!Was
  <2> QED
    BY <1>1, <2>1 DEF Setup!AccountFound, Setup!OnBox, Setup!Goto, Setup!Was, Setup!RestoredInv
<1>2. CASE Setup!Unlock
  <2>1. acct'[target.user] = [acct[target.user] EXCEPT !.pw = "set"]
    BY <1>2, <1>c DEF Setup!Unlock, Setup!Sudo, Setup!OnBox, Setup!Was
  <2>2. acct'[target.user].exists = acct[target.user].exists
    BY <2>1, <1>b DEF Setup!Accounts
  <2>3. setupPc = "unlock" /\ setupPc' = "shell" /\ UNCHANGED <<setupMode, target, away, line>>
    BY <1>2 DEF Setup!Unlock, Setup!Sudo, Setup!OnBox, Setup!Goto
  <2> QED
    BY <2>2, <2>3 DEF Setup!RestoredInv
<1>3. CASE Setup!RestoreShell
  <2>1. acct'[target.user] = [acct[target.user] EXCEPT !.shell = TRUE]
    BY <1>3, <1>c DEF Setup!RestoreShell, Setup!Sudo, Setup!OnBox, Setup!Was
  <2>2. acct'[target.user].exists = acct[target.user].exists /\ acct'[target.user].shell
    BY <2>1, <1>b DEF Setup!Accounts
  <2>3. setupPc = "shell" /\ setupPc' = "group" /\ UNCHANGED <<setupMode, target, away, line>>
    BY <1>3 DEF Setup!RestoreShell, Setup!Sudo, Setup!OnBox, Setup!Goto
  <2> QED
    BY <2>2, <2>3 DEF Setup!RestoredInv
<1>4. CASE Setup!AddToGroup
  <2>1. acct'[target.user] = [acct[target.user] EXCEPT !.group = TRUE]
    BY <1>4, <1>c DEF Setup!AddToGroup, Setup!Sudo, Setup!OnBox, Setup!Was
  <2>2. /\ acct'[target.user].exists = acct[target.user].exists
        /\ acct'[target.user].shell = acct[target.user].shell
    BY <2>1, <1>b DEF Setup!Accounts
  <2>3. setupPc = "group" /\ setupPc' = "key" /\ UNCHANGED <<setupMode, target, away, line>>
    BY <1>4 DEF Setup!AddToGroup, Setup!Sudo, Setup!OnBox, Setup!Goto
  <2> QED
    BY <2>2, <2>3 DEF Setup!RestoredInv
<1>5. CASE Setup!InstallKey
  <2>1. acct'[target.user] = [acct[target.user] EXCEPT !.key = line, !.owned = FALSE]
    BY <1>5, <1>c DEF Setup!InstallKey, Setup!Sudo, Setup!OnBox, Setup!Was
  <2>2. /\ acct'[target.user].exists = acct[target.user].exists
        /\ acct'[target.user].shell = acct[target.user].shell
        /\ acct'[target.user].key = line
    BY <2>1, <1>b DEF Setup!Accounts
  <2>3. setupPc = "key" /\ setupPc' = "chown" /\ UNCHANGED <<setupMode, target, away, line>>
    BY <1>5 DEF Setup!InstallKey, Setup!Sudo, Setup!OnBox, Setup!Goto
  <2> QED
    BY <2>2, <2>3 DEF Setup!RestoredInv
<1>6. CASE Setup!ChownKey
  <2>1. acct'[target.user] = [acct[target.user] EXCEPT !.owned = TRUE]
    BY <1>6, <1>c DEF Setup!ChownKey, Setup!Sudo, Setup!OnBox, Setup!Was
  <2>2. /\ acct'[target.user].exists = acct[target.user].exists
        /\ acct'[target.user].shell = acct[target.user].shell
        /\ acct'[target.user].key = acct[target.user].key
        /\ acct'[target.user].owned
    BY <2>1, <1>b DEF Setup!Accounts
  <2>3. setupPc = "chown" /\ setupPc' = "rule" /\ UNCHANGED <<setupMode, target, away, line>>
    BY <1>6 DEF Setup!ChownKey, Setup!Sudo, Setup!OnBox, Setup!Goto
  <2> QED
    BY <2>2, <2>3 DEF Setup!RestoredInv
<1>7. CASE Setup!WriteRule
  <2>1. acct'[target.user] = [acct[target.user] EXCEPT !.rule = TRUE]
    BY <1>7, <1>c DEF Setup!WriteRule, Setup!Sudo, Setup!OnBox, Setup!Was
  <2>2. /\ acct'[target.user].exists = acct[target.user].exists
        /\ acct'[target.user].shell = acct[target.user].shell
        /\ acct'[target.user].key = acct[target.user].key
        /\ acct'[target.user].owned = acct[target.user].owned
        /\ acct'[target.user].rule
    BY <2>1, <1>b DEF Setup!Accounts
  <2>3. setupPc = "rule" /\ setupPc' = "visudo" /\ UNCHANGED <<setupMode, target, away, line>>
    BY <1>7 DEF Setup!WriteRule, Setup!Sudo, Setup!OnBox, Setup!Goto
  <2> QED
    BY <2>2, <2>3 DEF Setup!RestoredInv
<1>8. CASE Setup!ValidateRule
  <2>1. acct'[target.user] = acct[target.user]
    BY <1>8, <1>c DEF Setup!ValidateRule, Setup!Sudo, Setup!OnBox, Setup!Was
  <2>2. /\ acct'[target.user].exists = acct[target.user].exists
        /\ acct'[target.user].shell = acct[target.user].shell
        /\ acct'[target.user].key = acct[target.user].key
        /\ acct'[target.user].owned = acct[target.user].owned
        /\ acct'[target.user].rule = acct[target.user].rule
    BY <2>1
  <2>3. /\ setupPc = "visudo"
        /\ (setupMode = "restore" => setupPc' = "poweroff")
        /\ UNCHANGED <<setupMode, target, away, line>>
    BY <1>8 DEF Setup!ValidateRule, Setup!Sudo, Setup!OnBox, Setup!Goto
  <2> QED
    BY <2>2, <2>3 DEF Setup!RestoredInv
<1>9. CASE Setup!UnlockFails
  <2>1. CASE password
    <3>1. acct'[target.user] = acct[target.user]
      BY <1>9, <2>1, <1>c DEF Setup!UnlockFails, Setup!OnBox, Setup!Was
    <3> QED
      BY <1>9, <2>1, <3>1 DEF Setup!UnlockFails, Setup!OnBox, Setup!Goto, Setup!RestoredInv
  <2>2. CASE ~password
    BY <1>9, <2>2, <1>a DEF Setup!UnlockFails, Setup!Raise
  <2> QED
    BY <2>1, <2>2
<1>10. CASE Setup!UserAdd \/ Setup!RuleRejected \/ Setup!Verify \/ Setup!VerifyFails
  BY <1>10, <1>a DEF Setup!UserAdd, Setup!RuleRejected, Setup!Verify, Setup!VerifyFails,
     Setup!Sudo, Setup!OnBox, Setup!Goto, Setup!Raise, Setup!ModesInv
<1>11. CASE Setup!AccountMissing \/ Setup!RestoreDone \/ Setup!StepRaises \/ Setup!Killed
  BY <1>11, <1>a DEF Setup!AccountMissing, Setup!RestoreDone, Setup!StepRaises, Setup!Killed,
     Setup!Done, Setup!Raise
<1>12. CASE Setup!LocalFiles
  BY <1>12, <1>a DEF Setup!LocalFiles, Setup!KeypairReused, Setup!KeypairGenerated,
     Setup!PrivateWritten, Setup!PublicTruncated, Setup!PublicWritten, Setup!InventoryKeyLoaded,
     Setup!InventoryKeyInvalid, Setup!InventoryKeyTruncated, Setup!InventoryKeyWritten,
     Setup!OverlayTruncated, Setup!OverlayWritten, Setup!Goto, Setup!Raise, Setup!Done,
     Setup!AfterKeys
<1>13. CASE Setup!Command
  BY <1>13, <1>a DEF Setup!Command, Setup!CmdSetup, Setup!CmdKeysOnly, Setup!CmdRestore,
     Setup!Begin
<1>14. CASE Setup!DisableBootstrap
  BY <1>14, <1>a DEF Setup!DisableBootstrap, Setup!DisablePcs, Setup!Disable, Setup!DisableFails,
     Setup!AfterDisable, Setup!OnBox, Setup!Goto, Setup!Raise
<1>17. CASE Setup!ReachOther \/ (away /\ (Setup!ElsewhereSucceeds \/ Setup!ElsewhereFails))
  BY <1>17, <1>d DEF Setup!ReachOther, Setup!ElsewhereSucceeds, Setup!ElsewhereFails, Setup!Raise
<1>15. CASE Setup!Reach \/ Setup!ReachTimesOut \/ Setup!SudoRefused
  BY <1>15, <1>a DEF Setup!Reach, Setup!AfterReach, Setup!ReachTimesOut, Setup!SudoRefused, Setup!Goto, Setup!Raise
<1>16. CASE UNCHANGED Setup!vars
  BY <1>16 DEF Setup!RestoredInv
<1> QED
  BY <1>1, <1>2, <1>3, <1>4, <1>5, <1>6, <1>7, <1>8, <1>9, <1>10, <1>11, <1>12, <1>13, <1>14,
     <1>15, <1>16, <1>17 DEF Setup!Next, Setup!Session, Setup!Create, Setup!Restore

\* Every step but the last of a command leaves nothing to deliver; the last ones deliver.
LEMMA SetupDeliversStep ==
    ASSUME Setup!IInv, [Setup!Next]_Setup!vars
    PROVE  Setup!SetupDelivers' /\ Setup!RestoreDelivers'
<1> USE DEF Setup!IInv, Setup!vars, Setup!boxVars, Setup!fileVars, Setup!runVars
<1>a. ASSUME setupPc' # "idle" \/ setupResult' # "ok"
      PROVE  Setup!SetupDelivers' /\ Setup!RestoreDelivers'
  BY <1>a DEF Setup!SetupDelivers, Setup!RestoreDelivers
<1>1. CASE Setup!OverlayWritten
  <2>1. /\ setupPc = "overlaywrite" /\ identity' = target
        /\ UNCHANGED <<acct, priv, password, setupMode, cfg, target, away, setupFault>>
    BY <1>1 DEF Setup!OverlayWritten, Setup!Done
  <2>2. setupMode # "restore"
    BY <2>1 DEF Setup!ModesInv, Setup!FilePcs
  <2>3. setupMode = "setup" /\ ~away =>
          /\ Setup!Works(target)
          /\ ~setupFault => ~acct[cfg.user].shell /\ ~acct[cfg.user].rule
    BY <2>1 DEF Setup!ModesInv, Setup!SessionInv, Setup!DisabledInv
  <2> QED
    BY <2>1, <2>2, <2>3 DEF Setup!SetupDelivers, Setup!RestoreDelivers, Setup!Works,
       Setup!CanLogin, Setup!CanRoot
<1>2. CASE Setup!RestoreDone
  <2>1. /\ setupPc = "poweroff"
        /\ UNCHANGED <<acct, priv, password, setupMode, cfg, target, away, line>>
    BY <1>2 DEF Setup!RestoreDone, Setup!Done
  <2>2. setupMode = "restore"
    BY <2>1 DEF Setup!ModesInv
  <2>4. ~away =>
        /\ acct[target.user].exists /\ acct[target.user].shell /\ acct[target.user].owned
        /\ acct[target.user].key = line /\ acct[target.user].rule
    BY <2>1, <2>2 DEF Setup!RestoredInv
  <2>5. ~away /\ cfg.user # target.user =>
          Setup!CanLogin(cfg.user, priv[cfg.path]) /\ Setup!CanRoot(cfg.user)
    BY <2>1 DEF Setup!SessionInv
  <2>3. line # Setup!NoLine => line \in Setup!Keys
    BY DEF Setup!TypeOK
  <2> QED
    BY <2>1, <2>2, <2>3, <2>4, <2>5 DEF Setup!SetupDelivers, Setup!RestoreDelivers, Setup!Works,
       Setup!CanLogin, Setup!CanRoot
<1>3. CASE UNCHANGED Setup!vars
  BY <1>3 DEF Setup!SetupDelivers, Setup!RestoreDelivers, Setup!Works, Setup!CanLogin,
     Setup!CanRoot
<1>4. CASE Setup!Command
  BY <1>4, <1>a DEF Setup!Command, Setup!CmdSetup, Setup!CmdKeysOnly, Setup!CmdRestore,
     Setup!Begin
<1>5. CASE \/ Setup!InventoryKeyInvalid \/ Setup!ReachTimesOut \/ Setup!SudoRefused
           \/ Setup!StepRaises \/ Setup!Killed \/ Setup!ElsewhereFails
  BY <1>5, <1>a DEF Setup!InventoryKeyInvalid, Setup!ReachTimesOut, Setup!SudoRefused,
     Setup!StepRaises, Setup!Killed, Setup!ElsewhereFails, Setup!Raise
<1>6. CASE \/ Setup!KeypairReused \/ Setup!KeypairGenerated \/ Setup!PrivateWritten
           \/ Setup!PublicTruncated
           \/ Setup!PublicWritten \/ Setup!InventoryKeyLoaded \/ Setup!InventoryKeyTruncated
           \/ Setup!InventoryKeyWritten \/ Setup!OverlayTruncated \/ Setup!Reach
  BY <1>6, <1>a DEF Setup!KeypairReused, Setup!KeypairGenerated, Setup!PrivateWritten,
     Setup!PublicTruncated, Setup!PublicWritten, Setup!InventoryKeyLoaded,
     Setup!InventoryKeyTruncated, Setup!InventoryKeyWritten, Setup!OverlayTruncated, Setup!Reach,
     Setup!AfterReach, Setup!Goto, Setup!AfterKeys
<1>7. CASE Setup!Create
  BY <1>7, <1>a DEF Setup!Create, Setup!UserAdd, Setup!AddToGroup, Setup!InstallKey,
     Setup!ChownKey, Setup!WriteRule, Setup!ValidateRule, Setup!RuleRejected, Setup!Verify,
     Setup!VerifyFails, Setup!Sudo, Setup!OnBox, Setup!Goto, Setup!Raise
<1>8. CASE Setup!DisableBootstrap
  BY <1>8, <1>a DEF Setup!DisableBootstrap, Setup!DisablePcs, Setup!Disable, Setup!DisableFails,
     Setup!AfterDisable, Setup!OnBox, Setup!Goto, Setup!Raise
<1>9. CASE \/ Setup!AccountFound \/ Setup!AccountMissing \/ Setup!Unlock \/ Setup!UnlockFails
           \/ Setup!RestoreShell
  BY <1>9, <1>a DEF Setup!AccountFound, Setup!AccountMissing, Setup!Unlock, Setup!UnlockFails,
     Setup!RestoreShell, Setup!Sudo, Setup!OnBox, Setup!Goto, Setup!Raise
<1>10. CASE Setup!ReachOther \/ Setup!ElsewhereSucceeds
  <2>1. setupPc' # "idle"
    BY <1>10 DEF Setup!ReachOther, Setup!AfterReach, Setup!ElsewhereSucceeds, Setup!AfterStep,
       Setup!SessionPcs, Setup!AfterDisable, Setup!CreatePcs, Setup!DisablePcs, Setup!EnablePcs
  <2> QED
    BY <2>1, <1>a
<1> QED
  BY <1>1, <1>2, <1>3, <1>4, <1>5, <1>6, <1>7, <1>8, <1>9, <1>10 DEF Setup!Next, Setup!LocalFiles,
     Setup!Session, Setup!Restore

\* The initial states satisfy the invariant.
LEMMA SetupInitInv == Setup!Init => Setup!IInv
<1> SUFFICES ASSUME Setup!Init PROVE Setup!IInv
  OBVIOUS
<1>1. /\ MaxKeys \in Nat \ {0} /\ SetupMax \in Nat /\ 1 \in Setup!Keys /\ 0 \in 0..SetupMax
      /\ Boot \in Users /\ BootPath \in Paths /\ NewKeyPaths \subseteq Paths
  BY SetupHolds DEF Setup!SetupAssumption, Setup!Keys
<1>2. \E g, r, o \in BOOLEAN :
        acct = [u \in Users |-> IF u = Boot THEN Setup!Stock(g, r, o) ELSE Setup!NoAccount]
  BY DEF Setup!Init
<1>3. PICK g \in BOOLEAN, r \in BOOLEAN, o \in BOOLEAN :
        acct = [u \in Users |-> IF u = Boot THEN Setup!Stock(g, r, o) ELSE Setup!NoAccount]
  BY <1>2
<1>4. PICK c \in {Setup!NoFile, 1} : pub = [p \in Paths |-> IF p = BootPath THEN c ELSE Setup!NoFile]
  BY DEF Setup!Init
<1>5. /\ priv = [p \in Paths |-> IF p = BootPath THEN 1 ELSE Setup!NoFile]
      /\ minted = 1 /\ setupPc = "idle" /\ line = Setup!NoLine /\ setupResult = "none"
  BY DEF Setup!Init
<1>6. Setup!NoAccount \in Setup!Accounts /\ Setup!Stock(g, r, o) \in Setup!Accounts
  BY <1>1 DEF Setup!NoAccount, Setup!Stock, Setup!Accounts
<1>7. Setup!TypeOK
  <2>1. acct \in [Users -> Setup!Accounts]
    BY <1>3, <1>6
  <2>2. priv \in [Paths -> Setup!Contents] /\ pub \in [Paths -> Setup!Contents]
    BY <1>1, <1>4, <1>5 DEF Setup!Contents
  <2>3. cfg \in Setup!Identities /\ target \in Setup!Identities
    BY <1>1 DEF Setup!Init, Setup!Identities
  <2>4. /\ power \in {"off", "running"} /\ invKey \in {"none", "truncated", "whole"}
        /\ identity \in Setup!Identities \union {Setup!NoIdentity} /\ minted \in Setup!Keys
        /\ setupPc \in Setup!Pcs /\ setupMode \in {"setup", "keys", "restore"}
        /\ setupResult \in {"none", "ok", "fail", "killed"} /\ setupRuns \in 0..SetupMax
        /\ line \in {Setup!NoLine} \union Setup!Keys
    BY <1>1 DEF Setup!Init, Setup!Pcs
  <2>5. password \in BOOLEAN /\ setupFault \in BOOLEAN /\ away \in BOOLEAN
    BY DEF Setup!Init
  <2> QED
    BY <2>1, <2>2, <2>3, <2>4, <2>5 DEF Setup!TypeOK
<1>8. \A u \in Users : acct[u].key = IF u = Boot THEN 1 ELSE Setup!NoLine
  BY <1>3 DEF Setup!NoAccount, Setup!Stock
<1>9. Setup!MintedInv
  BY <1>4, <1>5, <1>8 DEF Setup!MintedInv, Setup!NoFile, Setup!NoLine
<1>10. Setup!OrphanInv
  BY <1>1, <1>4, <1>5 DEF Setup!OrphanInv, Setup!NoFile, Setup!Keys
<1> QED
  BY <1>5, <1>7, <1>9, <1>10 DEF Setup!IInv, Setup!ModesInv, Setup!FreshInv,
     Setup!SessionInv, Setup!DisabledInv, Setup!RestoredInv, Setup!SetupDelivers,
     Setup!RestoreDelivers, Setup!FilePcs, Setup!KeypairPcs, Setup!MintedPcs, Setup!CreatePcs,
     Setup!DisablePcs, Setup!EnablePcs

\* The invariant of setup and restore-bootstrap, whatever raises and wherever they are killed.
THEOREM SetupInductive == Setup!Spec => []Setup!IInv
<1>1. Setup!IInv /\ [Setup!Next]_Setup!vars => Setup!IInv'
  BY SetupTypeStep, SetupModesStep, SetupMintedStep, SetupFreshStep, SetupOrphanStep,
     SetupSessionStep, SetupDisabledStep, SetupRestoredStep, SetupDeliversStep
     DEF Setup!IInv
<1> QED
  BY SetupInitInv, <1>1, PTL DEF Setup!Spec

\* Setup keeps its types.
THEOREM SetupTypeCorrect == Setup!Spec => []Setup!TypeOK
<1>1. Setup!IInv => Setup!TypeOK
  BY DEF Setup!IInv
<1> QED
  BY SetupInductive, <1>1, PTL

\* The changes that only give access leave an account no worse than it was.
LEMMA SetupNoWorse ==
    ASSUME NEW a \in Setup!Accounts
    PROVE  /\ Setup!NoWorse(a, a)
           /\ Setup!NoWorse(a, [a EXCEPT !.group = TRUE])
           /\ Setup!NoWorse(a, [a EXCEPT !.owned = TRUE])
           /\ Setup!NoWorse(a, [a EXCEPT !.rule = TRUE])
           /\ Setup!NoWorse(a, [a EXCEPT !.pw = "set"])
           /\ Setup!NoWorse(a, [a EXCEPT !.shell = TRUE])
BY DEF Setup!Accounts, Setup!NoWorse

\* Every step leaves some way in: the one the session came by while the new account is changed,
\* the new one while the old is disabled, one by another key while a key is written.  The two
\* steps left out are those that nothing verifies.
LEMMA SetupLockedStep ==
    ASSUME Setup!IInv, [Setup!Next]_Setup!vars, Setup!SomeIdentityWorks, ~Setup!OverStockKey,
           ~Setup!OnOwnAccount
    PROVE  Setup!SomeIdentityWorks'
<1> USE DEF Setup!IInv, Setup!vars, Setup!boxVars, Setup!fileVars, Setup!runVars
<1>a. /\ target \in Setup!Identities
      /\ cfg \in Setup!Identities
      /\ target.user \in Users
      /\ cfg.user \in Users
  BY DEF Setup!TypeOK, Setup!Identities
<1>b. ASSUME UNCHANGED <<acct, priv, password>> PROVE Setup!SomeIdentityWorks'
  BY <1>b DEF Setup!SomeIdentityWorks, Setup!Works, Setup!CanLogin, Setup!CanRoot
<1>c. ASSUME NEW id \in Setup!Identities, Setup!Works(id), acct'[id.user] = acct[id.user],
             UNCHANGED <<priv, password>>
      PROVE  Setup!SomeIdentityWorks'
  BY <1>c DEF Setup!SomeIdentityWorks, Setup!Works, Setup!CanLogin, Setup!CanRoot
<1>d. ASSUME acct'[cfg.user] = acct[cfg.user], UNCHANGED <<priv, password>>, ~away,
             cfg.user # target.user, Setup!CanRoot(cfg.user),
             setupPc \in Setup!CreatePcs \union Setup!EnablePcs
      PROVE  Setup!SomeIdentityWorks'
  <2>1. Setup!CanLogin(cfg.user, priv[cfg.path])
    BY <1>d DEF Setup!SessionInv
  <2> QED
    BY <1>a, <1>c, <1>d, <2>1 DEF Setup!Works
<1>f. ASSUME NEW a, acct' = [acct EXCEPT ![target.user] = a], UNCHANGED <<priv, password>>,
             Setup!NoWorse(acct[target.user], a)
      PROVE  Setup!SomeIdentityWorks'
  <2>1. PICK id \in Setup!Identities : Setup!Works(id)
    BY DEF Setup!SomeIdentityWorks
  <2>2. id.user \in Users /\ acct'[id.user] = IF id.user = target.user THEN a ELSE acct[id.user]
    BY <1>f DEF Setup!Identities, Setup!TypeOK
  <2> QED
    BY <2>1, <2>2, <1>f DEF Setup!SomeIdentityWorks, Setup!Works, Setup!CanLogin, Setup!CanRoot,
       Setup!NoWorse
<1>g. acct[target.user] \in Setup!Accounts
  BY <1>a DEF Setup!TypeOK
<1>e. ASSUME NEW k, priv' = [priv EXCEPT ![target.path] = k], UNCHANGED <<acct, password>>,
             \/ priv[target.path] \notin Setup!Keys
             \/ \A u \in Users : acct[u].key # priv[target.path]
      PROVE  Setup!SomeIdentityWorks'
  <2>1. PICK id \in Setup!Identities : Setup!Works(id)
    BY DEF Setup!SomeIdentityWorks
  <2>2. id.user \in Users /\ id.path \in Paths
    BY DEF Setup!Identities
  <2>3. id.path # target.path
    BY <2>1, <2>2, <1>e DEF Setup!Works, Setup!CanLogin
  <2>4. priv'[id.path] = priv[id.path]
    BY <2>2, <2>3, <1>e DEF Setup!TypeOK
  <2> QED
    BY <2>1, <2>4, <1>e DEF Setup!SomeIdentityWorks, Setup!Works, Setup!CanLogin, Setup!CanRoot
<1>1. CASE Setup!CmdSetup
  BY <1>1, <1>b DEF Setup!CmdSetup, Setup!Begin
<1>2. CASE Setup!CmdKeysOnly
  BY <1>2, <1>b DEF Setup!CmdKeysOnly, Setup!Begin
<1>3. CASE Setup!CmdRestore
  BY <1>3, <1>b DEF Setup!CmdRestore, Setup!Begin
<1>4. CASE Setup!KeypairReused
  BY <1>4, <1>b DEF Setup!KeypairReused, Setup!Goto
<1>5. CASE Setup!KeypairGenerated
  <2>1. target.path \in NewKeyPaths /\ target.path \in Paths
    BY <1>5 DEF Setup!KeypairGenerated, Setup!Goto, Setup!ModesInv, Setup!KeypairPcs,
       Setup!TypeOK, Setup!Identities
  <2>2. priv[target.path] \notin Setup!Keys \/ \A u \in Users : acct[u].key # priv[target.path]
    <3>1. CASE priv[target.path] = Setup!NoFile
      BY <3>1 DEF Setup!NoFile, Setup!Keys
    <3>2. CASE pub[target.path] = Setup!NoFile
      <4>1. priv[target.path] # 1
        BY <1>5, <3>2 DEF Setup!KeypairGenerated, Setup!Goto, Setup!OverStockKey
      <4> QED
        BY <3>2, <4>1, <2>1 DEF Setup!OrphanInv
    <3> QED
      BY <1>5, <3>1, <3>2 DEF Setup!KeypairGenerated
  <2> QED
    BY <1>5, <2>2, <1>e DEF Setup!KeypairGenerated, Setup!Goto
<1>6. CASE Setup!PrivateWritten
  <2>1. priv[target.path] \notin Setup!Keys
    BY <1>6 DEF Setup!PrivateWritten, Setup!Goto, Setup!FreshInv, Setup!Truncated, Setup!Keys
  <2> QED
    BY <1>6, <2>1, <1>e DEF Setup!PrivateWritten, Setup!Goto
<1>7. CASE Setup!PublicTruncated
  BY <1>7, <1>b DEF Setup!PublicTruncated, Setup!Goto
<1>8. CASE Setup!PublicWritten
  BY <1>8, <1>b DEF Setup!PublicWritten, Setup!Goto
<1>9. CASE Setup!InventoryKeyLoaded
  BY <1>9, <1>b DEF Setup!InventoryKeyLoaded, Setup!Goto, Setup!AfterKeys
<1>10. CASE Setup!InventoryKeyInvalid
  BY <1>10, <1>b DEF Setup!InventoryKeyInvalid, Setup!Raise
<1>11. CASE Setup!InventoryKeyTruncated
  BY <1>11, <1>b DEF Setup!InventoryKeyTruncated, Setup!Goto
<1>12. CASE Setup!InventoryKeyWritten
  BY <1>12, <1>b DEF Setup!InventoryKeyWritten, Setup!Goto, Setup!AfterKeys
<1>13. CASE Setup!OverlayTruncated
  BY <1>13, <1>b DEF Setup!OverlayTruncated, Setup!Goto
<1>14. CASE Setup!OverlayWritten
  BY <1>14, <1>b DEF Setup!OverlayWritten, Setup!Done
<1>15. CASE Setup!Reach
  BY <1>15, <1>b DEF Setup!Reach, Setup!Goto
<1>16. CASE Setup!ReachTimesOut
  BY <1>16, <1>b DEF Setup!ReachTimesOut, Setup!Raise
<1>17. CASE Setup!SudoRefused
  BY <1>17, <1>b DEF Setup!SudoRefused, Setup!Raise
<1>18. CASE ~away /\ Setup!UserAdd
  <2>1. cfg.user # target.user /\ setupPc \in Setup!CreatePcs /\ Setup!CanRoot(cfg.user)
    BY <1>18 DEF Setup!UserAdd, Setup!Sudo, Setup!OnBox, Setup!Goto, Setup!ModesInv,
       Setup!CreatePcs
  <2>2. acct'[cfg.user] = acct[cfg.user]
    BY <1>18, <2>1, <1>a DEF Setup!UserAdd, Setup!Sudo, Setup!OnBox, Setup!TypeOK
  <2> QED
    BY <1>18, <2>1, <2>2, <1>d DEF Setup!UserAdd, Setup!Sudo, Setup!OnBox, Setup!Goto
<1>19. CASE Setup!AddToGroup
  BY <1>19, <1>f, <1>g, SetupNoWorse DEF Setup!AddToGroup, Setup!Sudo, Setup!OnBox, Setup!Goto, Setup!Was
<1>20. CASE ~away /\ Setup!InstallKey
  <2>1. setupPc = "key" /\ Setup!CanRoot(cfg.user)
    BY <1>20 DEF Setup!InstallKey, Setup!Sudo, Setup!OnBox, Setup!Goto
  <2>2. cfg.user # target.user
    BY <1>20, <2>1 DEF Setup!ModesInv, Setup!OnOwnAccount, Setup!CreatePcs
  <2>3. acct'[cfg.user] = acct[cfg.user]
    BY <1>20, <2>2, <1>a DEF Setup!InstallKey, Setup!Sudo, Setup!OnBox, Setup!TypeOK
  <2> QED
    BY <1>20, <2>1, <2>2, <2>3, <1>d DEF Setup!InstallKey, Setup!Sudo, Setup!OnBox, Setup!Goto,
       Setup!CreatePcs
<1>21. CASE Setup!ChownKey
  BY <1>21, <1>f, <1>g, SetupNoWorse DEF Setup!ChownKey, Setup!Sudo, Setup!OnBox, Setup!Goto, Setup!Was
<1>22. CASE Setup!WriteRule
  BY <1>22, <1>f, <1>g, SetupNoWorse DEF Setup!WriteRule, Setup!Sudo, Setup!OnBox, Setup!Goto, Setup!Was
<1>23. CASE Setup!ValidateRule
  BY <1>23, <1>f, <1>g, SetupNoWorse DEF Setup!ValidateRule, Setup!Sudo, Setup!OnBox, Setup!Goto, Setup!Was
<1>24. CASE ~away /\ Setup!RuleRejected
  <2>1. cfg.user # target.user /\ setupPc \in Setup!CreatePcs /\ Setup!CanRoot(cfg.user)
    BY <1>24 DEF Setup!RuleRejected, Setup!ModesInv, Setup!OnOwnAccount, Setup!CreatePcs
  <2>2. acct'[cfg.user] = acct[cfg.user]
    BY <1>24, <2>1, <1>a DEF Setup!RuleRejected, Setup!TypeOK
  <2> QED
    BY <1>24, <2>1, <2>2, <1>d DEF Setup!RuleRejected, Setup!Raise
<1>25. CASE Setup!Verify
  BY <1>25, <1>f, <1>g, SetupNoWorse DEF Setup!Verify, Setup!OnBox, Setup!Goto, Setup!Was
<1>26. CASE Setup!VerifyFails
  BY <1>26, <1>b DEF Setup!VerifyFails, Setup!Raise
<1>27. CASE ~away /\ Setup!DisableBootstrap
  <2>1. PICK p \in Setup!DisablePcs : Setup!Disable(p) \/ Setup!DisableFails(p)
    BY <1>27 DEF Setup!DisableBootstrap
  <2>2. CASE Setup!Disable(p)
    <3>1. cfg.user # target.user /\ Setup!Works(target)
      BY <1>27, <2>2 DEF Setup!Disable, Setup!OnBox, Setup!Goto, Setup!ModesInv, Setup!SessionInv,
         Setup!DisablePcs
    <3>2. acct'[target.user] = acct[target.user]
      BY <2>2, <3>1, <1>a DEF Setup!Disable, Setup!OnBox, Setup!TypeOK
    <3> QED
      BY <2>2, <3>1, <3>2, <1>a, <1>c DEF Setup!Disable, Setup!OnBox, Setup!Goto
  <2>3. CASE Setup!DisableFails(p)
    BY <2>3, <1>b DEF Setup!DisableFails, Setup!Raise
  <2> QED
    BY <2>1, <2>2, <2>3
<1>28. CASE Setup!AccountFound
  BY <1>28, <1>f, <1>g, SetupNoWorse DEF Setup!AccountFound, Setup!OnBox, Setup!Goto, Setup!Was
<1>29. CASE Setup!AccountMissing
  BY <1>29, <1>b DEF Setup!AccountMissing, Setup!Raise
<1>30. CASE Setup!Unlock
  BY <1>30, <1>f, <1>g, SetupNoWorse DEF Setup!Unlock, Setup!Sudo, Setup!OnBox, Setup!Goto, Setup!Was
<1>31. CASE Setup!UnlockFails
  BY <1>31, <1>b, <1>f, <1>g, SetupNoWorse DEF Setup!UnlockFails, Setup!OnBox, Setup!Goto,
     Setup!Raise, Setup!Was
<1>32. CASE Setup!RestoreShell
  BY <1>32, <1>f, <1>g, SetupNoWorse DEF Setup!RestoreShell, Setup!Sudo, Setup!OnBox, Setup!Goto, Setup!Was
<1>33. CASE Setup!RestoreDone
  BY <1>33, <1>b DEF Setup!RestoreDone, Setup!Done
<1>34. CASE Setup!StepRaises
  BY <1>34, <1>b DEF Setup!StepRaises, Setup!Raise
<1>35. CASE Setup!Killed
  BY <1>35, <1>b DEF Setup!Killed
<1>36. CASE UNCHANGED Setup!vars
  BY <1>36, <1>b
<1>37. CASE Setup!ReachOther
  BY <1>37, <1>b DEF Setup!ReachOther
<1>38. CASE Setup!ElsewhereSucceeds
  BY <1>38, <1>b DEF Setup!ElsewhereSucceeds
<1>39. CASE Setup!ElsewhereFails
  BY <1>39, <1>b DEF Setup!ElsewhereFails, Setup!Raise
<1> QED
  BY <1>1, <1>2, <1>3, <1>4, <1>5, <1>6, <1>7, <1>8, <1>9, <1>10, <1>11, <1>12, <1>13, <1>14,
     <1>15, <1>16, <1>17, <1>18, <1>19, <1>20, <1>21, <1>22, <1>23, <1>24, <1>25, <1>26, <1>27,
     <1>28, <1>29, <1>30, <1>31, <1>32, <1>33, <1>34, <1>35, <1>36, <1>37, <1>38, <1>39
     DEF Setup!Next, Setup!Command,
     Setup!LocalFiles, Setup!Session, Setup!Create, Setup!Restore

\* The box stays reachable but for the two steps that nothing verifies.
THEOREM SetupNoLockout == Setup!Spec => Setup!NeverLockedOut
<1>1. Setup!IInv /\ [Setup!Next]_Setup!vars =>
        [Setup!SomeIdentityWorks =>
            Setup!SomeIdentityWorks' \/ Setup!OverStockKey \/ Setup!OnOwnAccount]_Setup!vars
  BY SetupLockedStep
<1> QED
  BY SetupInductive, <1>1, PTL DEF Setup!Spec, Setup!NeverLockedOut

\* A setup that returned delivers the new identity and disables the old one.
THEOREM SetupDone == Setup!Spec => []Setup!SetupDelivers
<1>1. Setup!IInv => Setup!SetupDelivers
  BY DEF Setup!IInv
<1> QED
  BY SetupInductive, <1>1, PTL

\* A restore-bootstrap that returned delivers the restored account beside the operator's own.
THEOREM SetupRestored == Setup!Spec => []Setup!RestoreDelivers
<1>1. Setup!IInv => Setup!RestoreDelivers
  BY DEF Setup!IInv
<1> QED
  BY SetupInductive, <1>1, PTL

\* A step that changes a private key changes one that nobody trusts, or the stock key.
LEMMA SetupTrustedStep ==
    ASSUME Setup!IInv, [Setup!Next]_Setup!vars, NEW p \in Paths, priv'[p] # priv[p], NEW u \in Users,
           ~Setup!OverStockKey
    PROVE  ~Setup!CanLogin(u, priv[p])
<1> USE DEF Setup!IInv, Setup!vars, Setup!boxVars, Setup!fileVars, Setup!runVars
<1>1. CASE Setup!KeypairGenerated
  <2>1. p = target.path /\ p \in NewKeyPaths
    BY <1>1 DEF Setup!KeypairGenerated, Setup!Goto, Setup!ModesInv, Setup!KeypairPcs, Setup!TypeOK
  <2>2. CASE priv[p] = Setup!NoFile
    BY <2>2 DEF Setup!CanLogin, Setup!NoFile, Setup!Keys
  <2>3. CASE pub[p] = Setup!NoFile
    <3>1. priv[p] # 1
      BY <1>1, <2>1, <2>3 DEF Setup!KeypairGenerated, Setup!Goto, Setup!OverStockKey
    <3> QED
      BY <2>1, <2>3, <3>1 DEF Setup!CanLogin, Setup!OrphanInv
  <2> QED
    BY <1>1, <2>1, <2>2, <2>3 DEF Setup!KeypairGenerated
<1>2. CASE Setup!PrivateWritten
  <2>1. p = target.path
    BY <1>2 DEF Setup!PrivateWritten, Setup!TypeOK
  <2> QED
    BY <1>2, <2>1 DEF Setup!PrivateWritten, Setup!Goto, Setup!FreshInv, Setup!CanLogin,
       Setup!Truncated, Setup!Keys
<1>3. CASE Setup!Command
  BY <1>3 DEF Setup!Command, Setup!CmdSetup, Setup!CmdKeysOnly, Setup!CmdRestore, Setup!Begin
<1>4. CASE \/ Setup!KeypairReused \/ Setup!PublicTruncated \/ Setup!PublicWritten
           \/ Setup!InventoryKeyLoaded
           \/ Setup!InventoryKeyInvalid \/ Setup!InventoryKeyTruncated
           \/ Setup!InventoryKeyWritten
           \/ Setup!OverlayTruncated \/ Setup!OverlayWritten
  BY <1>4 DEF Setup!KeypairReused, Setup!PublicTruncated, Setup!PublicWritten,
     Setup!InventoryKeyLoaded, Setup!InventoryKeyInvalid, Setup!InventoryKeyTruncated,
     Setup!InventoryKeyWritten, Setup!OverlayTruncated, Setup!OverlayWritten
<1>5. CASE Setup!Create
  BY <1>5 DEF Setup!Create, Setup!UserAdd, Setup!AddToGroup, Setup!InstallKey, Setup!ChownKey,
     Setup!WriteRule, Setup!ValidateRule, Setup!RuleRejected, Setup!Verify, Setup!VerifyFails,
     Setup!Sudo, Setup!OnBox
<1>6. CASE Setup!DisableBootstrap
  BY <1>6 DEF Setup!DisableBootstrap, Setup!Disable, Setup!DisableFails, Setup!OnBox
<1>7. CASE Setup!Restore
  BY <1>7 DEF Setup!Restore, Setup!AccountFound, Setup!AccountMissing, Setup!Unlock,
     Setup!UnlockFails, Setup!RestoreShell, Setup!Sudo, Setup!OnBox
<1>8. CASE \/ Setup!Reach \/ Setup!ReachTimesOut \/ Setup!SudoRefused \/ Setup!StepRaises
           \/ Setup!Killed \/ Setup!ReachOther \/ Setup!RestoreDone \/ Setup!ElsewhereSucceeds
           \/ Setup!ElsewhereFails
  BY <1>8 DEF Setup!Reach, Setup!ReachTimesOut, Setup!SudoRefused, Setup!StepRaises, Setup!Killed,
     Setup!ReachOther, Setup!RestoreDone, Setup!ElsewhereSucceeds, Setup!ElsewhereFails
<1>9. CASE UNCHANGED Setup!vars
  BY <1>9
<1> QED
  BY <1>1, <1>2, <1>3, <1>4, <1>5, <1>6, <1>7, <1>8, <1>9 DEF Setup!Next, Setup!LocalFiles,
     Setup!Session

\* No step replaces a private key that some account of the box still trusts, but for a stock key
\* without its public half.
THEOREM SetupKeyKept == Setup!Spec => Setup!TrustedKeyKept
<1>1. Setup!IInv /\ [Setup!Next]_Setup!vars =>
        [\A p \in Paths : priv'[p] # priv[p] =>
            Setup!OverStockKey \/ \A u \in Users : ~Setup!CanLogin(u, priv[p])]_Setup!vars
  BY SetupTrustedStep
<1> QED
  BY SetupInductive, <1>1, PTL DEF Setup!Spec, Setup!TrustedKeyKept


-----------------------------------------------------------------------------
(* The properties of the run. *)

\* "so a mistake can never lock the operator out" (setup.py): whatever raises and wherever setup
\* or restore-bootstrap is killed, a box that some identity of the workstation reaches stays so;
\* the only steps that can take the last one away are a keypair written over a stock key without
\* its public half and restore-bootstrap of the account it came in with.
THEOREM OperatorNeverLockedOut == Setup!Spec => NeverLockedOut
BY SetupNoLockout DEF NeverLockedOut

\* generate_ssh_keypair never replaces a private key that some account of the box still trusts,
\* an earlier run that was cut off between the two files of a keypair included; the exception is
\* a stock key that came without its public half.
THEOREM TrustedKeyNeverReplaced == Setup!Spec => TrustedKeyKept
BY SetupKeyKept DEF TrustedKeyKept

\* run_setup that returned recorded the identity; from a session on the box it works there, and
\* the account it came in with is left without a login and without the rule in setup's own file,
\* unless a command of the disabling failed of its own accord.
THEOREM SetupDeliversIdentity == Setup!Spec => []SetupDelivers
BY SetupDone, PTL DEF SetupDelivers

\* restore_bootstrap that returned with a whole public key, from a session on the box, left the
\* account usable with it, and the operator's own identity where that is another account's.
THEOREM RestoreDeliversAccount == Setup!Spec => []RestoreDelivers
BY SetupRestored, PTL DEF RestoreDelivers

===============================================================================
