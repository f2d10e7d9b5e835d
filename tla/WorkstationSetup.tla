--------------------------- MODULE WorkstationSetup ---------------------------
(***************************************************************************)
(* `vmdeploy setup' (also --keys-only) and `vmdeploy restore-bootstrap'.   *)
(* Setup mints a keypair on the workstation, uses the configured identity  *)
(* once to create an operational account on the template box, verifies it, *)
(* disables the account it came in with and records the new identity in    *)
(* the local overlay.  Every file is written by truncating it first; any   *)
(* step may raise and the process may be killed between any two.           *)
(*                                                                         *)
(* An account is what login and root depend on: its shell, its sudo group  *)
(* and NOPASSWD rule, its password, the key in authorized_keys and whether *)
(* that file is the account's own (sshd reads it with the account's uid).  *)
(* The box is registered, as run_setup and restore_bootstrap require.  No  *)
(* hostname is compared, so the session may be on another guest whose      *)
(* address wait_for_guest_ip took from a stale DNS entry: the commands     *)
(* then act there, and the box keeps its accounts.                         *)
(***************************************************************************)
EXTENDS Integers

CONSTANTS
    Users,          \* account names
    Boot,           \* the stock account, ssh.user of the base configuration
    Paths,          \* private key paths on the workstation
    BootPath,       \* ssh.key_path of the base configuration
    NewKeyPaths,    \* what the operator passes as --new-key
    EnvUsers,       \* what VMDEPLOY_SSH_USER may be for a command, NoUser: unset
    NoUser,
    MaxRuns,        \* bound: commands
    MaxKeys         \* bound: keys ever generated, the stock key included

SetupAssumption ==
    /\ Boot \in Users /\ NoUser \notin Users /\ EnvUsers \subseteq Users \union {NoUser}
    /\ BootPath \in Paths /\ NewKeyPaths \subseteq Paths
    /\ MaxRuns \in Nat /\ MaxKeys \in Nat \ {0}

Keys == 1..MaxKeys
NoFile == 0
Truncated == -1                  \* a file opened for writing and not yet written
Contents == {NoFile, Truncated} \union Keys
NoLine == 0                      \* the public key line is empty

\* rule: NOPASSWD in /etc/sudoers.d/90-<user>; otherRule: in any other sudoers file.
Accounts == [exists: BOOLEAN, shell: BOOLEAN, group: BOOLEAN, rule: BOOLEAN,
             otherRule: BOOLEAN, pw: {"none", "set", "locked"}, key: {NoLine} \union Keys, owned: BOOLEAN]

NoAccount == [exists |-> FALSE, shell |-> FALSE, group |-> FALSE, rule |-> FALSE,
              otherRule |-> FALSE, pw |-> "none", key |-> NoLine, owned |-> FALSE]

VARIABLES
    acct,       \* the template box's accounts
    power,      \* "off" or "running"
    priv, pub,  \* the two files of each keypair
    invKey,     \* the inventory key file: "none", "truncated" or "whole"
    overlay,    \* the [ssh] table of cluster.local.toml, as an identity
    envSet,     \* whether VMDEPLOY_SUDO_PASSWORD holds the stock password
    minted,     \* keys generated so far
    pc, mode, result, runs,
    cfg,        \* the identity in the configuration this command loaded
    target,     \* the account and key path this command is about
    away,       \* this command's session is on another guest
    line,       \* the public key line in this command's memory
    fault       \* history: some step of this command failed of its own accord

boxVars == <<acct, power>>
fileVars == <<priv, pub, invKey, overlay, minted>>
runVars == <<mode, runs, cfg, target, away>>
vars == <<boxVars, fileVars, runVars, envSet, pc, result, line, fault>>

Identities == [user: Users, path: Paths]
NoIdentity == [user |-> NoUser, path |-> BootPath]   \* the overlay has no [ssh] table

CreatePcs == {"useradd", "group", "key", "chown", "rule", "visudo"}
DisablePcs == {"lock", "nologin", "gpasswd", "rmrule", "rmkey"}
EnablePcs == {"id", "unlock", "shell"}
FilePcs == {"keypair", "privwrite", "pubtrunc", "pubwrite", "inventory", "invwrite",
            "overlay", "overlaywrite"}
Pcs == {"idle", "reach", "verify", "poweroff"}
         \union CreatePcs \union DisablePcs \union EnablePcs \union FilePcs

-----------------------------------------------------------------------------
(* Who can do what on the box. *)

\* A session opened with the private key k runs commands as u.
CanLogin(u, k) ==
    /\ acct[u].exists /\ acct[u].shell /\ acct[u].owned
    /\ k \in Keys /\ acct[u].key = k

\* sudo -n by a rule, or the group and the password from the environment.
CanRoot(u) ==
    \/ acct[u].rule \/ acct[u].otherRule
    \/ acct[u].group /\ acct[u].pw = "set" /\ envSet

Works(id) == CanLogin(id.user, priv[id.path]) /\ CanRoot(id.user)

\* load_config: base file, overlaid by the local file, then by the environment.
Configured(env) ==
    LET file == IF overlay.user = NoUser THEN [user |-> Boot, path |-> BootPath] ELSE overlay
    IN  IF env = NoUser THEN file ELSE [file EXCEPT !.user = env]

-----------------------------------------------------------------------------
\* The stock account: in the sudo group or not, with a rule in the file that setup
\* writes itself, in another one, or in none.
Stock(g, r, o) ==
    [exists |-> TRUE, shell |-> TRUE, group |-> g, rule |-> r, otherRule |-> o,
     pw |-> "set", key |-> 1, owned |-> TRUE]

\* The stock image: Boot logs in with the key at BootPath, whose public half may or may
\* not lie beside it, and reaches root.
Init ==
    /\ \E g, r, o \in BOOLEAN :
         acct = [u \in Users |-> IF u = Boot THEN Stock(g, r, o) ELSE NoAccount]
    /\ power \in {"off", "running"}
    /\ priv = [p \in Paths |-> IF p = BootPath THEN 1 ELSE NoFile]
    /\ \E c \in {NoFile, 1} : pub = [p \in Paths |-> IF p = BootPath THEN c ELSE NoFile]
    /\ invKey = "none"
    /\ overlay = NoIdentity
    /\ envSet \in BOOLEAN
    /\ CanRoot(Boot)
    /\ minted = 1
    /\ pc = "idle" /\ mode = "setup" /\ result = "none" /\ runs = 0
    /\ cfg = [user |-> Boot, path |-> BootPath]
    /\ target = cfg
    /\ away = FALSE
    /\ line = NoLine
    /\ fault = FALSE

-----------------------------------------------------------------------------
(* Control. *)

Goto(from, to) ==
    /\ pc = from
    /\ pc' = to
    /\ UNCHANGED <<runVars, envSet, result>>

Raise(isFault) ==
    /\ pc' = "idle"
    /\ result' = "fail"
    /\ fault' = (fault \/ isFault)
    /\ UNCHANGED <<runVars, envSet, line>>

Done(from) ==
    /\ pc = from
    /\ pc' = "idle"
    /\ result' = "ok"
    /\ UNCHANGED <<runVars, envSet>>

\* SSH, SFTP, VBoxManage, the local disk or Ctrl-C: the step raises without its effect.
StepRaises ==
    /\ pc # "idle"
    /\ Raise(TRUE)
    /\ UNCHANGED <<boxVars, fileVars>>

Killed ==
    /\ pc # "idle"
    /\ pc' = "idle"
    /\ result' = "killed"
    /\ UNCHANGED <<boxVars, fileVars, runVars, envSet, line, fault>>

Begin(m, env, start) ==
    /\ pc = "idle"
    /\ runs < MaxRuns
    /\ runs' = runs + 1
    /\ mode' = m
    /\ pc' = start
    /\ cfg' = Configured(env)
    /\ away' = FALSE
    /\ result' = "none"
    /\ fault' = FALSE
    /\ UNCHANGED <<boxVars, fileVars, envSet>>

\* run_setup refuses a new user equal to the configured one before anything else.
CmdSetup ==
    \E env \in EnvUsers, u \in Users, p \in NewKeyPaths :
        /\ u # Configured(env).user
        /\ Begin("setup", env, "keypair") /\ target' = [user |-> u, path |-> p] /\ line' = NoLine

CmdKeysOnly ==
    \E u \in Users, p \in NewKeyPaths :
        Begin("keys", NoUser, "keypair") /\ target' = [user |-> u, path |-> p] /\ line' = NoLine

\* cmd_restore_bootstrap reads the public key file first; any account may be named,
\* the one the operator works with included.
CmdRestore ==
    \E env \in EnvUsers, u \in Users, p \in Paths :
        /\ pub[p] # NoFile
        /\ Begin("restore", env, "reach")
        /\ target' = [user |-> u, path |-> p]
        /\ line' = IF pub[p] = Truncated THEN NoLine ELSE pub[p]

-----------------------------------------------------------------------------
(* Local key material. *)

\* Mutant: the private key alone is looked for, and an existing one is overwritten.
KeypairRegenerated ==
    /\ minted < MaxKeys
    /\ Goto("keypair", "privwrite")
    /\ minted' = minted + 1
    /\ line' = minted'
    /\ priv' = [priv EXCEPT ![target.path] = Truncated]
    /\ UNCHANGED <<boxVars, pub, invKey, overlay, fault>>

\* Mutant: the public key file is taken as it is.
KeypairReusedRaw ==
    /\ Goto("keypair", "inventory")
    /\ priv[target.path] # NoFile /\ pub[target.path] # NoFile
    /\ line' = pub[target.path]
    /\ UNCHANGED <<boxVars, fileVars, fault>>

\* Both files present: the public half is read and nothing is written.
KeypairReused ==
    /\ Goto("keypair", "inventory")
    /\ priv[target.path] # NoFile /\ pub[target.path] # NoFile
    /\ line' = IF pub[target.path] = Truncated THEN NoLine ELSE pub[target.path]
    /\ UNCHANGED <<boxVars, fileVars, fault>>

\* Either file missing: a new key, the private file first.
KeypairGenerated ==
    /\ priv[target.path] = NoFile \/ pub[target.path] = NoFile
    /\ minted < MaxKeys
    /\ Goto("keypair", "privwrite")
    /\ minted' = minted + 1
    /\ line' = minted'
    /\ priv' = [priv EXCEPT ![target.path] = Truncated]
    /\ UNCHANGED <<boxVars, pub, invKey, overlay, fault>>

PrivateWritten ==
    /\ Goto("privwrite", "pubtrunc")
    /\ priv' = [priv EXCEPT ![target.path] = line]
    /\ UNCHANGED <<boxVars, pub, invKey, overlay, minted, line, fault>>

PublicTruncated ==
    /\ Goto("pubtrunc", "pubwrite")
    /\ pub' = [pub EXCEPT ![target.path] = Truncated]
    /\ UNCHANGED <<boxVars, priv, invKey, overlay, minted, line, fault>>

PublicWritten ==
    /\ Goto("pubwrite", "inventory")
    /\ pub' = [pub EXCEPT ![target.path] = line]
    /\ UNCHANGED <<boxVars, priv, invKey, overlay, minted, line, fault>>

AfterKeys == IF mode = "keys" THEN "overlay" ELSE "reach"

\* load_or_create_key: an existing file is loaded, and must hold a whole key.
InventoryKeyLoaded ==
    /\ invKey = "whole"
    /\ Goto("inventory", AfterKeys)
    /\ UNCHANGED <<boxVars, fileVars, line, fault>>
InventoryKeyInvalid ==
    /\ pc = "inventory"
    /\ invKey = "truncated"
    /\ Raise(FALSE)
    /\ UNCHANGED <<boxVars, fileVars>>
InventoryKeyTruncated ==
    /\ invKey = "none"
    /\ Goto("inventory", "invwrite")
    /\ invKey' = "truncated"
    /\ UNCHANGED <<boxVars, priv, pub, overlay, minted, line, fault>>
InventoryKeyWritten ==
    /\ Goto("invwrite", AfterKeys)
    /\ invKey' = "whole"
    /\ UNCHANGED <<boxVars, priv, pub, overlay, minted, line, fault>>

\* write_local_overlay: an empty file parses as no overlay at all.
OverlayTruncated ==
    /\ Goto("overlay", "overlaywrite")
    /\ overlay' = NoIdentity
    /\ UNCHANGED <<boxVars, priv, pub, invKey, minted, line, fault>>
OverlayWritten ==
    /\ Done("overlaywrite")
    /\ overlay' = target
    /\ UNCHANGED <<boxVars, priv, pub, invKey, minted, line, fault>>

LocalFiles ==
    \/ KeypairReused \/ KeypairGenerated \/ PrivateWritten \/ PublicTruncated \/ PublicWritten
    \/ InventoryKeyLoaded \/ InventoryKeyInvalid \/ InventoryKeyTruncated
    \/ InventoryKeyWritten \/ OverlayTruncated \/ OverlayWritten

-----------------------------------------------------------------------------
(* The session on the box. *)

OnBox(from, to, u, a) ==
    /\ Goto(from, to)
    /\ acct' = [acct EXCEPT ![u] = a]
    /\ UNCHANGED <<power, fileVars, line, fault>>

AfterReach == IF mode = "restore" THEN "id" ELSE "useradd"

\* start_headless, wait_for_guest_ip, wait_for_ssh with the configured identity.
Reach ==
    /\ Goto("reach", AfterReach)
    /\ CanLogin(cfg.user, priv[cfg.path])
    /\ power' = "running"
    /\ UNCHANGED <<acct, fileVars, line, fault>>
ReachTimesOut ==
    /\ pc = "reach"
    /\ power' = "running"
    /\ Raise(CanLogin(cfg.user, priv[cfg.path]))
    /\ UNCHANGED <<acct, fileVars>>

\* No LAN address is published in time, DNS answers with another guest's, and that
\* guest accepts the configured identity.
ReachOther ==
    /\ pc = "reach"
    /\ pc' = AfterReach
    /\ away' = TRUE
    /\ power' = "running"
    /\ UNCHANGED <<acct, fileVars, mode, runs, cfg, target, envSet, result, line, fault>>

\* RemoteHost.sudo with check=True, as the configured user.
Sudo(from, to, a) == CanRoot(cfg.user) /\ OnBox(from, to, target.user, a)
SudoRefused ==
    /\ pc \in CreatePcs \union {"unlock", "shell"}
    /\ ~CanRoot(cfg.user)
    /\ Raise(FALSE)
    /\ UNCHANGED <<boxVars, fileVars>>

Was == acct[target.user]

\* useradd only if id -u fails: an account that exists keeps its shell.
UserAdd ==
    Sudo("useradd", "group",
         IF Was.exists THEN Was ELSE [NoAccount EXCEPT !.exists = TRUE, !.shell = TRUE])
AddToGroup == Sudo("group", "key", [Was EXCEPT !.group = TRUE])
\* put_bytes goes through `sudo install', so the file is root's until the chown.
InstallKey == Sudo("key", "chown", [Was EXCEPT !.key = line, !.owned = FALSE])
ChownKey == Sudo("chown", "rule", [Was EXCEPT !.owned = TRUE])
WriteRule == Sudo("rule", "visudo", [Was EXCEPT !.rule = TRUE])
ValidateRule ==
    Sudo("visudo", IF mode = "restore" THEN "poweroff" ELSE "verify", Was)
\* visudo exits non-zero: with a password it is run again, the rule removed and the
\* error raised; without one sudo itself raises and the rule stays.
RuleRejected ==
    /\ pc = "visudo"
    /\ CanRoot(cfg.user)
    /\ acct' = [acct EXCEPT ![target.user].rule = @ /\ ~envSet]
    /\ Raise(TRUE)
    /\ UNCHANGED <<power, fileVars>>

\* Mutant: the bootstrap account is disabled without waiting for the answer.
VerifySkipped == OnBox("verify", "lock", target.user, Was)

\* verify_admin_access with the new identity.
Verify ==
    /\ Works(target)
    /\ OnBox("verify", "lock", target.user, Was)
VerifyFails ==
    /\ pc = "verify"
    /\ ~Works(target)
    /\ Raise(FALSE)
    /\ UNCHANGED <<boxVars, fileVars>>

Create ==
    \/ UserAdd \/ AddToGroup \/ InstallKey \/ ChownKey \/ WriteRule \/ ValidateRule
    \/ RuleRejected \/ Verify \/ VerifyFails

-----------------------------------------------------------------------------
(* disable_bootstrap_account, as the new user: five sudo calls whose exit  *)
(* status is not checked.                                                  *)

AfterDisable(p) ==
    CASE p = "lock" -> "nologin" [] p = "nologin" -> "gpasswd" [] p = "gpasswd" -> "rmrule"
      [] p = "rmrule" -> "rmkey" [] p = "rmkey" -> "overlay"

\* Mutant: the password is locked and sudo revoked, the key login stays.
DisabledKeepsLogin(p, a) ==
    CASE p = "lock" -> [a EXCEPT !.pw = IF @ = "set" THEN "locked" ELSE @]
      [] p = "gpasswd" -> [a EXCEPT !.group = FALSE]
      [] p = "rmrule" -> [a EXCEPT !.rule = FALSE]
      [] OTHER -> a

Disabled(p, a) ==
    CASE p = "lock" -> [a EXCEPT !.pw = IF @ = "set" THEN "locked" ELSE @]
      [] p = "nologin" -> [a EXCEPT !.shell = FALSE]
      [] p = "gpasswd" -> [a EXCEPT !.group = FALSE]
      [] p = "rmrule" -> [a EXCEPT !.rule = FALSE]
      [] p = "rmkey" -> [a EXCEPT !.key = NoLine, !.owned = FALSE]

Disable(p) ==
    /\ p = "gpasswd" => acct[cfg.user].group
    /\ OnBox(p, AfterDisable(p), cfg.user, Disabled(p, acct[cfg.user]))

\* The command exits non-zero (gpasswd does for a user not in the group): sudo takes
\* it for a refusal, raises if there is no password, and otherwise runs it again and
\* returns the status nobody looks at.
DisableFails(p) ==
    /\ pc = p
    /\ LET isFault == ~(p = "gpasswd" /\ ~acct[cfg.user].group)
       IN  IF envSet
           THEN /\ pc' = AfterDisable(p)
                /\ fault' = (fault \/ isFault)
                /\ UNCHANGED <<runVars, envSet, result, line>>
           ELSE Raise(isFault)
    /\ UNCHANGED <<boxVars, fileVars>>

DisableBootstrap == \E p \in DisablePcs : Disable(p) \/ DisableFails(p)

-----------------------------------------------------------------------------
(* enable_account and the rest of restore_bootstrap. *)

AccountFound == Was.exists /\ OnBox("id", "unlock", target.user, Was)
AccountMissing ==
    /\ pc = "id"
    /\ ~Was.exists
    /\ Raise(FALSE)
    /\ UNCHANGED <<boxVars, fileVars>>

\* usermod -U, status not checked; it refuses an account that has no password.
Unlock ==
    /\ Was.pw # "none"
    /\ Sudo("unlock", "shell", [Was EXCEPT !.pw = "set"])
UnlockFails ==
    /\ pc = "unlock"
    /\ CanRoot(cfg.user)
    /\ Was.pw = "none"
    /\ IF envSet THEN OnBox("unlock", "shell", target.user, Was)
       ELSE Raise(FALSE) /\ UNCHANGED <<boxVars, fileVars>>

\* Mutant: the shell stays nologin.
ShellKept == Sudo("shell", "group", Was)

RestoreShell == Sudo("shell", "group", [Was EXCEPT !.shell = TRUE])

Restore ==
    \/ AccountFound \/ AccountMissing \/ Unlock \/ UnlockFails \/ RestoreShell

\* power_off unless --leave-running.
RestoreDone ==
    /\ Done("poweroff")
    /\ power' \in {"running", "off"}
    /\ UNCHANGED <<acct, fileVars, line, fault>>

-----------------------------------------------------------------------------
(* The same commands sent to another guest: each is carried out there or   *)
(* is refused and raises, and verify_admin_access looks at the account     *)
(* that was made there.                                                    *)

SessionPcs == CreatePcs \union DisablePcs \union EnablePcs \union {"verify"}

AfterStep(p) ==
    CASE p = "id" -> "unlock" [] p = "unlock" -> "shell" [] p \in {"shell", "useradd"} -> "group"
      [] p = "group" -> "key" [] p = "key" -> "chown" [] p = "chown" -> "rule"
      [] p = "rule" -> "visudo"
      [] p = "visudo" -> IF mode = "restore" THEN "poweroff" ELSE "verify"
      [] p = "verify" -> "lock" [] p \in DisablePcs -> AfterDisable(p)

ElsewhereSucceeds ==
    /\ pc \in SessionPcs
    /\ pc' = AfterStep(pc)
    /\ UNCHANGED <<boxVars, fileVars, runVars, envSet, result, line, fault>>
ElsewhereFails ==
    /\ pc \in SessionPcs
    /\ Raise(FALSE)
    /\ UNCHANGED <<boxVars, fileVars>>

-----------------------------------------------------------------------------
Command == CmdSetup \/ CmdKeysOnly \/ CmdRestore
Session ==
    \/ Reach \/ ReachOther \/ ReachTimesOut \/ RestoreDone
    \/ ~away /\ (SudoRefused \/ Create \/ DisableBootstrap \/ Restore)
    \/ away /\ (ElsewhereSucceeds \/ ElsewhereFails)
Next == Command \/ LocalFiles \/ Session \/ StepRaises \/ Killed

Spec == Init /\ [][Next]_vars

-----------------------------------------------------------------------------
(* Properties. *)

\* Every variable keeps its type.
TypeOK ==
    /\ acct \in [Users -> Accounts]
    /\ power \in {"off", "running"}
    /\ priv \in [Paths -> Contents]
    /\ pub \in [Paths -> Contents]
    /\ invKey \in {"none", "truncated", "whole"}
    /\ overlay \in Identities \union {NoIdentity}
    /\ envSet \in BOOLEAN
    /\ minted \in Keys
    /\ pc \in Pcs
    /\ mode \in {"setup", "keys", "restore"}
    /\ result \in {"none", "ok", "fail", "killed"}
    /\ runs \in 0..MaxRuns
    /\ cfg \in Identities
    /\ target \in Identities
    /\ away \in BOOLEAN
    /\ line \in {NoLine} \union Keys
    /\ fault \in BOOLEAN

\* Some account of the box accepts a private key held on the workstation and reaches
\* root.
SomeIdentityWorks == \E id \in Identities : Works(id)

\* generate_ssh_keypair is about to write over the stock key, whose public half is
\* not beside it.
OverStockKey == pc = "keypair" /\ priv[target.path] = 1 /\ pub[target.path] = NoFile

\* restore-bootstrap of the very account it came in with: its authorized_keys are
\* replaced while they are the operator's way in, its rule is validated.
OnOwnAccount ==
    mode = "restore" /\ ~away /\ cfg.user = target.user /\ pc \in {"key", "visudo"}

\* "so a mistake can never lock the operator out" (setup.py): whatever raises and
\* wherever setup or restore-bootstrap is killed, a box that some identity of the
\* workstation reaches stays so, and the only steps that take the last one away are
\* the two that nothing verifies: a new keypair written over the stock key, and
\* restore-bootstrap of the account it came in with.
NeverLockedOut ==
    [][SomeIdentityWorks => SomeIdentityWorks' \/ OverStockKey \/ OnOwnAccount]_vars

\* generate_ssh_keypair leaves an existing keypair alone: no step replaces a private
\* key that some account of the box still trusts, a keypair cut off between its two
\* files included.  The one exception is a stock key that came without its public half.
TrustedKeyKept ==
    [][\A p \in Paths : priv'[p] # priv[p] =>
          OverStockKey \/ \A u \in Users : ~CanLogin(u, priv[p])]_vars

\* run_setup returned: the identity is recorded, and if the session was on the box it
\* logs in and reaches root there, and the account it came in with accepts no key and
\* has no rule left in the file setup writes, unless a command of the disabling failed
\* of its own accord.
SetupDelivers ==
    pc = "idle" /\ result = "ok" /\ mode = "setup" =>
      /\ overlay = target
      /\ ~away => Works(target)
      /\ ~away /\ ~fault => ~acct[cfg.user].rule /\ \A k \in Keys : ~CanLogin(cfg.user, k)

\* restore_bootstrap returned with a whole public key from a session on the box: the
\* account is usable with it, and the identity the operator came with still is if it
\* is another account's.
RestoreDelivers ==
    pc = "idle" /\ result = "ok" /\ mode = "restore" /\ line # NoLine /\ ~away =>
      /\ CanLogin(target.user, line) /\ CanRoot(target.user)
      /\ cfg.user # target.user => Works(cfg)

-----------------------------------------------------------------------------
(* The inductive invariant behind these. *)

KeypairPcs == {"keypair", "privwrite", "pubtrunc", "pubwrite"}
MintedPcs == {"privwrite", "pubtrunc", "pubwrite"}

\* Which command may be where, and that setup never changes its own account.
ModesInv ==
    /\ pc \in FilePcs => mode \in {"setup", "keys"}
    /\ pc \in KeypairPcs => target.path \in NewKeyPaths
    /\ pc \in CreatePcs \union {"reach"} => mode \in {"setup", "restore"}
    /\ pc \in DisablePcs \union {"useradd", "verify"} => mode = "setup"
    /\ pc \in EnablePcs \union {"poweroff"} => mode = "restore"
    /\ pc # "idle" /\ mode = "setup" => cfg.user # target.user

\* Keys are minted in order, so that a new one is nowhere yet.
MintedInv ==
    /\ \A p \in Paths : priv[p] <= minted /\ pub[p] <= minted
    /\ \A u \in Users : acct[u].key <= minted
    /\ line <= minted

\* While a keypair is being written its key is in the command's memory, and in the
\* private file once that is written.
FreshInv ==
    /\ pc \in MintedPcs =>
         /\ line = minted
         /\ \A p \in Paths : pub[p] # minted /\ (p # target.path => priv[p] # minted)
         /\ \A u \in Users : acct[u].key # minted
    /\ pc = "privwrite" => priv[target.path] = Truncated
    /\ pc = "pubwrite" => pub[target.path] = Truncated

\* A private key whose public half was never written is trusted by no account, and no
\* command is about to install it; the stock key may have come without its own.
OrphanInv ==
    \A p \in NewKeyPaths : pub[p] = NoFile /\ priv[p] \in Keys \ {1} =>
        /\ \A u \in Users : acct[u].key # priv[p]
        /\ \A q \in Paths : pub[q] # priv[p]
        /\ pc \notin {"idle", "privwrite", "pubtrunc"} => line # priv[p]

\* The identity a session on the box was opened with lasts as long as it is needed, and
\* the new one works from the moment the old one is touched.
SessionInv ==
    ~away /\ cfg.user # target.user =>
      /\ pc \in CreatePcs \union EnablePcs \union {"verify", "poweroff"} =>
           CanLogin(cfg.user, priv[cfg.path])
      /\ pc = "poweroff" => CanRoot(cfg.user)
      /\ pc \in DisablePcs \union {"overlay", "overlaywrite"} /\ mode = "setup" =>
           Works(target)

\* What the disabling has done so far, unless one of its commands failed.
DisabledInv ==
    mode = "setup" /\ ~fault /\ ~away =>
      /\ pc \in {"gpasswd", "rmrule", "rmkey", "overlay", "overlaywrite"} =>
           ~acct[cfg.user].shell
      /\ pc \in {"rmkey", "overlay", "overlaywrite"} => ~acct[cfg.user].rule

\* What restore-bootstrap has done so far.
RestoredInv ==
    mode = "restore" /\ ~away =>
      /\ pc \in {"unlock", "shell", "group", "key", "chown", "rule", "visudo", "poweroff"} =>
           acct[target.user].exists
      /\ pc \in {"group", "key", "chown", "rule", "visudo", "poweroff"} =>
           acct[target.user].shell
      /\ pc \in {"chown", "rule", "visudo", "poweroff"} => acct[target.user].key = line
      /\ pc \in {"rule", "visudo", "poweroff"} => acct[target.user].owned
      /\ pc \in {"visudo", "poweroff"} => acct[target.user].rule

\* b opens the account wherever a did.
NoWorse(a, b) ==
    /\ a.exists => b.exists
    /\ a.shell => b.shell
    /\ a.owned => b.owned
    /\ b.key = a.key
    /\ a.rule => b.rule
    /\ a.otherRule => b.otherRule
    /\ a.group /\ a.pw = "set" => b.group /\ b.pw = "set"

IInv ==
    /\ TypeOK /\ ModesInv /\ MintedInv /\ FreshInv /\ OrphanInv
    /\ SessionInv /\ DisabledInv /\ RestoredInv
    /\ SetupDelivers /\ RestoreDelivers

-----------------------------------------------------------------------------
(* What the documentation says, and the code does not keep. *)

\* README.md: "The verify-before-disable ordering makes lockout impossible", of the
\* identity the next command will use: it works after a setup that failed.
ConfiguredIdentityWorks ==
    pc = "idle" /\ result = "fail" /\ mode = "setup" => Works(Configured(NoUser))

\* create_admin_user: "setup can be re-run safely" -- a setup that starts from a
\* working identity fails only if something goes wrong in it.
RerunSucceeds ==
    pc = "idle" /\ result = "fail" /\ mode = "setup" /\ Works(cfg) => fault

\* disable_bootstrap_account "Raises VmDeployError: If the account cannot be disabled".
DisabledWhenDone ==
    pc = "idle" /\ result = "ok" /\ mode = "setup" => \A k \in Keys : ~CanLogin(cfg.user, k)

\* disable_bootstrap_account: "sudo is revoked".
SudoRevoked ==
    pc = "idle" /\ result = "ok" /\ mode = "setup" /\ ~away /\ ~fault => ~CanRoot(cfg.user)
================================================================================
