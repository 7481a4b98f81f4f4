------------------------------ MODULE UnitInstall ------------------------------
(***************************************************************************)
(* The Helper as a systemd unit, services/helper/src/service/linux.rs: the  *)
(* install and uninstall commands, which edit the unit file and then have  *)
(* systemd follow, one call after the other and each of them able to fail. *)
(*                                                                         *)
(* A unit file is told by its owner, the account in its Environment; one   *)
(* whose write was cut short names nobody.  systemd acts on the definition *)
(* it last loaded, not on the file.                                        *)
(***************************************************************************)
EXTENDS Naturals, FiniteSets

CONSTANTS
  Installers,      \* processes that run `install` or `uninstall`, one after the other
  Owners,          \* accounts that may ask for the elevation
  Absent, Partial, \* no unit, and a unit without an owner
  MaxFaults        \* bound: calls that fail and commands that are killed

ASSUME UnitAssumption ==
  /\ Absent \notin Owners /\ Partial \notin Owners /\ Absent # Partial
  /\ MaxFaults \in Nat

VARIABLES
  unit,     \* the unit file: an owner, Partial or Absent
  secured,  \* the file has mode 0644
  loaded,   \* the definition systemd has loaded
  enabled,  \* the unit starts at boot
  active,   \* the owner the running Helper serves, Absent if none runs
  faults,   \* faults so far
  job,      \* job[i]: "install" or "uninstall"
  asker,    \* asker[i]: the account that asked, Absent if it is none or root
  place,    \* place[i]: the call i is about to make
  outcome,  \* outcome[i]: "none", "ok", "failed" or "killed"
  alone,    \* history: no other command has overlapped the last of i
  messy,    \* history: commands have overlapped, or a `disable --now` has failed
            \* although the unit was there
  torn      \* history: a write of the unit was cut short

unitFile == <<unit, secured>>
systemd  == <<loaded, enabled, active>>
jobVars  == <<job, asker>>
runVars  == <<place, outcome>>
history  == <<alone, messy, torn>>
unitVars == <<unitFile, systemd, faults, jobVars, runVars, history>>

Calls == {"idle", "check", "owner", "free", "truncate", "write", "secure", "reload", "enable",
          "restart", "disable", "remove", "done"}

InProgress == {i \in Installers : place[i] \notin {"idle", "done"}}

UnitInit ==
  /\ unit = Absent /\ secured = FALSE
  /\ loaded = Absent /\ enabled = FALSE /\ active = Absent
  /\ faults = 0
  /\ job = [i \in Installers |-> "install"]
  /\ asker = [i \in Installers |-> Absent]
  /\ place = [i \in Installers |-> "idle"]
  /\ outcome = [i \in Installers |-> "none"]
  /\ alone = [i \in Installers |-> TRUE]
  /\ messy = FALSE /\ torn = FALSE

-----------------------------------------------------------------------------
Proceed(i, from, to) ==
  /\ place[i] = from
  /\ place' = [place EXCEPT ![i] = to]
  /\ UNCHANGED outcome

\* `?` leaves the command; what it has done until then stays.
EndCommand(i, result) ==
  /\ place' = [place EXCEPT ![i] = "done"]
  /\ outcome' = [outcome EXCEPT ![i] = result]

Fault == faults < MaxFaults /\ faults' = faults + 1

\* main: one command of one account.
Ask(i, what, owner) ==
  /\ i \notin InProgress
  /\ place' = [place EXCEPT ![i] = IF what = "install" THEN "check" ELSE "disable"]
  /\ outcome' = [outcome EXCEPT ![i] = "none"]
  /\ job' = [job EXCEPT ![i] = what] /\ asker' = [asker EXCEPT ![i] = owner]
  /\ alone' = [j \in Installers |-> IF j = i THEN InProgress = {} ELSE alone[j] /\ j \notin InProgress]
  /\ messy' = (messy \/ InProgress # {})
  /\ UNCHANGED <<unitFile, systemd, faults, torn>>

\* ensure_root_owned: an unpacked bundle is refused before anything is written.
EnsureRootOwned(i) ==
  /\ \/ Proceed(i, "check", "owner")
     \/ place[i] = "check" /\ EndCommand(i, "failed")
  /\ UNCHANGED <<unitFile, systemd, faults, jobVars, history>>

\* invoking_owner: pkexec or sudo names an account other than root, or nobody.
InvokingOwner(i) ==
  /\ place[i] = "owner"
  /\ IF asker[i] \in Owners THEN Proceed(i, "owner", "free") ELSE EndCommand(i, "failed")
  /\ UNCHANGED <<unitFile, systemd, faults, jobVars, history>>

\* installed_owner_uid: a unit cut short names nobody.
InstalledOwner == IF unit \in Owners THEN {unit} ELSE {}

\* Mutant of EnsureFree: any unit may be replaced.
EnsureFreeForAnyone(i) ==
  /\ Proceed(i, "free", "truncate")
  /\ UNCHANGED <<unitFile, systemd, faults, jobVars, history>>

\* ensure_unit_is_free_for: the unit of another account is left alone.
EnsureFree(i) ==
  /\ place[i] = "free"
  /\ IF InstalledOwner \subseteq {asker[i]}
       THEN Proceed(i, "free", "truncate")
       ELSE EndCommand(i, "failed")
  /\ UNCHANGED <<unitFile, systemd, faults, jobVars, history>>

\* fs::write opens with truncation, then writes; a new file has the umask's mode.
Truncate(i) ==
  /\ Proceed(i, "truncate", "write")
  /\ unit' = Partial
  /\ secured' = (secured /\ unit # Absent)
  /\ UNCHANGED <<systemd, faults, jobVars, history>>

\* A file that was removed meanwhile takes the bytes and stays gone.
Write(i) ==
  /\ Proceed(i, "write", "secure")
  /\ unit' = IF unit = Absent THEN Absent ELSE asker[i]
  /\ UNCHANGED <<secured, systemd, faults, jobVars, history>>

\* set_permissions, by path.
Secure(i) ==
  /\ place[i] = "secure"
  /\ IF unit = Absent
       THEN EndCommand(i, "failed") /\ UNCHANGED secured
       ELSE Proceed(i, "secure", "reload") /\ secured' = TRUE
  /\ UNCHANGED <<unit, systemd, faults, jobVars, history>>

\* daemon-reload, the last call of an uninstall.
Reload(i) ==
  /\ place[i] = "reload"
  /\ loaded' = unit
  /\ IF job[i] = "install" THEN Proceed(i, "reload", "enable") ELSE EndCommand(i, "ok")
  /\ UNCHANGED <<unitFile, enabled, active, faults, jobVars, history>>

\* enable needs the file, a complete one: its [Install] section is the last.
Enable(i) ==
  /\ place[i] = "enable"
  /\ IF unit \in Owners
       THEN Proceed(i, "enable", "restart") /\ enabled' = TRUE
       ELSE EndCommand(i, "failed") /\ UNCHANGED enabled
  /\ UNCHANGED <<unitFile, loaded, active, faults, jobVars, history>>

\* Mutant of RestartUnit: `start`, which leaves a running Helper as it is.
StartUnit(i) ==
  /\ place[i] = "restart" /\ loaded \in Owners
  /\ active' = IF active = Absent THEN loaded ELSE active
  /\ EndCommand(i, "ok")
  /\ UNCHANGED <<unitFile, loaded, enabled, faults, jobVars, history>>

\* restart stops the old Helper and starts what is loaded; Type=simple, so the
\* call does not wait for the Helper to serve.
RestartUnit(i) ==
  /\ place[i] = "restart"
  /\ active' = IF loaded \in Owners THEN loaded ELSE active
  /\ EndCommand(i, IF loaded \in Owners THEN "ok" ELSE "failed")
  /\ UNCHANGED <<unitFile, loaded, enabled, faults, jobVars, history>>

\* silence_systemctl disable --now, which fails on a unit that is not there.
Disable(i) ==
  /\ Proceed(i, "disable", "remove")
  /\ IF unit = Absent
       THEN UNCHANGED <<enabled, active>>
       ELSE enabled' = FALSE /\ active' = Absent
  /\ UNCHANGED <<unitFile, loaded, faults, jobVars, history>>

\* It fails for another reason, which the uninstall does not notice.
DisableFails(i) ==
  /\ Fault
  /\ Proceed(i, "disable", "remove")
  /\ messy' = TRUE
  /\ UNCHANGED <<unitFile, systemd, jobVars, alone, torn>>

\* remove_file: a unit that is gone ends the uninstall well.
Remove(i) ==
  /\ place[i] = "remove"
  /\ unit' = Absent /\ secured' = FALSE
  /\ IF unit = Absent THEN EndCommand(i, "ok") ELSE Proceed(i, "remove", "reload")
  /\ UNCHANGED <<systemd, faults, jobVars, history>>

\* What a start of the unit leaves running: the owner it was loaded for, or nobody.
Startable == {Absent} \cup ({loaded} \cap Owners)

\* Any other call fails, or the command is killed at it.  A write that fails
\* leaves what it has written; systemd may still do a restart nobody waits for.
CallFault(i) ==
  /\ place[i] \notin {"idle", "done"}
  /\ Fault
  /\ \/ place[i] # "disable" /\ EndCommand(i, "failed")
     \/ EndCommand(i, "killed")
  /\ active' \in {active} \cup (IF place[i] = "restart" THEN Startable ELSE {})
  /\ torn' = (torn \/ place[i] = "write")
  /\ UNCHANGED <<unitFile, loaded, enabled, jobVars, alone, messy>>

\* Restart=on-failure: systemd starts what it has loaded, at most five times.
HelperCrashes ==
  /\ active # Absent
  /\ Fault
  /\ active' \in Startable
  /\ UNCHANGED <<unitFile, loaded, enabled, jobVars, runVars, history>>

UnitStep(i) ==
  \/ EnsureRootOwned(i) \/ InvokingOwner(i) \/ EnsureFree(i)
  \/ Truncate(i) \/ Write(i) \/ Secure(i) \/ Reload(i)
  \/ Enable(i) \/ RestartUnit(i) \/ Disable(i) \/ Remove(i)

UnitNext ==
  \/ \E i \in Installers :
       \/ UnitStep(i) \/ DisableFails(i) \/ CallFault(i)
       \/ \E o \in Owners \cup {Absent} : Ask(i, "install", o)
       \/ Ask(i, "uninstall", Absent)   \* uninstall_service asks for no owner
  \/ HelperCrashes

UnitSpec == UnitInit /\ [][UnitNext]_unitVars

-----------------------------------------------------------------------------
UnitTypeOK ==
  /\ unit \in Owners \cup {Absent, Partial} /\ secured \in BOOLEAN
  /\ loaded \in Owners \cup {Absent, Partial} /\ enabled \in BOOLEAN
  /\ active \in Owners \cup {Absent} /\ faults \in 0..MaxFaults
  /\ job \in [Installers -> {"install", "uninstall"}] /\ asker \in [Installers -> Owners \cup {Absent}]
  /\ place \in [Installers -> Calls]
  /\ outcome \in [Installers -> {"none", "ok", "failed", "killed"}]
  /\ alone \in [Installers -> BOOLEAN] /\ messy \in BOOLEAN /\ torn \in BOOLEAN

Installed(o) == unit = o /\ secured /\ loaded = o /\ enabled /\ active = o
Gone         == unit = Absent /\ ~enabled /\ active = Absent

\* A command that ended well has done what it says, whatever commands before it
\* have left half done: after an install the file, systemd and the running Helper
\* agree on the owner, and an uninstall leaves no Helper behind, unless commands
\* have overlapped or systemd refused a `disable --now` that nobody looked at.
OkIsTrue ==
  [][\A i \in Installers : outcome[i] = "none" /\ outcome'[i] = "ok" =>
       /\ job[i] = "install" /\ alone[i] => Installed(asker[i])'
       /\ job[i] = "uninstall" /\ ~messy => Gone']_unitVars

\* The Helper of one account is never taken over by another's: a running Helper
\* passes from one owner to the next only by way of an uninstall.  A unit whose
\* rewriting was cut short names no owner any more, and anyone may replace it.
HelperKeepsItsOwner ==
  [][active # active' /\ active # Absent /\ active' # Absent => messy' \/ torn']_unitVars
=============================================================================
