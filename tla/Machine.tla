------------------------------ MODULE Machine ------------------------------
(***************************************************************************)
(* One machine under "omnistat service install", "service uninstall" and   *)
(* "upgrade" (src/internal/cli/service.go, src/internal/cli/upgrade.go):    *)
(* a command decides its steps and then takes them one by one; a step may  *)
(* fail, the command may be killed and the machine may restart between any *)
(* two, and meanwhile the service fails and is started again and the       *)
(* administrator writes a configuration.  Two commands never run at once,  *)
(* which specs/features/009-upgrade/spec.md declares unsupported.          *)
(***************************************************************************)
EXTENDS Install, Releases

CONSTANTS
  Hosts,        \* the hosts a behaviour may begin with
  Requests,     \* what an install is given: environment, answers, --replace-token
  Sites,        \* the checksum documents a releases location may serve
  Wants,        \* {} or {the version asked for with --version}
  Precedence,   \* the versions, oldest first
  MaxCommands, MaxFaults, MaxCrashes   \* bounds of the model

(* A behaviour begins with a service nobody is deleting, without a service *)
(* with nothing that runs, and with no permissions on what is not there; a *)
(* program found or downloaded reports one version, or none.               *)
ASSUME MachineAssumption ==
  /\ None \notin Versions
  /\ \A h \in Hosts :
       /\ DOMAIN h = DOMAIN Fresh
       /\ h.unit \in {"absent", "own", "foreign"} /\ h.binary \in Versions \cup {None}
       /\ h.unit = "absent" => h.service = "stopped"
       /\ h.loose \subseteq {"dir", "conf"}
       /\ ("dir" \in h.loose => h.dir) /\ ("conf" \in h.loose => h.conf # "absent")
  /\ \A sums \in Sites : \A r \in sums :
       /\ r.version \in Versions /\ r.holds \subseteq Versions
       /\ \A v, w \in r.holds : v = w

VARIABLES
  os,      \* "linux" or "windows"
  m,       \* the host
  stage,   \* the program an upgrade moved into its staging directory, or None
  cmd,     \* the install or uninstall under way
  up,      \* the upgrade under way
  report,  \* what the last command said at its end
  last,    \* history: the command whose steps were taken last, "done" after an install
  used     \* commands begun, steps failed, crashes, up to the bounds

vars == <<os, m, stage, cmd, up, report, last, used>>

NoCommand ==
  [kind |-> "none", steps |-> <<>>, version |-> None, settings |-> NoSettings, asked |-> {}]
NoUpgrade == [phase |-> "none", self |-> FALSE, mode |-> "run", want |-> {},
              release |-> NoRelease, code |-> "none", before |-> <<>>]

Files(h) == <<h.binary, h.unit, h.env>>
Idle == cmd.kind = "none" /\ up.phase = "none"

Init ==
  /\ os \in {"linux", "windows"}
  /\ m \in Hosts /\ stage = None
  /\ cmd = NoCommand /\ up = NoUpgrade /\ last = "none"
  /\ report = [what |-> "none", version |-> None, settings |-> NoSettings, files |-> <<>>]
  /\ used = [commands |-> 0, faults |-> 0, crashes |-> 0]

Spend(what) == used' = [used EXCEPT ![what] = @ + 1]
Faulty == used.faults < MaxFaults /\ Spend("faults")
Begins == Idle /\ used.commands < MaxCommands /\ Spend("commands")
Reports(what, version, settings, files) ==
  report' = [what |-> what, version |-> version, settings |-> settings, files |-> files]
Says(what) == Reports(what, None, NoSettings, up.before)
Holds == os = "windows" /\ up.self /\ stage = None   \* the upgrade runs from the path

-----------------------------------------------------------------------------
(* service install: its plan, from a binary elsewhere or the installed one.*)

Configured == m.conf = "admin"
Stored == ParseEnv(os, m.env)
Settled(r) == ResolveSettings(Stored, r.given, r.typed, r.replace, Configured)

(* asked has the settings the operator gave or was asked for.              *)
Plan(elsewhere, version, r) ==
  [kind |-> "install", version |-> version, settings |-> Settled(r),
   steps |-> IF os = "linux" THEN LinuxInstall(m, elsewhere) ELSE WindowsInstall(m, elsewhere),
   asked |-> {n \in Names : r.given[n] # None \/ Stored[n] = None}
     \cup (IF AsksToken(Stored, r.given, r.replace) THEN {"token"} ELSE {})]

(* What install refuses before its first step, besides what the platform   *)
(* answers to the pre-check.                                               *)
Refused(r) ==
  \/ m.unit = "foreign"
  \/ ~Readable(Stored) \/ ~Readable(FormatEnv(os, Settled(r)))
  \/ ~Precheck(Settled(r), Configured)

InstallBegins ==
  /\ Begins
  /\ \E r \in Requests, v \in Versions :
       \/ /\ ~Refused(r) /\ cmd' = Plan(TRUE, v, r) /\ UNCHANGED report
       \/ /\ ~Refused(r) /\ v = m.binary /\ cmd' = Plan(FALSE, v, r) /\ UNCHANGED report
       \/ /\ Says("refused") /\ UNCHANGED cmd
  /\ UNCHANGED <<os, m, stage, up, last>>

UninstallBegins ==
  /\ Begins
  /\ \/ /\ ~Present(m)
        /\ Says(IF m.unit = "foreign" THEN "refused" ELSE "not installed") /\ UNCHANGED cmd
     \/ /\ Present(m)
        /\ cmd' = [NoCommand EXCEPT !.kind = "uninstall",
                     !.steps = IF os = "linux" THEN LinuxUninstall(m) ELSE WindowsUninstall(m)]
        /\ UNCHANGED report
  /\ UNCHANGED <<os, m, stage, up, last>>

-----------------------------------------------------------------------------
(* Plan.Apply: the steps in order, up to the first that fails.             *)

After(step) ==
  IF os = "linux" THEN LinuxStep(m, step, cmd.version, FormatEnv(os, cmd.settings))
  ELSE WindowsStep(m, step, cmd.version, FormatEnv(os, cmd.settings), Holds)

(* The command, or the child of the upgrade, ends with this.               *)
CommandEnds(code) ==
  /\ cmd' = NoCommand
  /\ IF up.phase = "child"
       THEN up' = [up EXCEPT !.phase = "finish", !.code = code] /\ UNCHANGED report
       ELSE /\ UNCHANGED up
            /\ Reports(IF code = "failed" THEN "failed"
                       ELSE IF cmd.kind = "install" THEN "installed" ELSE "uninstalled",
                       cmd.version, cmd.settings, <<>>)

Remembers == last' = IF up.phase = "child" THEN "upgrade" ELSE cmd.kind

StepDone ==
  /\ cmd.steps # <<>> /\ Remembers
  /\ \E h \in After(Head(cmd.steps)) :
       /\ m' = h
       /\ IF Watched(Head(cmd.steps), h)
            THEN cmd' = [cmd EXCEPT !.steps = Tail(@)] /\ UNCHANGED <<up, report>>
            ELSE CommandEnds("failed")
  /\ UNCHANGED <<os, stage, used>>

(* Steps of several calls, that may fail half-way.                         *)
Compound == {"mkdir", "config", "ensure dir", "register", "secure dir", "secure conf"}

StepFails ==
  /\ cmd.steps # <<>> /\ Remembers
  /\ LET step == Head(cmd.steps) IN
       /\ IF After(step) = {} THEN UNCHANGED used ELSE Faulty
       /\ m' \in {m} \cup (IF step \in Compound THEN After(step) ELSE {})
       /\ IF step = "reset-failed"
            THEN cmd' = [cmd EXCEPT !.steps = Tail(@)] /\ UNCHANGED <<up, report>>
            ELSE CommandEnds("failed")
  /\ UNCHANGED <<os, stage>>

AllDone ==
  /\ cmd.kind # "none" /\ cmd.steps = <<>>
  /\ CommandEnds("ok") /\ last' = (IF cmd.kind = "install" THEN "done" ELSE last)
  /\ UNCHANGED <<os, m, stage, used>>

-----------------------------------------------------------------------------
(* upgrade.                                                                *)

UpgradeBegins ==
  /\ Begins
  /\ \/ ~Present(m) /\ Says("refused") /\ UNCHANGED up
     \/ /\ Present(m) /\ UNCHANGED report
        /\ \E want \in Wants, mode \in {"run", "dry", "check"}, self \in BOOLEAN :
             /\ self => m.binary # None
             /\ up' = [NoUpgrade EXCEPT !.phase = "resolve", !.want = want, !.mode = mode,
                         !.self = self, !.before = Files(m)]
  /\ UNCHANGED <<os, m, stage, cmd, last>>

UpgradeSays(what) == up' = NoUpgrade /\ Says(what)

(* Mutant: the installed version, against the release.                     *)
ComparisonBackwards(release) == IF m.binary = None THEN 1 ELSE Compare(m.binary, release.version)

(* The release, against the version the installed program reports: one     *)
(* that does not report any is older than every release.                   *)
Comparison(release) == IF m.binary = None THEN 1 ELSE Compare(release.version, m.binary)

UpgradeResolves ==
  /\ up.phase = "resolve"
  /\ \E sums \in Sites :
       LET release == Resolve(sums, up.want, os)
           cmp == IF release = NoRelease THEN 0 ELSE Comparison(release)
       IN CASE release = NoRelease -> UpgradeSays("unchanged")
            [] release # NoRelease /\ cmp = 0 -> UpgradeSays("up to date")
            [] cmp < 0 /\ up.want = {} -> UpgradeSays("newer")
            [] OTHER -> IF up.mode = "check" THEN UpgradeSays("available")
                        ELSE up' = [up EXCEPT !.phase = "fetch", !.release = release] /\ UNCHANGED report
  /\ UNCHANGED <<os, m, stage, cmd, last, used>>

(* A new staging directory, after the leftovers are removed; the archive   *)
(* is loaded into it, verified and unpacked.                               *)
UpgradeFetches ==
  /\ up.phase = "fetch" /\ stage' = None
  /\ \/ Verified(up.release) /\ up' = [up EXCEPT !.phase = "hand over"] /\ UNCHANGED <<report, used>>
     \/ ~Verified(up.release) /\ UpgradeSays("unchanged") /\ UNCHANGED used
     \/ Faulty /\ UpgradeSays("unchanged")
  /\ UNCHANGED <<os, m, cmd, last>>

MovesAside == os = "windows" /\ up.self /\ up.mode = "run"

StepsAside ==
  /\ up.phase = "hand over"
  /\ \/ /\ ~MovesAside /\ up' = [up EXCEPT !.phase = "child"] /\ UNCHANGED <<m, stage, report, used>>
     \/ /\ MovesAside /\ up' = [up EXCEPT !.phase = "child"]
        /\ stage' = m.binary /\ m' = RemoveBinary(m) /\ UNCHANGED <<report, used>>
     \/ /\ MovesAside /\ Faulty /\ UpgradeSays("unchanged") /\ UNCHANGED <<m, stage>>
  /\ UNCHANGED <<os, cmd, last>>

ChildSays(code) == up' = [up EXCEPT !.phase = "finish", !.code = code] /\ UNCHANGED cmd

(* The downloaded program's own install, in the environment of the         *)
(* upgrade.                                                                *)
HandsOver ==
  /\ up.phase = "child" /\ cmd.kind = "none"
  /\ \/ Faulty /\ ChildSays("not run")
     \/ /\ UNCHANGED used
        /\ \E r \in {q \in Requests : ~q.replace} :
             \/ ChildSays("failed")
             \/ ~Refused(r) /\ up.mode = "dry" /\ ChildSays("ok")
             \/ /\ ~Refused(r) /\ up.mode = "run" /\ UNCHANGED up
                /\ \E v \in up.release.holds : cmd' = Plan(TRUE, v, r)
  /\ UNCHANGED <<os, m, stage, report, last>>

(* Mutant: the program that was moved aside is not put back.               *)
FinishWithoutRestore == UNCHANGED <<m, used>> /\ stage' = stage

(* The previous program is put back if the install left none; else it is   *)
(* removed at the next restart.                                            *)
Finish ==
  \/ /\ stage # None /\ m.binary = None
     /\ m' = WriteBinary(m, stage) /\ stage' = None /\ UNCHANGED used
  \/ (stage = None \/ m.binary # None) /\ UNCHANGED <<m, stage, used>>

Outcome == CASE up.code = "not run" -> "unchanged"
             [] up.code = "failed" -> "failed"
             [] OTHER -> IF up.mode = "dry" THEN "dry run" ELSE "upgraded"

UpgradeFinishes ==
  /\ up.phase = "finish" /\ up' = NoUpgrade
  /\ \/ Finish /\ Reports(Outcome, up.release.version, NoSettings, up.before)
     \/ stage # None /\ m.binary = None /\ Faulty /\ Says("lost") /\ UNCHANGED <<m, stage>>
  /\ UNCHANGED <<os, cmd, last>>

-----------------------------------------------------------------------------
(* Whatever else happens.                                                  *)

ServiceFails ==
  /\ Running(m)
  /\ m' = IF m.unit = "marked" THEN Halted(m)
          ELSE [m EXCEPT !.service = "retrying", !.program = None]
  /\ UNCHANGED <<os, stage, cmd, up, report, last, used>>

ServiceRestarts ==
  /\ m.service = "retrying" /\ m' \in {h \in Launched(m) : Running(h)}
  /\ UNCHANGED <<os, stage, cmd, up, report, last, used>>

AdminConfigures ==
  /\ m.dir /\ m.conf = "absent" /\ m' = [m EXCEPT !.conf = "admin"]
  /\ UNCHANGED <<os, stage, cmd, up, report, last, used>>

Interrupted ==
  /\ used.crashes < MaxCrashes /\ Spend("crashes")
  /\ cmd' = NoCommand /\ up' = NoUpgrade

Killed ==
  /\ ~Idle /\ Interrupted /\ Says("interrupted")
  /\ UNCHANGED <<os, m, stage, last>>

(* At boot the service manager knows the units there are and starts those  *)
(* enabled; Windows removes the programs that were moved aside, once       *)
(* Finish has asked for it.                                                *)
MachineRestarts ==
  /\ Interrupted
  /\ LET h == [Halted(m) EXCEPT !.loaded = (m.unit = "own")]
     IN m' \in (IF h.enabled /\ h.loaded THEN Launched(h) ELSE {h})
  /\ stage' \in {stage} \cup (IF Idle THEN {None} ELSE {})
  /\ IF Idle THEN UNCHANGED report ELSE Says("interrupted")
  /\ UNCHANGED <<os, last>>

Next ==
  \/ InstallBegins \/ UninstallBegins \/ StepDone \/ StepFails \/ AllDone
  \/ UpgradeBegins \/ UpgradeResolves \/ UpgradeFetches \/ StepsAside \/ HandsOver
  \/ UpgradeFinishes
  \/ ServiceFails \/ ServiceRestarts \/ AdminConfigures \/ Killed \/ MachineRestarts

Spec == Init /\ [][Next]_vars
-----------------------------------------------------------------------------
(* Properties.                                                             *)

(* A command that says it has installed or upgraded leaves the version it   *)
(* names installed, registered for every boot and up, with a configuration *)
(* directory and file nobody else can change, and stored settings that     *)
(* read back as the ones decided; on Linux a running service has them      *)
(* (cli/service.go:154, cli/upgrade.go:170).                               *)
InstalledWorks ==
  Idle /\ report.what \in {"installed", "upgraded"} =>
    /\ m.binary = report.version /\ m.unit = "own" /\ m.loaded /\ m.enabled
    /\ m.dir /\ m.conf # "absent" /\ m.loose = {}
    /\ m.service # "stopped"
    /\ report.what = "installed" => Stored = report.settings
    /\ Readable(Stored) /\ Precheck(Stored, Configured)
    /\ Running(m) => m.program = m.binary /\ (os = "linux" => m.using = m.env)

(* After "omnistat is uninstalled" there is no program, no registration,   *)
(* no token and nothing that runs (cli/service.go:237); but a Windows      *)
(* service that was being restarted when the uninstall looked may still    *)
(* run, marked for deletion.                                               *)
UninstalledIsGone ==
  Idle /\ report.what = "uninstalled" =>
    /\ m.binary = None
    /\ \/ /\ m.unit = "absent" /\ m.env = NoSettings
          /\ ~m.enabled /\ ~m.loaded /\ m.service = "stopped"
       \/ os = "windows" /\ m.unit = "marked" /\ Running(m)

(* An uninstall that failed or was interrupted is found and finished by    *)
(* the next one: as long as the token, or on Linux the program, is there,  *)
(* so is the unit (systemd/uninstall.go:10-12).                             *)
UninstallResumable ==
  last = "uninstall" /\ m.unit = "absent" =>
    m.env = NoSettings /\ (os = "linux" => m.binary = None)

(* "Nothing was changed": an upgrade that says so has left the program,     *)
(* the unit and the settings as it found them (cli/upgrade.go:123-161);    *)
(* only a unit it found marked for deletion may since have gone.           *)
UnchangedMeansUnchanged ==
  /\ Idle /\ report.what \in {"unchanged", "up to date", "newer", "available", "dry run"}
  /\ report.files[2] # "marked"
  => Files(m) = report.files

(* "Running upgrade again completes it, because the installed version is   *)
(* still the old one" (specs/features/009-upgrade/spec.md:309-310): an     *)
(* upgrade after an interrupted one does not find nothing to do while the  *)
(* service is down.                                                        *)
UpgradeAgainCompletes ==
  Idle /\ report.what = "up to date" /\ last = "upgrade" => m.service # "stopped"

-----------------------------------------------------------------------------
(* "So the service never loses its program" (upgrade/stepaside.go:39): an   *)
(* upgrade that was not killed leaves a program where it found one, unless *)
(* it says that putting it back failed.                                    *)
ProgramNeverLost ==
  [][(/\ up.phase # "none" /\ up'.phase = "none" /\ up.before[1] # None
      /\ report'.what \notin {"lost", "interrupted"}) => m'.binary # None]_vars

(* An install changes no stored setting that was not given or asked for,   *)
(* whatever characters it has: through the file and its quoting            *)
(* (service/settings.go:51-56, systemd/envfile.go).                        *)
SettingsKept ==
  [][cmd.kind = "install" /\ m.env # NoSettings /\ m'.env \notin {m.env, NoSettings} =>
       \A n \in Names \ cmd.asked : ParseEnv(os, m'.env)[n] = Stored[n]]_vars

Rank(v) == CHOOSE i \in DOMAIN Precedence : Precedence[i] = v

(* Without --version an upgrade only goes forward (cli/upgrade.go:100).     *)
NoSilentDowngrade ==
  [][up.phase = "child" /\ up.want = {} /\ m'.binary \notin {m.binary, None} =>
       up.before[1] = None \/ Rank(m'.binary) > Rank(up.before[1])]_vars

-----------------------------------------------------------------------------
(* What the theorems suppose of the versions and of the settings.          *)

(* Precedence lists the versions in the order in which Compare has them.   *)
PrecedenceIsCompare ==
  \A v, w \in Versions :
    Rank(v) \in Int /\ Precedence[Rank(v)] = v /\ Compare(v, w) = cmpInt(Rank(v), Rank(w))

(* The values settings have and the texts that store them: every value     *)
(* that can be written reads back as itself.                               *)
ReadsBack(Values, Texts) ==
  /\ None \notin Values \cup Texts /\ Unreadable \notin Values \cup Texts \cup {None}
  /\ \A v \in Values : FormatValue(v) # Unreadable =>
       FormatValue(v) \in Texts /\ ParseValue(FormatValue(v)) = v
  /\ \A t \in Texts : ParseValue(t) \in Values \cup {Unreadable}
  /\ \A h \in Hosts : h.env \in [Names -> (Values \cap Texts) \cup {None}]
  /\ \A r \in Requests :
       r.given \in [Names -> Values \cup {None}] /\ r.typed \in [Names -> Values \cup {None}]
=============================================================================
