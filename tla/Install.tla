------------------------------ MODULE Install ------------------------------
(***************************************************************************)
(* What "service install" and "service uninstall" decide before they       *)
(* change anything: the settings to store (src/internal/service) and the   *)
(* list of steps (src/internal/systemd, src/internal/winsvc), and what a    *)
(* step does to the host.                                                  *)
(***************************************************************************)
EXTENDS Host

(* The settings a service has.                                             *)
ParseEnv(system, env) ==
  [n \in Names |-> IF env[n] = None THEN None
                   ELSE IF system = "linux" THEN ParseValue(env[n]) ELSE env[n]]
FormatEnv(system, settings) ==
  [n \in Names |-> IF settings[n] = None THEN None
                   ELSE IF system = "linux" THEN FormatValue(settings[n]) ELSE settings[n]]
Readable(env) == \A n \in Names : env[n] # Unreadable

(* Mutant: what is not given again is forgotten.                           *)
MergedAnew(stored, given) == [n \in Names |-> given[n]]

(* A setting of the environment replaces the stored one.                   *)
Merged(stored, given) == [n \in Names |-> IF given[n] # None THEN given[n] ELSE stored[n]]

(* The project is asked for when neither the settings nor the              *)
(* configuration has it, and may stay unset; typed has the answers, None   *)
(* for a missing terminal or an empty line.                                *)
WithProject(settings, typed, configured) ==
  IF settings["project"] # None \/ configured THEN settings
  ELSE [settings EXCEPT !["project"] = typed["project"]]

AsksToken(settings, given, replace) ==
  given["token"] = None /\ (replace \/ settings["token"] = None)

ResolveSettings(stored, given, typed, replace, configured) ==
  LET settings == WithProject(Merged(stored, given), typed, configured)
  IN IF AsksToken(settings, given, replace)
       THEN [settings EXCEPT !["token"] = typed["token"]] ELSE settings

(* The pre-check: a token and a project, and what the platform says.       *)
Precheck(settings, configured) ==
  settings["token"] # None /\ (settings["project"] # None \/ configured)

-----------------------------------------------------------------------------
If(condition, steps) == IF condition THEN steps ELSE <<>>

(* Active: running, or on its way to.                                      *)
Active(h) == h.service # "stopped"

LinuxConfig(h) ==
  If(~h.dir, <<"mkdir">>) \o If(h.dir /\ "dir" \in h.loose, <<"secure dir">>) \o
  If(h.conf = "absent", <<"config">>) \o If(h.conf # "absent" /\ "conf" \in h.loose, <<"secure conf">>)

(* Mutant: systemd loads its units before the unit is written.             *)
LinuxInstallReloadFirst(h, elsewhere) ==
  If(h.unit = "own" /\ Active(h), <<"stop">>) \o If(elsewhere, <<"binary">>) \o LinuxConfig(h) \o
  <<"env", "reload", "unit", "enable", "start">>

LinuxInstall(h, elsewhere) ==
  If(h.unit = "own" /\ Active(h), <<"stop">>) \o If(elsewhere, <<"binary">>) \o LinuxConfig(h) \o
  <<"env", "unit", "reload", "enable", "start">>

(* Mutant: the service manager is not told that the unit is gone.          *)
LinuxUninstallUntold(h) ==
  If(Active(h), <<"stop">>) \o
  <<"disable", "reset-failed", "remove env", "remove binary", "remove unit">>

(* Mutant: the unit goes before the settings and the program.              *)
LinuxUninstallUnitFirst(h) ==
  If(Active(h), <<"stop">>) \o
  <<"disable", "reset-failed", "remove unit", "remove env", "remove binary", "reload">>

LinuxUninstall(h) ==
  If(Active(h), <<"stop">>) \o
  <<"disable", "reset-failed", "remove env", "remove binary", "remove unit", "reload">>

(* To the Windows service manager a service that waits for its restart is  *)
(* stopped.                                                                *)
WindowsInstall(h, elsewhere) ==
  If(Present(h) /\ Running(h), <<"stop">>) \o If(elsewhere, <<"binary">>) \o
  <<"ensure dir">> \o If(h.conf = "absent", <<"config">>) \o
  <<"register", "env", "source", "start">>

WindowsUninstall(h) ==
  If(Running(h), <<"stop">>) \o <<"delete", "remove source", "remove binary">>

-----------------------------------------------------------------------------
(* The hosts a step leads to; none if it cannot be done.                   *)
LinuxStep(h, step, version, env) ==
  CASE step = "binary" -> {WriteBinary(h, version)}
    [] step = "mkdir" -> {MkdirAll(h)}
    [] step = "secure dir" -> {Secure(h, "dir")}
    [] step = "secure conf" -> {Secure(h, "conf")}
    [] step = "config" -> {CreateFile(h)}
    [] step = "env" -> {WriteEnv(h, env)}
    [] step = "unit" -> {WriteUnit(h)}
    [] step = "remove env" -> {Remove(h, "env")}
    [] step = "remove binary" -> {Remove(h, "binary")}
    [] step = "remove unit" -> {Remove(h, "unit")}
    [] step = "reload" -> Systemctl(h, "daemon-reload")
    [] OTHER -> Systemctl(h, step)

WindowsStep(h, step, version, env, held) ==
  CASE step = "stop" -> {WinStop(h)}
    [] step = "binary" -> CopyBinary(h, version, held)
    [] step = "ensure dir" -> {EnsureConfigDir(h)}
    [] step = "config" -> {CreateFile(h)}
    [] step = "register" -> Register(h)
    [] step = "env" -> IF h.unit = "absent" THEN {} ELSE {StoreEnv(h, env)}
    [] step = "source" -> {EventSource(h, TRUE)}
    [] step = "start" -> WinStart(h)
    [] step = "delete" -> {Delete(h)}
    [] step = "remove source" -> {EventSource(h, FALSE)}
    [] step = "remove binary" -> {RemoveBinary(h)}

(* Watch: the service has to be up when the start is over.                 *)
Watched(step, h) == step = "start" => Running(h)
=============================================================================
