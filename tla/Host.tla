-------------------------------- MODULE Host --------------------------------
(***************************************************************************)
(* The host as installing sees it: its files, its service manager and what *)
(* each call into them does (src/internal/systemd/host_linux.go,           *)
(* src/internal/winsvc/host_windows.go, with systemd as                    *)
(* src/internal/systemd/fakehost has it).  An operator takes the host h    *)
(* and returns the host after the call.                                    *)
(***************************************************************************)
EXTENDS EnvFile

CONSTANTS
  None,      \* no program, no setting
  Versions   \* the versions of the program

Names == {"token", "project"}
NoSettings == [n \in Names |-> None]

(* A host on which omnistat was never installed.                           *)
Fresh ==
  [binary |-> None,          \* the program at the installed path
   unit |-> "absent",        \* the unit file, or the registration: "own", "foreign",
                             \* "marked" for deletion when it stops (Windows)
   env |-> NoSettings,       \* the stored settings, as their file has them
   dir |-> FALSE,            \* the configuration directory exists
   conf |-> "absent",        \* the configuration file: "starter", "admin"
   loose |-> {},             \* those of "dir", "conf" others could change
   loaded |-> FALSE,         \* the service manager knows the unit
   enabled |-> FALSE,        \* ... and starts it at boot
   service |-> "stopped",    \* "running", "retrying"
   program |-> None,         \* what runs
   using |-> NoSettings,     \* the settings it was started with
   source |-> FALSE]         \* the event source is registered

Running(h) == h.service = "running"
Present(h) == h.unit \in {"own", "marked"}

-----------------------------------------------------------------------------
(* Files.  WriteFile writes beside the file and renames over it, so there  *)
(* is the old content or the new one.                                      *)
WriteBinary(h, v) == [h EXCEPT !.binary = v]
WriteEnv(h, text) == [h EXCEPT !.env = text]
WriteUnit(h) == [h EXCEPT !.unit = "own"]

(* O_EXCL: a file that appeared meanwhile is left as it is.                *)
CreateFile(h) == IF h.conf = "absent" THEN [h EXCEPT !.conf = "starter"] ELSE h
MkdirAll(h) == [h EXCEPT !.dir = TRUE]
Secure(h, what) == [h EXCEPT !.loose = @ \ {what}]
Remove(h, what) ==
  CASE what = "env" -> [h EXCEPT !.env = NoSettings]
    [] what = "binary" -> [h EXCEPT !.binary = None]
    [] what = "unit" -> [h EXCEPT !.unit = "absent"]

(* A program started without its file or its settings fails, and any may;  *)
(* the service manager then keeps trying.                                  *)
Launched(h) ==
  {[h EXCEPT !.service = "retrying", !.program = None]} \cup
  (IF h.binary = None \/ h.env = NoSettings \/ h.unit # "own" THEN {}
   ELSE {[h EXCEPT !.service = "running", !.program = h.binary, !.using = h.env]})

(* The registration and the settings stored with it.                       *)
Unregistered(h) ==
  [h EXCEPT !.unit = "absent", !.env = NoSettings, !.loaded = FALSE, !.enabled = FALSE]

Halted(h) ==
  LET g == IF h.unit = "marked" THEN Unregistered(h) ELSE h
  IN [g EXCEPT !.service = "stopped", !.program = None]

(* systemctl, by its verb: the hosts it may lead to.                       *)
Systemctl(h, verb) ==
  CASE verb = "stop" -> {Halted(h)}
    [] verb = "daemon-reload" -> {[h EXCEPT !.loaded = (h.unit = "own")]}
    [] verb = "enable" -> {[h EXCEPT !.enabled = TRUE]}
    [] verb = "disable" -> {[h EXCEPT !.enabled = FALSE]}
    [] verb = "reset-failed" -> {h}
    [] verb = "start" -> IF Running(h) THEN {h} ELSE Launched(h)

-----------------------------------------------------------------------------
(* Windows.  A program that runs cannot be replaced or deleted, only       *)
(* renamed; held says whether another process runs from the path.          *)
CopyBinary(h, v, held) ==
  IF h.binary # None /\ (Running(h) \/ held) THEN {} ELSE {WriteBinary(h, v)}

(* Removed, or moved aside and removed at the next restart.                *)
RemoveBinary(h) == [h EXCEPT !.binary = None]

EnsureConfigDir(h) == [h EXCEPT !.dir = TRUE, !.loose = {}]

(* A service that does not run is left as it is, its pending restart too.  *)
WinStop(h) == IF Running(h) THEN Halted(h) ELSE h

(* The service is created or updated, with its start at boot.              *)
Register(h) ==
  IF h.unit = "marked" THEN {} ELSE {[h EXCEPT !.unit = "own", !.loaded = TRUE, !.enabled = TRUE]}

StoreEnv(h, text) == WriteEnv(h, text)
EventSource(h, install) == [h EXCEPT !.source = install]

(* A service that runs already is not an error.                            *)
WinStart(h) == IF h.unit = "absent" THEN {} ELSE IF Running(h) THEN {h} ELSE Launched(h)

(* A service that runs is only marked, and goes when it stops.             *)
Delete(h) == IF Running(h) THEN [h EXCEPT !.unit = "marked"] ELSE Halted(Unregistered(h))
=============================================================================
