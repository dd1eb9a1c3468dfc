--------------------------- MODULE MachineProofs ---------------------------
(***************************************************************************)
(* What Machine promises for any hosts, requests, releases and numbers of  *)
(* commands, failed steps, kills and restarts, proved with TLAPS.          *)
(***************************************************************************)
EXTENDS Machine, SequenceTheorems, TLAPS

HostFields ==
  {"binary", "unit", "env", "dir", "conf", "loose", "loaded", "enabled", "service", "program", "using", "source"}
IsHost(h) == DOMAIN h = HostFields

LinuxInstallSteps ==
  {"stop", "binary", "mkdir", "secure dir", "config", "secure conf", "env", "unit", "reload", "enable", "start"}
WindowsInstallSteps ==
  {"stop", "binary", "ensure dir", "config", "register", "env", "source", "start"}
InstallSteps == IF os = "linux" THEN LinuxInstallSteps ELSE WindowsInstallSteps

(* The steps of an uninstall; one of a service that does not run leaves    *)
(* out the first.                                                          *)
LinuxRemoval == <<"stop", "disable", "reset-failed", "remove env", "remove binary", "remove unit", "reload">>
WindowsRemoval == <<"stop", "delete", "remove source", "remove binary">>
Removal == IF os = "linux" THEN LinuxRemoval ELSE WindowsRemoval

RemovalSteps ==
  {"stop", "disable", "reset-failed", "remove env", "remove binary", "remove unit", "reload", "delete", "remove source"}

(* The last steps of a plan. *)
Ends(steps, plan) ==
  /\ steps \in Seq(RemovalSteps) /\ Len(steps) <= Len(plan)
  /\ \A i \in 1 .. Len(steps) : steps[i] = plan[Len(plan) - Len(steps) + i]

-----------------------------------------------------------------------------
(* What each call leads to.                                                *)

(* A deleted service, or one that is as soon as it stops.                  *)
Gone(h) == h.unit = "absent" /\ h.env = NoSettings /\ ~h.enabled /\ ~h.loaded /\ h.service = "stopped"

(* Halting a service finishes its deletion, and changes nothing but what   *)
(* runs otherwise.                                                         *)
LEMMA HaltedFacts ==
  ASSUME NEW h, IsHost(h)
  PROVE  LET g == Halted(h) IN
         /\ IsHost(g)
         /\ g.binary = h.binary /\ g.dir = h.dir /\ g.conf = h.conf /\ g.loose = h.loose /\ g.source = h.source
         /\ g.service = "stopped" /\ g.program = None /\ g.using = h.using
         /\ h.unit = "marked" => Gone(g)
         /\ h.unit # "marked" =>
              g.unit = h.unit /\ g.env = h.env /\ g.enabled = h.enabled /\ g.loaded = h.loaded
<1>1. CASE h.unit = "marked"
  BY <1>1 DEF Halted, Unregistered, IsHost, HostFields, Gone
<1>2. CASE h.unit # "marked"
  BY <1>2 DEF Halted, IsHost, HostFields
<1> QED
  BY <1>1, <1>2

LEMMA LaunchedFacts ==
  ASSUME NEW h, IsHost(h), NEW g \in Launched(h)
  PROVE  /\ IsHost(g)
         /\ g.binary = h.binary /\ g.dir = h.dir /\ g.conf = h.conf /\ g.loose = h.loose /\ g.source = h.source
         /\ g.unit = h.unit /\ g.env = h.env /\ g.enabled = h.enabled /\ g.loaded = h.loaded
         /\ \/ g.service = "retrying" /\ g.program = None
            \/ /\ g.service = "running" /\ g.program = h.binary /\ g.using = h.env
               /\ h.binary # None /\ h.unit = "own"
<1>1. CASE g = [h EXCEPT !.service = "retrying", !.program = None]
  BY <1>1 DEF IsHost, HostFields
<1>2. CASE g = [h EXCEPT !.service = "running", !.program = h.binary, !.using = h.env] /\ h.binary # None /\ h.unit = "own"
  BY <1>2 DEF IsHost, HostFields
<1> QED
  BY <1>1, <1>2 DEF Launched

LEMMA LinuxInstallStep ==
  ASSUME NEW h, IsHost(h), h.unit # "marked", NEW step \in LinuxInstallSteps, NEW v, NEW e,
         NEW g \in LinuxStep(h, step, v, e)
  PROVE  /\ IsHost(g) /\ g.unit # "marked"
         /\ g.binary = h.binary \/ (step = "binary" /\ g.binary = v)
<1>1. CASE step = "stop"
  BY <1>1, HaltedFacts DEF LinuxStep, Systemctl, Remove
<1>2. CASE step = "start"
  <2>1. CASE Running(h)
    BY <1>2, <2>1 DEF LinuxStep, Systemctl, Remove
  <2>2. CASE ~Running(h)
    BY <1>2, <2>2, LaunchedFacts DEF LinuxStep, Systemctl, Remove
  <2> QED
    BY <2>1, <2>2
<1>3. CASE step \in {"binary", "mkdir", "secure dir", "config"}
  BY <1>3 DEF LinuxStep, Systemctl, Remove, WriteBinary, MkdirAll, Secure, CreateFile, IsHost, HostFields
<1>4. CASE step \in {"secure conf", "env", "unit", "reload", "enable"}
  BY <1>4 DEF LinuxStep, Systemctl, Remove, Secure, WriteEnv, WriteUnit, IsHost, HostFields
<1> QED
  BY <1>1, <1>2, <1>3, <1>4 DEF LinuxInstallSteps

LEMMA WindowsInstallStep ==
  ASSUME NEW h, IsHost(h), h.unit = "marked" => Running(h), NEW step \in WindowsInstallSteps, NEW v, NEW e, NEW held,
         NEW g \in WindowsStep(h, step, v, e, held)
  PROVE  /\ IsHost(g) /\ (g.unit = "marked" => Running(g))
         /\ g.binary = h.binary \/ (step = "binary" /\ g.binary = v)
<1>1. CASE step = "stop"
  BY <1>1, HaltedFacts DEF WindowsStep, WinStop, StoreEnv, EventSource, Gone
<1>2. CASE step = "start"
  <2>1. CASE Running(h)
    BY <1>2, <2>1 DEF WindowsStep, StoreEnv, EventSource, WinStart
  <2>2. CASE ~Running(h)
    BY <1>2, <2>2, LaunchedFacts DEF WindowsStep, StoreEnv, EventSource, WinStart
  <2> QED
    BY <2>1, <2>2
<1>3. CASE step \in {"binary", "ensure dir", "config"}
  BY <1>3 DEF WindowsStep, StoreEnv, EventSource, CopyBinary, WriteBinary, EnsureConfigDir, CreateFile, IsHost, HostFields, Running
<1>4. CASE step \in {"register", "env", "source"}
  BY <1>4 DEF WindowsStep, StoreEnv, EventSource, Register, WriteEnv, IsHost, HostFields, Running
<1> QED
  BY <1>1, <1>2, <1>3, <1>4 DEF WindowsInstallSteps

(* What the uninstall does to the host, step by step. *)
LEMMA LinuxRemovalStep ==
  ASSUME NEW h, IsHost(h), h.unit # "marked", NEW i \in 1 .. 7, NEW v, NEW e,
         NEW g \in LinuxStep(h, LinuxRemoval[i], v, e)
  PROVE  /\ IsHost(g) /\ g.unit # "marked"
         /\ g.unit = (IF i = 6 THEN "absent" ELSE h.unit)
         /\ g.env = (IF i = 4 THEN NoSettings ELSE h.env)
         /\ g.binary = (IF i = 5 THEN None ELSE h.binary)
         /\ g.service = (IF i = 1 THEN "stopped" ELSE h.service)
         /\ i = 2 \/ ~h.enabled => ~g.enabled
         /\ i = 7 /\ h.unit # "own" => ~g.loaded
<1> USE DEF LinuxStep, Systemctl, Remove, LinuxRemoval
<1>1. CASE i = 1
  BY <1>1, HaltedFacts
<1>2. CASE i = 2
  BY <1>2 DEF IsHost, HostFields
<1>3. CASE i = 3
  BY <1>3
<1>4. CASE i = 4
  BY <1>4 DEF IsHost, HostFields
<1>5. CASE i = 5
  BY <1>5 DEF IsHost, HostFields
<1>6. CASE i = 6
  BY <1>6 DEF IsHost, HostFields
<1>7. CASE i = 7
  <2>1. g = [h EXCEPT !.loaded = (h.unit = "own")]
    BY <1>7
  <2>2. "loaded" \in DOMAIN h
    BY DEF IsHost, HostFields
  <2>3. g.loaded = (h.unit = "own")
    BY <2>1, <2>2, Zenon
  <2>4. h.unit # "own" => ~g.loaded
    BY <2>3, Zenon
  <2>5. /\ IsHost(g) /\ g.unit = h.unit /\ g.env = h.env /\ g.binary = h.binary /\ g.service = h.service
        /\ g.enabled = h.enabled
    BY <2>1 DEF IsHost, HostFields
  <2> HIDE DEF LinuxStep, Systemctl, Remove, LinuxRemoval
  <2> QED
    BY <1>7, <2>4, <2>5
<1> HIDE DEF LinuxStep, Systemctl, Remove, LinuxRemoval
<1> QED
  BY <1>1, <1>2, <1>3, <1>4, <1>5, <1>6, <1>7

LEMMA DeleteFacts ==
  ASSUME NEW h, IsHost(h), h.unit = "marked" => Running(h)
  PROVE  LET g == Delete(h) IN
         /\ IsHost(g) /\ g.binary = h.binary
         /\ Gone(g) \/ (g.unit = "marked" /\ Running(g))
<1>1. CASE Running(h)
  BY <1>1 DEF Delete, IsHost, HostFields, Running
<1>2. CASE ~Running(h)
  <2>1. /\ IsHost(Unregistered(h)) /\ Unregistered(h).unit = "absent" /\ Unregistered(h).env = NoSettings
        /\ ~Unregistered(h).enabled /\ ~Unregistered(h).loaded /\ Unregistered(h).binary = h.binary
    BY DEF Unregistered, IsHost, HostFields
  <2>2. LET g == Halted(Unregistered(h)) IN IsHost(g) /\ g.binary = h.binary /\ Gone(g)
    BY <2>1, HaltedFacts DEF Gone
  <2>3. Delete(h) = Halted(Unregistered(h))
    BY <1>2 DEF Delete
  <2> QED
    BY <2>2, <2>3
<1> QED
  BY <1>1, <1>2

LEMMA WindowsRemovalStep ==
  ASSUME NEW h, IsHost(h), h.unit = "marked" => Running(h), NEW i \in 1 .. 4, NEW v, NEW e, NEW held,
         NEW g \in WindowsStep(h, WindowsRemoval[i], v, e, held)
  PROVE  /\ IsHost(g) /\ (g.unit = "marked" => Running(g))
         /\ g.unit = h.unit \/ g.unit = "marked" \/ Gone(g)
         /\ g.unit = h.unit => g.env = h.env \/ Gone(g)
         /\ i = 2 => Gone(g) \/ (g.unit = "marked" /\ Running(g))
         /\ Gone(h) => Gone(g)
         /\ i \in 3 .. 4 => g.unit = h.unit /\ g.service = h.service
         /\ g.binary = (IF i = 4 THEN None ELSE h.binary)
<1> USE DEF WindowsStep, StoreEnv, EventSource, WindowsRemoval
<1>1. CASE i = 1
  BY <1>1, HaltedFacts DEF WinStop, Gone
<1>2. CASE i = 2
  <2>1. g = Delete(h)
    BY <1>2
  <2>2. Gone(h) => Gone(g)
    BY <2>1, DeleteFacts DEF Gone, Delete, Running, Unregistered, Halted, IsHost, HostFields
  <2>3. g.unit = h.unit => g.env = h.env \/ Gone(g)
    <3>1. CASE Running(h)
      BY <2>1, <3>1 DEF Delete, IsHost, HostFields
    <3>2. CASE ~Running(h)
      <4>1. g.unit = "marked" => FALSE
        <5>1. IsHost(Unregistered(h)) /\ Unregistered(h).unit = "absent"
          BY DEF Unregistered, IsHost, HostFields
        <5> QED
          BY <2>1, <3>2, <5>1, HaltedFacts DEF Delete
      <4> QED
        BY <2>1, <4>1, DeleteFacts
    <3> QED
      BY <3>1, <3>2
  <2>4. /\ IsHost(g) /\ g.binary = h.binary
        /\ Gone(g) \/ (g.unit = "marked" /\ Running(g))
    BY <2>1, DeleteFacts
  <2>5. Gone(g) => g.unit = "absent"
    BY DEF Gone
  <2> HIDE DEF WindowsStep, StoreEnv, EventSource, WindowsRemoval
  <2> QED
    BY <1>2, <2>2, <2>3, <2>4, <2>5
<1>3. CASE i = 3
  BY <1>3 DEF IsHost, HostFields, Running, Gone
<1>4. CASE i = 4
  BY <1>4 DEF IsHost, HostFields, Running, Gone, RemoveBinary
<1> HIDE DEF WindowsStep, StoreEnv, EventSource, WindowsRemoval
<1> QED
  BY <1>1, <1>2, <1>3, <1>4

-----------------------------------------------------------------------------
(* The plans.                                                              *)

LEMMA EndsTail ==
  ASSUME NEW plan, plan \in Seq(RemovalSteps), NEW steps, Ends(steps, plan), steps # <<>>
  PROVE  /\ Len(steps) \in Nat /\ Len(steps) \in 1 .. Len(plan)
         /\ Head(steps) = plan[Len(plan) - Len(steps) + 1]
         /\ Ends(Tail(steps), plan) /\ Len(Tail(steps)) = Len(steps) - 1
<1>1. steps \in Seq(RemovalSteps) /\ Len(steps) <= Len(plan) /\ Len(plan) \in Nat
  BY LenProperties DEF Ends
<1>2. Len(steps) \in Nat /\ Len(steps) \in 1 .. Len(plan)
  BY <1>1, EmptySeq, LenProperties
<1>3. Head(steps) = steps[1]
  BY <1>1, <1>2
<1>4. /\ Tail(steps) \in Seq(RemovalSteps) /\ Len(Tail(steps)) = Len(steps) - 1
      /\ \A i \in 1 .. Len(steps) - 1 : Tail(steps)[i] = steps[i + 1]
  BY <1>1, HeadTailProperties
<1>5. ASSUME NEW i \in 1 .. Len(Tail(steps))
      PROVE  Tail(steps)[i] = plan[Len(plan) - Len(Tail(steps)) + i]
  <2>1. i + 1 \in 1 .. Len(steps) /\ Len(plan) - Len(steps) + (i + 1) = Len(plan) - Len(Tail(steps)) + i
    BY <1>1, <1>2, <1>4
  <2> QED
    BY <1>2, <1>4, <2>1 DEF Ends
<1>6. Ends(Tail(steps), plan)
  BY <1>1, <1>2, <1>4, <1>5 DEF Ends
<1> QED
  BY <1>2, <1>3, <1>4, <1>6 DEF Ends

LEMMA LinuxInstallPlan ==
  ASSUME NEW h, NEW elsewhere \in BOOLEAN
  PROVE  LinuxInstall(h, elsewhere) \in Seq(LinuxInstallSteps)
<1>1. <<>> \in Seq(LinuxInstallSteps)
  OBVIOUS
<1>2. /\ <<"stop">> \in Seq(LinuxInstallSteps) /\ <<"binary">> \in Seq(LinuxInstallSteps)
      /\ <<"mkdir">> \in Seq(LinuxInstallSteps) /\ <<"secure dir">> \in Seq(LinuxInstallSteps)
      /\ <<"config">> \in Seq(LinuxInstallSteps) /\ <<"secure conf">> \in Seq(LinuxInstallSteps)
      /\ <<"env", "unit", "reload", "enable", "start">> \in Seq(LinuxInstallSteps)
  BY DEF LinuxInstallSteps
<1>3. \A c, p : p \in Seq(LinuxInstallSteps) => If(c, p) \in Seq(LinuxInstallSteps)
  BY <1>1 DEF If
<1>4. \A p, q \in Seq(LinuxInstallSteps) : p \o q \in Seq(LinuxInstallSteps)
  BY ConcatProperties
<1>5. LinuxConfig(h) \in Seq(LinuxInstallSteps)
  BY <1>2, <1>3, <1>4 DEF LinuxConfig
<1> QED
  BY <1>2, <1>3, <1>4, <1>5 DEF LinuxInstall

LEMMA WindowsInstallPlan ==
  ASSUME NEW h, NEW elsewhere \in BOOLEAN
  PROVE  WindowsInstall(h, elsewhere) \in Seq(WindowsInstallSteps)
<1>1. <<>> \in Seq(WindowsInstallSteps)
  OBVIOUS
<1>2. /\ <<"stop">> \in Seq(WindowsInstallSteps) /\ <<"binary">> \in Seq(WindowsInstallSteps)
      /\ <<"ensure dir">> \in Seq(WindowsInstallSteps) /\ <<"config">> \in Seq(WindowsInstallSteps)
      /\ <<"register", "env", "source", "start">> \in Seq(WindowsInstallSteps)
  BY DEF WindowsInstallSteps
<1>3. \A c, p : p \in Seq(WindowsInstallSteps) => If(c, p) \in Seq(WindowsInstallSteps)
  BY <1>1 DEF If
<1>4. \A p, q \in Seq(WindowsInstallSteps) : p \o q \in Seq(WindowsInstallSteps)
  BY ConcatProperties
<1> QED
  BY <1>2, <1>3, <1>4 DEF WindowsInstall

LEMMA LinuxPlanFacts == Len(LinuxRemoval) = 7 /\ LinuxRemoval \in Seq(RemovalSteps)
  BY DEF LinuxRemoval, RemovalSteps

LEMMA WindowsPlanFacts == Len(WindowsRemoval) = 4 /\ WindowsRemoval \in Seq(RemovalSteps)
  BY DEF WindowsRemoval, RemovalSteps

(* The uninstall leaves its stop out when there is nothing to stop.        *)
LinuxRest == <<"disable", "reset-failed", "remove env", "remove binary", "remove unit", "reload">>
WindowsRest == <<"delete", "remove source", "remove binary">>

LEMMA StopAlone == <<"stop">> \in Seq(RemovalSteps)
<1>1. "stop" \in RemovalSteps
  BY DEF RemovalSteps
<1> QED
  BY <1>1

LEMMA StopFirst ==
  ASSUME NEW plan \in Seq(RemovalSteps), NEW rest \in Seq(RemovalSteps), Len(plan) = Len(rest) + 1, plan[1] = "stop",
         \A i \in 1 .. Len(rest) : rest[i] = plan[i + 1], NEW c
  PROVE  /\ Ends(If(c, <<"stop">>) \o rest, plan)
         /\ Len(If(c, <<"stop">>) \o rest) = IF c THEN Len(plan) ELSE Len(plan) - 1
<1>1. Len(rest) \in Nat /\ Len(plan) \in Nat
  BY LenProperties
<1>2. CASE c
  <2>0. <<"stop">> \in Seq(RemovalSteps)
    BY StopAlone
  <2>00. Len(<<"stop">>) = 1 /\ <<"stop">>[1] = "stop"
    OBVIOUS
  <2>1. <<"stop">> \in Seq(RemovalSteps) /\ Len(<<"stop">>) = 1 /\ <<"stop">>[1] = "stop"
    BY <2>0, <2>00
  <2>2. /\ <<"stop">> \o rest \in Seq(RemovalSteps) /\ Len(<<"stop">> \o rest) = 1 + Len(rest)
        /\ \A i \in 1 .. 1 + Len(rest) : (<<"stop">> \o rest)[i] = IF i <= 1 THEN <<"stop">>[i] ELSE rest[i - 1]
    BY <2>1, ConcatProperties
  <2>3. ASSUME NEW i \in 1 .. 1 + Len(rest) PROVE (<<"stop">> \o rest)[i] = plan[i]
    <3>1. CASE i = 1
      BY <1>1, <2>1, <2>2, <3>1
    <3>2. CASE i # 1
      <4>1. i - 1 \in 1 .. Len(rest) /\ (i - 1) + 1 = i /\ ~(i <= 1)
        BY <1>1, <3>2
      <4> QED
        BY <2>2, <4>1
    <3> QED
      BY <3>1, <3>2
  <2>4. \A i \in 1 .. Len(<<"stop">> \o rest) :
           /\ i \in 1 .. 1 + Len(rest)
           /\ Len(plan) - Len(<<"stop">> \o rest) + i = i
    BY <1>1, <2>2
  <2>5. If(c, <<"stop">>) \o rest = <<"stop">> \o rest
    BY <1>2 DEF If
  <2>6. Ends(<<"stop">> \o rest, plan)
    <3> DEFINE all == <<"stop">> \o rest
    <3>1. all \in Seq(RemovalSteps) /\ Len(all) <= Len(plan)
      BY <1>1, <2>2
    <3>2. \A i \in 1 .. Len(all) : all[i] = plan[Len(plan) - Len(all) + i]
      BY <2>3, <2>4
    <3> HIDE DEF all
    <3>3. Ends(all, plan)
      BY <3>1, <3>2 DEF Ends
    <3> QED
      BY <3>3 DEF all
  <2>7. Len(<<"stop">> \o rest) = Len(plan)
    BY <1>1, <2>2
  <2> QED
    BY <1>2, <2>5, <2>6, <2>7
<1>3. CASE ~c
  <2>1. If(c, <<"stop">>) \o rest = rest
    BY <1>3, ConcatEmptySeq DEF If
  <2>2. \A i \in 1 .. Len(rest) : Len(plan) - Len(rest) + i = i + 1
    BY <1>1
  <2>3. Ends(rest, plan)
    BY <1>1, <2>2 DEF Ends
  <2>4. Len(rest) = Len(plan) - 1
    BY <1>1
  <2> QED
    BY <1>3, <2>1, <2>3, <2>4
<1> QED
  BY <1>2, <1>3

LEMMA LinuxUninstallPlan ==
  ASSUME NEW h
  PROVE  /\ Ends(LinuxUninstall(h), LinuxRemoval)
         /\ Len(LinuxUninstall(h)) = IF Active(h) THEN 7 ELSE 6
<1>1. LinuxRemoval \in Seq(RemovalSteps) /\ LinuxRest \in Seq(RemovalSteps)
  BY DEF LinuxRest, LinuxRemoval, RemovalSteps
<1>3. Len(LinuxRemoval) = 7 /\ Len(LinuxRest) = 6 /\ LinuxRemoval[1] = "stop"
  BY DEF LinuxRest, LinuxRemoval
<1>4. \A i \in 1 .. Len(LinuxRest) : LinuxRest[i] = LinuxRemoval[i + 1]
  <2>1. /\ LinuxRest[1] = LinuxRemoval[2]
        /\ LinuxRest[2] = LinuxRemoval[3]
        /\ LinuxRest[3] = LinuxRemoval[4]
        /\ LinuxRest[4] = LinuxRemoval[5]
        /\ LinuxRest[5] = LinuxRemoval[6]
        /\ LinuxRest[6] = LinuxRemoval[7]
    BY DEF LinuxRest, LinuxRemoval
  <2>2. \A i \in 1 .. 6 : LinuxRest[i] = LinuxRemoval[i + 1]
    <3> SUFFICES ASSUME NEW i \in 1 .. 6 PROVE LinuxRest[i] = LinuxRemoval[i + 1]
      OBVIOUS
    <3>1. i = 1 \/ i = 2 \/ i = 3 \/ i = 4 \/ i = 5 \/ i = 6
      OBVIOUS
    <3> QED
      BY <2>1, <3>1
  <2> QED
    BY <1>3, <2>2
<1>5. Len(LinuxRemoval) = Len(LinuxRest) + 1
  BY <1>3
<1>2. LinuxUninstall(h) = If(Active(h), <<"stop">>) \o LinuxRest
  BY DEF LinuxUninstall, LinuxRest
<1>6. /\ Ends(If(Active(h), <<"stop">>) \o LinuxRest, LinuxRemoval)
      /\ Len(If(Active(h), <<"stop">>) \o LinuxRest) = IF Active(h) THEN Len(LinuxRemoval) ELSE Len(LinuxRemoval) - 1
  BY <1>1, <1>3, <1>4, <1>5, StopFirst
<1> QED
  BY <1>2, <1>3, <1>6

LEMMA WindowsUninstallPlan ==
  ASSUME NEW h
  PROVE  /\ Ends(WindowsUninstall(h), WindowsRemoval)
         /\ Len(WindowsUninstall(h)) = IF Running(h) THEN 4 ELSE 3
<1>1. WindowsRemoval \in Seq(RemovalSteps) /\ WindowsRest \in Seq(RemovalSteps)
  BY DEF WindowsRest, WindowsRemoval, RemovalSteps
<1>3. Len(WindowsRemoval) = 4 /\ Len(WindowsRest) = 3 /\ WindowsRemoval[1] = "stop"
  BY DEF WindowsRest, WindowsRemoval
<1>4. \A i \in 1 .. Len(WindowsRest) : WindowsRest[i] = WindowsRemoval[i + 1]
  <2>1. /\ WindowsRest[1] = WindowsRemoval[2]
        /\ WindowsRest[2] = WindowsRemoval[3]
        /\ WindowsRest[3] = WindowsRemoval[4]
    BY DEF WindowsRest, WindowsRemoval
  <2>2. \A i \in 1 .. 3 : WindowsRest[i] = WindowsRemoval[i + 1]
    <3> SUFFICES ASSUME NEW i \in 1 .. 3 PROVE WindowsRest[i] = WindowsRemoval[i + 1]
      OBVIOUS
    <3>1. i = 1 \/ i = 2 \/ i = 3
      OBVIOUS
    <3> QED
      BY <2>1, <3>1
  <2> QED
    BY <1>3, <2>2
<1>5. Len(WindowsRemoval) = Len(WindowsRest) + 1
  BY <1>3
<1>2. WindowsUninstall(h) = If(Running(h), <<"stop">>) \o WindowsRest
  BY DEF WindowsUninstall, WindowsRest
<1>6. /\ Ends(If(Running(h), <<"stop">>) \o WindowsRest, WindowsRemoval)
      /\ Len(If(Running(h), <<"stop">>) \o WindowsRest) = IF Running(h) THEN Len(WindowsRemoval) ELSE Len(WindowsRemoval) - 1
  BY <1>1, <1>3, <1>4, <1>5, StopFirst
<1> QED
  BY <1>2, <1>3, <1>6

-----------------------------------------------------------------------------
(* The invariant.                                                          *)

Programs == Versions \cup {None}
Phases == {"none", "resolve", "fetch", "hand over", "child", "finish"}

Shape ==
  /\ os \in {"linux", "windows"}
  /\ IsHost(m) /\ m.binary \in Programs
  /\ m.unit = "marked" => os = "windows" /\ Running(m)
  /\ stage \in Programs /\ (stage # None => os = "windows")
  /\ DOMAIN cmd = {"kind", "steps", "version", "settings", "asked"}
  /\ DOMAIN up = {"phase", "self", "mode", "want", "release", "code", "before"}
  /\ up.phase \in Phases
  /\ \/ cmd.kind = "none" /\ cmd.steps = <<>>
     \/ /\ cmd.kind = "install" /\ up.phase \in {"none", "child"}
        /\ cmd.steps \in Seq(InstallSteps) /\ cmd.version \in Versions
     \/ cmd.kind = "uninstall" /\ up.phase = "none" /\ Ends(cmd.steps, Removal)

(* What an uninstall with n steps left has done. *)
UninstallDone(h, n) ==
  /\ os = "linux" =>
       /\ n <= 6 => h.service = "stopped"
       /\ n <= 5 => ~h.enabled
       /\ n <= 3 => h.env = NoSettings
       /\ n <= 2 => h.binary = None
       /\ n >= 2 => h.unit = "own"
       /\ n <= 1 => h.unit = "absent"
       /\ n = 0 => ~h.loaded
  /\ os = "windows" =>
       /\ n <= 2 => Gone(h) \/ (h.unit = "marked" /\ Running(h))
       /\ n = 0 => h.binary = None

Uninstalling == cmd.kind = "uninstall" => UninstallDone(m, Len(cmd.steps))

(* Without the unit there is nothing an uninstall would have to finish.    *)
Swept(h) == h.unit = "absent" => h.env = NoSettings /\ (os = "linux" => h.binary = None)
Resumable == "uninstall" \in {last, cmd.kind} => Swept(m)

(* The upgrade found these files, with this program; only a unit marked    *)
(* for deletion may have gone.                                             *)
Found(program) ==
  /\ up.before[1] = program
  /\ up.before[2] # "marked" => up.before = <<program, m.unit, m.env>>

(* Nothing is installed yet: what there was is in place, or stepped aside.  *)
Untouched ==
  \/ stage = None /\ Found(m.binary)
  \/ up.mode = "run" /\ stage # None /\ m.binary = None /\ Found(stage)

Upgrading ==
  /\ up.phase \in {"resolve", "fetch", "hand over"} => Found(m.binary)
  /\ up.phase = "hand over" => stage = None
  /\ up.phase = "child" /\ cmd.kind = "none" => Untouched
  /\ up.phase = "child" /\ cmd.kind # "none" => up.mode = "run"
  /\ up.phase = "finish" /\ (up.mode = "dry" \/ up.code = "not run") => Untouched
  /\ up.phase \in {"resolve", "fetch", "hand over", "child", "finish"} => up.before[1] \in Programs
  /\ up.phase \in {"child", "finish"} /\ up.before[1] # None => m.binary # None \/ stage # None

(* The release of an upgrade that loads one, and the program its child has. *)
Released ==
  /\ up.phase \in {"fetch", "hand over", "child"} =>
       /\ up.release.version \in Versions /\ up.release.holds \subseteq Versions
       /\ \A v, w \in up.release.holds : v = w
       /\ up.want = {} /\ up.before[1] # None => Compare(up.release.version, up.before[1]) > 0
  /\ up.phase \in {"hand over", "child"} => Verified(up.release)
  /\ up.phase = "child" /\ cmd.kind = "install" => cmd.version \in up.release.holds

Inv == Shape /\ Uninstalling /\ Resumable /\ UninstalledIsGone /\ Upgrading /\ Released /\ UnchangedMeansUnchanged

-----------------------------------------------------------------------------
(* What else happens to the host.                                          *)

(* What the service and the administrator do changes no file of omnistat;  *)
(* only a service marked for deletion goes.                                *)
Quiet(g) ==
  /\ IsHost(g) /\ g.binary = m.binary
  /\ g.unit = "marked" => m.unit = "marked" /\ Running(g)
  /\ (g.unit = m.unit /\ g.env = m.env) \/ (m.unit = "marked" /\ Gone(g))
  /\ m.service = "stopped" => g.service = "stopped"
  /\ ~m.enabled => ~g.enabled
  /\ ~m.loaded => ~g.loaded

LEMMA QuietHost ==
  ASSUME Shape, ServiceFails \/ ServiceRestarts \/ AdminConfigures
  PROVE  Quiet(m')
<1>0. IsHost(m) /\ (m.unit = "marked" => Running(m))
  BY DEF Shape
<1>1. CASE ServiceFails
  <2>1. CASE m.unit = "marked"
    <3>1. m' = Halted(m) /\ Running(m)
      BY <1>1, <2>1 DEF ServiceFails
    <3>2. Gone(m') /\ IsHost(m') /\ m'.binary = m.binary
      BY <1>0, <2>1, <3>1, HaltedFacts
    <3>3. m'.unit = "absent" /\ m'.service = "stopped" /\ ~m'.enabled /\ ~m'.loaded
      BY <3>2 DEF Gone
    <3> QED
      BY <2>1, <3>2, <3>3 DEF Quiet
  <2>2. CASE m.unit # "marked"
    <3>1. m' = [m EXCEPT !.service = "retrying", !.program = None] /\ m.service = "running"
      BY <1>1, <2>2 DEF ServiceFails, Running
    <3> QED
      BY <1>0, <2>2, <3>1 DEF Quiet, IsHost, HostFields
  <2> QED
    BY <2>1, <2>2
<1>2. CASE ServiceRestarts
  <2>1. PICK g \in Launched(m) : m' = g /\ Running(g)
    BY <1>2 DEF ServiceRestarts
  <2>2. m.service = "retrying"
    BY <1>2 DEF ServiceRestarts
  <2> QED
    BY <1>0, <2>1, <2>2, LaunchedFacts DEF Quiet, Running
<1>3. CASE AdminConfigures
  <2>1. m' = [m EXCEPT !.conf = "admin"]
    BY <1>3 DEF AdminConfigures
  <2> QED
    BY <1>0, <2>1 DEF Quiet, IsHost, HostFields, Running
<1> QED
  BY <1>1, <1>2, <1>3

(* A machine that restarts finishes a deletion, and changes no file.       *)
LEMMA RestartedHost ==
  ASSUME Shape, MachineRestarts
  PROVE  /\ IsHost(m') /\ m'.binary = m.binary /\ m'.unit # "marked"
         /\ (m'.unit = m.unit /\ m'.env = m.env) \/ (m.unit = "marked" /\ Gone(m'))
         /\ Gone(m) => Gone(m')
<1> DEFINE h == [Halted(m) EXCEPT !.loaded = (m.unit = "own")]
<1>0. IsHost(m)
  BY DEF Shape
<1>1. PICK g \in (IF h.enabled /\ h.loaded THEN Launched(h) ELSE {h}) : m' = g
  BY DEF MachineRestarts
<1>2. LET k == Halted(m) IN
      /\ IsHost(k) /\ k.binary = m.binary /\ k.service = "stopped"
      /\ m.unit = "marked" => Gone(k)
      /\ m.unit # "marked" => k.unit = m.unit /\ k.env = m.env /\ k.enabled = m.enabled
  BY <1>0, HaltedFacts
<1>3. /\ IsHost(h) /\ h.binary = Halted(m).binary /\ h.unit = Halted(m).unit /\ h.env = Halted(m).env
      /\ h.enabled = Halted(m).enabled /\ h.service = Halted(m).service
  BY <1>2 DEF IsHost, HostFields
<1>4. m.unit # "own" => ~h.loaded
  <2>1. "loaded" \in DOMAIN Halted(m)
    BY <1>2 DEF IsHost, HostFields
  <2>2. h.loaded = (m.unit = "own")
    BY <2>1, Zenon
  <2> QED
    BY <2>2, Zenon
<1> HIDE DEF h
<1>5. CASE m.unit = "own"
  <2>1. IsHost(g) /\ g.binary = h.binary /\ g.unit = h.unit /\ g.env = h.env
    <3>1. CASE g = h
      BY <1>3, <3>1
    <3>2. CASE g \in Launched(h)
      BY <1>3, <3>2, LaunchedFacts
    <3> QED
      BY <1>1, <3>1, <3>2
  <2> QED
    BY <1>1, <1>2, <1>3, <1>5, <2>1 DEF Gone
<1>6. CASE m.unit # "own"
  <2>1. g = h
    BY <1>1, <1>4, <1>6
  <2>2. m.unit = "marked" => Gone(h)
    BY <1>2, <1>3, <1>4, <1>6 DEF Gone
  <2>3. Gone(m) => Gone(h)
    <3> SUFFICES ASSUME Gone(m) PROVE Gone(h)
      OBVIOUS
    <3>1. m.unit = "absent" /\ m.env = NoSettings /\ ~m.enabled
      BY DEF Gone
    <3> QED
      BY <1>2, <1>3, <1>4, <3>1 DEF Gone
  <2>4. Gone(h) => h.unit = "absent"
    BY DEF Gone
  <2> QED
    BY <1>1, <1>2, <1>3, <1>6, <2>1, <2>2, <2>3, <2>4
<1> QED
  BY <1>5, <1>6

LEMMA InitInv == Init => Inv
<1> SUFFICES ASSUME Init PROVE Inv
  OBVIOUS
<1>1. DOMAIN m = DOMAIN Fresh /\ m.unit \in {"absent", "own", "foreign"} /\ m.binary \in Programs
  BY MachineAssumption DEF Init, Programs
<1>2. IsHost(m)
  BY <1>1 DEF IsHost, HostFields, Fresh
<1>3. Shape
  BY <1>1, <1>2 DEF Init, Shape, NoCommand, NoUpgrade, Phases, Programs
<1>4. Uninstalling /\ Resumable /\ Upgrading /\ Released
  BY DEF Init, Uninstalling, Resumable, Upgrading, Released, NoCommand, NoUpgrade
<1>5. UninstalledIsGone /\ UnchangedMeansUnchanged
  BY DEF Init, UninstalledIsGone, UnchangedMeansUnchanged
<1> QED
  BY <1>3, <1>4, <1>5 DEF Inv

-----------------------------------------------------------------------------
(* The invariant is kept.                                                  *)

LEMMA UnitOfFiles == \A h : Files(h)[2] = h.unit /\ Files(h)[1] = h.binary
  BY DEF Files

LEMMA QuietInv ==
  ASSUME Inv, Quiet(m'), UNCHANGED <<os, stage, cmd, up, report, last>>
  PROVE  Inv'
<1>0. Shape /\ Uninstalling /\ Resumable /\ UninstalledIsGone /\ Upgrading /\ Released /\ UnchangedMeansUnchanged
  BY DEF Inv
<1>1. /\ IsHost(m') /\ m'.binary = m.binary
      /\ m'.unit = "marked" => m.unit = "marked" /\ Running(m')
      /\ (m'.unit = m.unit /\ m'.env = m.env) \/ (m.unit = "marked" /\ Gone(m'))
      /\ m.service = "stopped" => m'.service = "stopped"
      /\ ~m.enabled => ~m'.enabled
      /\ ~m.loaded => ~m'.loaded
  BY DEF Quiet
<1>2. m.unit = "marked" => os = "windows" /\ Running(m)
  BY <1>0 DEF Shape
<1>3. Gone(m) => Gone(m')
  BY <1>1 DEF Gone
<1>4. Gone(m') => m'.unit = "absent" /\ m'.env = NoSettings
  BY DEF Gone
<1>5. Shape'
  BY <1>0, <1>1, <1>2 DEF Shape, Ends, Removal, InstallSteps
<1>6. Uninstalling'
  <2>1. SUFFICES ASSUME cmd.kind = "uninstall" PROVE UninstallDone(m, Len(cmd.steps))'
    BY DEF Uninstalling
  <2>2. UninstallDone(m, Len(cmd.steps))
    BY <1>0, <2>1 DEF Uninstalling
  <2>3. CASE os = "linux"
    BY <1>1, <1>2, <2>2, <2>3 DEF UninstallDone
  <2>4. CASE os = "windows"
    BY <1>1, <1>2, <1>3, <2>2, <2>4 DEF UninstallDone
  <2> QED
    BY <1>0, <2>3, <2>4 DEF UninstallDone
<1>7. Resumable'
  BY <1>0, <1>1, <1>2, <1>4 DEF Resumable, Swept
<1>8. UninstalledIsGone'
  <2>1. SUFFICES ASSUME Idle, report.what = "uninstalled"
        PROVE  m'.binary = None /\ (Gone(m') \/ (os = "windows" /\ m'.unit = "marked" /\ Running(m')))
    BY DEF UninstalledIsGone, Idle, Gone
  <2>2. m.binary = None /\ (Gone(m) \/ (os = "windows" /\ m.unit = "marked" /\ Running(m)))
    BY <1>0, <2>1 DEF UninstalledIsGone, Gone
  <2> QED
    BY <1>1, <1>2, <1>3, <1>4, <2>2
<1>9. \A program : Found(program) => Found(program)'
  BY <1>1 DEF Found
<1>10. Upgrading'
  <2>1. Found(m.binary) => Found(m.binary)'
    BY <1>1, <1>9
  <2>2. Untouched => Untouched'
    BY <1>1, <1>9, <2>1 DEF Untouched
  <2> QED
    BY <1>0, <1>1, <2>1, <2>2 DEF Upgrading
<1>11. Released'
  BY <1>0 DEF Released, Verified
<1>12. UnchangedMeansUnchanged'
  <2>1. SUFFICES ASSUME Idle, report.what \in {"unchanged", "up to date", "newer", "available", "dry run"},
                        report.files[2] # "marked"
        PROVE  Files(m)' = report.files
    BY DEF UnchangedMeansUnchanged, Idle
  <2>2. Files(m) = report.files
    BY <1>0, <2>1 DEF UnchangedMeansUnchanged
  <2>3. m.unit # "marked"
    BY <2>1, <2>2, UnitOfFiles
  <2> QED
    BY <1>1, <2>2, <2>3 DEF Files
<1> QED
  BY <1>5, <1>6, <1>7, <1>8, <1>10, <1>11, <1>12 DEF Inv

LEMMA KilledInv == ASSUME Inv, Killed PROVE Inv'
<1>0. Shape /\ Resumable
  BY DEF Inv
<1>1. /\ UNCHANGED <<os, m, stage, last>> /\ cmd' = NoCommand /\ up' = NoUpgrade /\ report'.what = "interrupted"
  BY DEF Killed, Interrupted, Says, Reports
<1>2. Shape'
  BY <1>0, <1>1 DEF Shape, NoCommand, NoUpgrade, Phases
<1>3. Resumable' /\ Uninstalling' /\ Upgrading' /\ Released'
  BY <1>0, <1>1 DEF Resumable, Swept, Uninstalling, Upgrading, Released, NoCommand, NoUpgrade
<1>4. UninstalledIsGone' /\ UnchangedMeansUnchanged'
  BY <1>1 DEF UninstalledIsGone, UnchangedMeansUnchanged
<1> QED
  BY <1>2, <1>3, <1>4 DEF Inv

LEMMA RestartInv == ASSUME Inv, MachineRestarts PROVE Inv'
<1>0. Shape /\ Resumable /\ UninstalledIsGone /\ UnchangedMeansUnchanged
  BY DEF Inv
<1>1. /\ UNCHANGED <<os, last>> /\ cmd' = NoCommand /\ up' = NoUpgrade
      /\ stage' \in {stage, None}
      /\ ~Idle => report'.what = "interrupted"
      /\ Idle => report' = report
  BY DEF MachineRestarts, Interrupted, Says, Reports
<1>2. /\ IsHost(m') /\ m'.binary = m.binary /\ m'.unit # "marked"
      /\ (m'.unit = m.unit /\ m'.env = m.env) \/ (m.unit = "marked" /\ Gone(m'))
      /\ Gone(m) => Gone(m')
  BY <1>0, RestartedHost
<1>3. Gone(m') => m'.unit = "absent" /\ m'.env = NoSettings
  BY DEF Gone
<1>4. m.unit = "marked" => os = "windows"
  BY <1>0 DEF Shape
<1>5. Shape'
  BY <1>0, <1>1, <1>2 DEF Shape, NoCommand, NoUpgrade, Phases, Programs
<1>6. Uninstalling' /\ Upgrading' /\ Released'
  BY <1>1 DEF Uninstalling, Upgrading, Released, NoCommand, NoUpgrade
<1>7. Resumable'
  <2>1. cmd'.kind = "none"
    BY <1>1 DEF NoCommand
  <2> QED
    BY <1>0, <1>1, <1>2, <1>3, <1>4, <2>1 DEF Resumable, Swept
<1>8. UninstalledIsGone'
  <2>1. SUFFICES ASSUME report'.what = "uninstalled"
        PROVE  m'.binary = None /\ Gone(m')
    BY DEF UninstalledIsGone, Gone
  <2>2. Idle /\ report.what = "uninstalled"
    BY <1>1, <2>1
  <2>3. m.binary = None /\ (Gone(m) \/ m.unit = "marked")
    BY <1>0, <2>2 DEF UninstalledIsGone, Gone
  <2> QED
    BY <1>2, <2>3
<1>9. UnchangedMeansUnchanged'
  <2>1. SUFFICES ASSUME report'.what \in {"unchanged", "up to date", "newer", "available", "dry run"},
                        report'.files[2] # "marked"
        PROVE  Files(m)' = report'.files
    BY DEF UnchangedMeansUnchanged
  <2>2. Idle /\ report' = report
    BY <1>1, <2>1
  <2>3. Files(m) = report.files
    BY <1>0, <2>1, <2>2 DEF UnchangedMeansUnchanged
  <2>4. m.unit # "marked"
    BY <2>1, <2>2, <2>3, UnitOfFiles
  <2> QED
    BY <1>2, <2>2, <2>3, <2>4 DEF Files
<1> QED
  BY <1>5, <1>6, <1>7, <1>8, <1>9 DEF Inv

(* A step of an install, taken in part, in full or not at all. *)
InstallHost(g) ==
  /\ IsHost(g) /\ g.binary \in {m.binary, cmd.version}
  /\ g.unit = "marked" => os = "windows" /\ Running(g)

LEMMA InstallAfter ==
  ASSUME Shape, cmd.kind = "install", cmd.steps # <<>>, NEW g \in After(Head(cmd.steps))
  PROVE  InstallHost(g)
<1>0. IsHost(m) /\ (m.unit = "marked" => os = "windows" /\ Running(m)) /\ os \in {"linux", "windows"}
  BY DEF Shape
<1>1. cmd.steps \in Seq(InstallSteps)
  BY DEF Shape
<1>2. Head(cmd.steps) \in InstallSteps
  BY <1>1, HeadTailProperties
<1>3. CASE os = "linux"
  <2>1. g \in LinuxStep(m, Head(cmd.steps), cmd.version, FormatEnv(os, cmd.settings))
    BY <1>3 DEF After
  <2>2. Head(cmd.steps) \in LinuxInstallSteps /\ m.unit # "marked"
    BY <1>0, <1>2, <1>3 DEF InstallSteps
  <2> QED
    BY <1>0, <2>1, <2>2, LinuxInstallStep DEF InstallHost
<1>4. CASE os = "windows"
  <2>1. g \in WindowsStep(m, Head(cmd.steps), cmd.version, FormatEnv(os, cmd.settings), Holds)
    BY <1>4 DEF After
  <2>2. Head(cmd.steps) \in WindowsInstallSteps
    BY <1>2, <1>4 DEF InstallSteps
  <2> QED
    BY <1>0, <1>4, <2>1, <2>2, WindowsInstallStep DEF InstallHost
<1> QED
  BY <1>0, <1>3, <1>4

(* What follows the step. *)
Advances == cmd.steps # <<>> /\ cmd' = [cmd EXCEPT !.steps = Tail(@)] /\ UNCHANGED <<up, report>>
Ended == \E code \in {"ok", "failed"} : CommandEnds(code) /\ (code = "ok" => cmd.steps = <<>> /\ UNCHANGED m)

LEMMA EndedFacts ==
  ASSUME Shape, Ended
  PROVE  /\ cmd' = NoCommand
         /\ up.phase # "child" =>
              /\ UNCHANGED up /\ report'.what \in {"failed", "installed", "uninstalled"}
              /\ report'.what = "uninstalled" => cmd.kind # "install" /\ cmd.steps = <<>> /\ UNCHANGED m
         /\ up.phase = "child" =>
              /\ DOMAIN up' = DOMAIN up /\ UNCHANGED report
              /\ up'.phase = "finish" /\ up'.code \in {"ok", "failed"} /\ up'.mode = up.mode
              /\ up'.before = up.before /\ up'.release = up.release
<1>1. PICK code \in {"ok", "failed"} : CommandEnds(code) /\ (code = "ok" => cmd.steps = <<>> /\ UNCHANGED m)
  BY DEF Ended
<1>2. DOMAIN up = {"phase", "self", "mode", "want", "release", "code", "before"}
  BY DEF Shape
<1>3. CASE up.phase = "child"
  <2>1. up' = [up EXCEPT !.phase = "finish", !.code = code] /\ UNCHANGED report /\ cmd' = NoCommand
    BY <1>1, <1>3 DEF CommandEnds
  <2> QED
    BY <1>1, <1>2, <1>3, <2>1
<1>4. CASE up.phase # "child"
  <2>1. UNCHANGED up /\ cmd' = NoCommand
    BY <1>1, <1>4 DEF CommandEnds
  <2>2. report'.what = IF code = "failed" THEN "failed" ELSE IF cmd.kind = "install" THEN "installed" ELSE "uninstalled"
    BY <1>1, <1>4 DEF CommandEnds, Reports
  <2> QED
    BY <1>1, <1>4, <2>1, <2>2
<1> QED
  BY <1>3, <1>4

LEMMA InstallInv ==
  ASSUME Inv, cmd.kind = "install", UNCHANGED <<os, stage>>, InstallHost(m'),
         last' \in {"upgrade", "install", "done"}, Advances \/ Ended
  PROVE  Inv'
<1>0. Shape /\ Upgrading /\ Released
  BY DEF Inv
<1>1. /\ IsHost(m') /\ m'.binary \in {m.binary, cmd.version}
      /\ m'.unit = "marked" => os = "windows" /\ Running(m')
  BY DEF InstallHost
<1>2. /\ up.phase \in {"none", "child"} /\ cmd.version \in Versions /\ cmd.version # None
      /\ cmd.steps \in Seq(InstallSteps)
      /\ DOMAIN cmd = {"kind", "steps", "version", "settings", "asked"}
      /\ DOMAIN up = {"phase", "self", "mode", "want", "release", "code", "before"}
      /\ os \in {"linux", "windows"} /\ m.binary \in Programs
      /\ stage \in Programs /\ (stage # None => os = "windows")
  BY <1>0, MachineAssumption DEF Shape
<1>3. m'.binary \in Programs
  BY <1>1, <1>2 DEF Programs
<1>4. up.before[1] # None /\ up.phase = "child" => m'.binary # None \/ stage # None
  BY <1>0, <1>1, <1>2 DEF Upgrading
<1>5. up.phase = "child" => up.mode = "run" /\ up.before[1] \in Programs
  BY <1>0, <1>2 DEF Upgrading
<1>6. CASE Advances
  <2>1. /\ UNCHANGED <<up, report>> /\ DOMAIN cmd' = DOMAIN cmd
        /\ cmd'.kind = "install" /\ cmd'.version = cmd.version /\ cmd'.steps = Tail(cmd.steps)
    BY <1>2, <1>6 DEF Advances
  <2>2. cmd'.steps \in Seq(InstallSteps)
    BY <1>2, <1>6, <2>1, HeadTailProperties DEF Advances
  <2>3. InstallSteps' = InstallSteps
    BY DEF InstallSteps
  <2>4. Shape'
    BY <1>1, <1>2, <1>3, <2>1, <2>2, <2>3 DEF Shape, Phases
  <2>5. Uninstalling' /\ Resumable' /\ UninstalledIsGone' /\ UnchangedMeansUnchanged'
    BY <2>1 DEF Uninstalling, Resumable, UninstalledIsGone, UnchangedMeansUnchanged, Idle
  <2>6. Upgrading'
    BY <1>2, <1>4, <1>5, <2>1 DEF Upgrading
  <2>7. Released'
    BY <1>0, <2>1 DEF Released, Verified
  <2> QED
    BY <2>4, <2>5, <2>6, <2>7 DEF Inv
<1>7. CASE Ended
  <2>1. /\ cmd' = NoCommand
        /\ up.phase # "child" =>
             UNCHANGED up /\ report'.what \in {"failed", "installed"}
        /\ up.phase = "child" =>
             /\ DOMAIN up' = DOMAIN up
             /\ up'.phase = "finish" /\ up'.code \in {"ok", "failed"} /\ up'.mode = up.mode
             /\ up'.before = up.before
    BY <1>0, <1>7, EndedFacts
  <2>2. cmd'.kind = "none" /\ cmd'.steps = <<>> /\ DOMAIN cmd' = DOMAIN cmd
    BY <1>2, <2>1 DEF NoCommand
  <2>3. up.phase = "none" => up'.phase = "none"
    BY <2>1
  <2>4. DOMAIN up' = DOMAIN up /\ up'.phase \in Phases
    BY <1>2, <2>1 DEF Phases
  <2>5. Shape'
    BY <1>1, <1>2, <1>3, <2>2, <2>4 DEF Shape
  <2>6. Uninstalling' /\ Resumable'
    BY <2>2 DEF Uninstalling, Resumable
  <2>7. UninstalledIsGone' /\ UnchangedMeansUnchanged'
    BY <1>2, <2>1 DEF UninstalledIsGone, UnchangedMeansUnchanged, Idle
  <2>8. Upgrading'
    BY <1>2, <1>4, <1>5, <2>1, <2>2 DEF Upgrading
  <2>9. Released'
    BY <1>2, <2>1, <2>3 DEF Released
  <2> QED
    BY <2>5, <2>6, <2>7, <2>8, <2>9 DEF Inv
<1> QED
  BY <1>6, <1>7

(* A step of an uninstall. *)
LEMMA RemovalAfter ==
  ASSUME Shape, cmd.kind = "uninstall", cmd.steps # <<>>, UninstallDone(m, Len(cmd.steps)), Swept(m),
         NEW g \in After(Head(cmd.steps))
  PROVE  /\ IsHost(g) /\ g.binary \in {m.binary, None} /\ (g.unit = "marked" => os = "windows" /\ Running(g))
         /\ UninstallDone(g, Len(cmd.steps) - 1) /\ Swept(g)
<1> DEFINE n == Len(cmd.steps)
<1>0. /\ IsHost(m) /\ (m.unit = "marked" => os = "windows" /\ Running(m)) /\ os \in {"linux", "windows"}
      /\ Ends(cmd.steps, Removal)
  BY DEF Shape
<1>1. CASE os = "linux"
  <2>1. Removal = LinuxRemoval /\ Len(LinuxRemoval) = 7 /\ LinuxRemoval \in Seq(RemovalSteps)
    BY <1>1, LinuxPlanFacts DEF Removal
  <2>2. n \in 1 .. 7 /\ Head(cmd.steps) = LinuxRemoval[7 - n + 1]
    BY <1>0, <2>1, EndsTail
  <2> DEFINE i == 8 - n
  <2>3. i \in 1 .. 7 /\ 7 - n + 1 = i
    <3> HIDE DEF n
    <3>1. n \in 1 .. 7
      BY <2>2
    <3> QED
      BY <3>1
  <2>4. g \in LinuxStep(m, LinuxRemoval[i], cmd.version, FormatEnv(os, cmd.settings))
    BY <1>1, <2>2, <2>3 DEF After
  <2>5. m.unit # "marked"
    BY <1>0, <1>1
  <2> HIDE DEF i
  <2>6. /\ IsHost(g) /\ g.unit # "marked"
        /\ g.unit = (IF i = 6 THEN "absent" ELSE m.unit)
        /\ g.env = (IF i = 4 THEN NoSettings ELSE m.env)
        /\ g.binary = (IF i = 5 THEN None ELSE m.binary)
        /\ g.service = (IF i = 1 THEN "stopped" ELSE m.service)
        /\ i = 2 \/ ~m.enabled => ~g.enabled
        /\ i = 7 /\ m.unit # "own" => ~g.loaded
    BY <1>0, <2>3, <2>4, <2>5, LinuxRemovalStep
  <2>7. i = 8 - n
    BY DEF i
  <2> HIDE DEF n
  <2>8. /\ n <= 6 => m.service = "stopped"
        /\ n <= 5 => ~m.enabled
        /\ n <= 3 => m.env = NoSettings
        /\ n <= 2 => m.binary = None
        /\ n >= 2 => m.unit = "own"
        /\ n <= 1 => m.unit = "absent"
    BY <1>1 DEF UninstallDone, n
  <2>9. UninstallDone(g, n - 1)
    <3>1. n - 1 <= 6 => g.service = "stopped"
      BY <2>2, <2>6, <2>7, <2>8
    <3>2. n - 1 <= 5 => ~g.enabled
      BY <2>2, <2>6, <2>7, <2>8
    <3>3. n - 1 <= 3 => g.env = NoSettings
      BY <2>2, <2>6, <2>7, <2>8
    <3>4. n - 1 <= 2 => g.binary = None
      BY <2>2, <2>6, <2>7, <2>8
    <3>5. (n - 1 >= 2 => g.unit = "own") /\ (n - 1 <= 1 => g.unit = "absent")
      BY <2>2, <2>6, <2>7, <2>8
    <3>6. n - 1 = 0 => ~g.loaded
      BY <2>2, <2>6, <2>7, <2>8
    <3> QED
      BY <1>1, <3>1, <3>2, <3>3, <3>4, <3>5, <3>6 DEF UninstallDone
  <2>10. Swept(g)
    <3>1. g.unit = "absent" => n - 1 <= 1
      BY <2>2, <2>6, <2>7, <2>8
    <3>2. g.unit = "absent" => g.env = NoSettings /\ g.binary = None
      BY <2>2, <2>6, <2>7, <2>8, <3>1
    <3> QED
      BY <3>2 DEF Swept
  <2> QED
    BY <2>6, <2>9, <2>10 DEF n
<1>2. CASE os = "windows"
  <2>1. Removal = WindowsRemoval /\ Len(WindowsRemoval) = 4 /\ WindowsRemoval \in Seq(RemovalSteps)
    BY <1>2, WindowsPlanFacts DEF Removal
  <2>2. n \in 1 .. 4 /\ Head(cmd.steps) = WindowsRemoval[4 - n + 1]
    BY <1>0, <2>1, EndsTail
  <2> DEFINE i == 5 - n
  <2>3. i \in 1 .. 4 /\ 4 - n + 1 = i
    <3> HIDE DEF n
    <3>1. n \in 1 .. 4
      BY <2>2
    <3> QED
      BY <3>1
  <2>4. g \in WindowsStep(m, WindowsRemoval[i], cmd.version, FormatEnv(os, cmd.settings), Holds)
    BY <1>2, <2>2, <2>3 DEF After
  <2> HIDE DEF i
  <2>6. /\ IsHost(g) /\ (g.unit = "marked" => Running(g))
        /\ g.unit = m.unit \/ g.unit = "marked" \/ Gone(g)
        /\ g.unit = m.unit => g.env = m.env \/ Gone(g)
        /\ i = 2 => Gone(g) \/ (g.unit = "marked" /\ Running(g))
        /\ Gone(m) => Gone(g)
        /\ i \in 3 .. 4 => g.unit = m.unit /\ g.service = m.service
        /\ g.binary = (IF i = 4 THEN None ELSE m.binary)
    BY <1>0, <2>3, <2>4, WindowsRemovalStep
  <2>7. i = 5 - n
    BY DEF i
  <2> HIDE DEF n
  <2>8. n <= 2 => Gone(m) \/ (m.unit = "marked" /\ Running(m))
    BY <1>2 DEF UninstallDone, n
  <2>9. UninstallDone(g, n - 1)
    <3>1. n - 1 <= 2 => i = 2 \/ (i \in 3 .. 4 /\ n <= 2)
      BY <2>2, <2>7
    <3>2. n - 1 <= 2 => Gone(g) \/ (g.unit = "marked" /\ Running(g))
      BY <2>6, <2>8, <3>1
    <3>3. n - 1 = 0 => g.binary = None
      BY <2>2, <2>6, <2>7
    <3> QED
      BY <1>2, <3>2, <3>3 DEF UninstallDone
  <2>10. Gone(g) => g.env = NoSettings
    BY DEF Gone
  <2>11. Swept(g)
    BY <1>2, <2>6, <2>10 DEF Swept
  <2> QED
    BY <1>2, <2>6, <2>9, <2>11 DEF n
<1> QED
  BY <1>0, <1>1, <1>2

LEMMA UninstallInv ==
  ASSUME Inv, cmd.kind = "uninstall", UNCHANGED <<os, stage>>, last' \in {"uninstall", last},
         \/ /\ Advances /\ Swept(m)' /\ (\E n : n = Len(cmd.steps) - 1 /\ UninstallDone(m, n)')
            /\ IsHost(m)' /\ m'.binary \in {m.binary, None} /\ (m'.unit = "marked" => os = "windows" /\ Running(m'))
         \/ Ended /\ UNCHANGED m
  PROVE  Inv'
<1>0. Shape /\ Uninstalling /\ Resumable
  BY DEF Inv
<1>1. /\ up.phase = "none" /\ Ends(cmd.steps, Removal) /\ IsHost(m) /\ m.binary \in Programs
      /\ m.unit = "marked" => os = "windows" /\ Running(m)
      /\ DOMAIN cmd = {"kind", "steps", "version", "settings", "asked"}
      /\ DOMAIN up = {"phase", "self", "mode", "want", "release", "code", "before"}
      /\ os \in {"linux", "windows"} /\ stage \in Programs /\ (stage # None => os = "windows")
  BY <1>0 DEF Shape
<1>2. UninstallDone(m, Len(cmd.steps)) /\ Swept(m)
  BY <1>0 DEF Uninstalling, Resumable
<1>3. CASE /\ Advances /\ Swept(m)' /\ (\E n : n = Len(cmd.steps) - 1 /\ UninstallDone(m, n)')
           /\ IsHost(m)' /\ m'.binary \in {m.binary, None} /\ (m'.unit = "marked" => os = "windows" /\ Running(m'))
  <2>1. /\ UNCHANGED <<up, report>> /\ DOMAIN cmd' = DOMAIN cmd
        /\ cmd'.kind = "uninstall" /\ cmd'.steps = Tail(cmd.steps)
    BY <1>1, <1>3 DEF Advances
  <2>2. Removal \in Seq(RemovalSteps)
    BY LinuxPlanFacts, WindowsPlanFacts DEF Removal
  <2>3. Ends(Tail(cmd.steps), Removal) /\ Len(Tail(cmd.steps)) = Len(cmd.steps) - 1
    BY <1>1, <1>3, <2>2, EndsTail DEF Advances
  <2>4. Removal' = Removal /\ Ends(cmd'.steps, Removal')
    BY <2>1, <2>3 DEF Removal
  <2>5. Shape'
    BY <1>1, <1>3, <2>1, <2>4 DEF Shape, Phases, Programs, Ends
  <2>6. UninstallDone(m, Len(cmd.steps))'
    <3>1. PICK n : n = Len(cmd.steps) - 1 /\ UninstallDone(m, n)'
      BY <1>3
    <3>2. Len(cmd'.steps) = n
      BY <2>1, <2>3, <3>1
    <3> QED
      BY <3>1, <3>2 DEF UninstallDone
  <2>7. Uninstalling' /\ Resumable'
    BY <1>3, <2>6 DEF Uninstalling, Resumable
  <2>8. UninstalledIsGone' /\ UnchangedMeansUnchanged'
    BY <2>1 DEF UninstalledIsGone, UnchangedMeansUnchanged, Idle
  <2>9. Upgrading' /\ Released'
    BY <1>1, <2>1 DEF Upgrading, Released
  <2> QED
    BY <2>5, <2>7, <2>8, <2>9 DEF Inv
<1>4. CASE Ended /\ UNCHANGED m
  <2>1. /\ cmd' = NoCommand /\ UNCHANGED up /\ report'.what \in {"failed", "installed", "uninstalled"}
        /\ report'.what = "uninstalled" => cmd.steps = <<>>
    BY <1>0, <1>1, <1>4, EndedFacts
  <2>2. cmd'.kind = "none" /\ cmd'.steps = <<>> /\ DOMAIN cmd' = DOMAIN cmd
    BY <1>1, <2>1 DEF NoCommand
  <2>3. Shape'
    BY <1>1, <1>4, <2>1, <2>2 DEF Shape, Phases
  <2>4. Uninstalling' /\ Resumable'
    BY <1>2, <1>4, <2>2 DEF Uninstalling, Resumable, Swept
  <2>5. UninstalledIsGone'
    <3>1. SUFFICES ASSUME report'.what = "uninstalled"
          PROVE  m.binary = None /\ (Gone(m) \/ (os = "windows" /\ m.unit = "marked" /\ Running(m)))
      BY <1>4 DEF UninstalledIsGone, Gone
    <3>2. Len(cmd.steps) = 0
      BY <2>1, <3>1
    <3>3. UninstallDone(m, 0)
      BY <1>2, <3>2
    <3>4. CASE os = "linux"
      BY <3>3, <3>4 DEF UninstallDone, Gone
    <3>5. CASE os = "windows"
      BY <3>3, <3>5 DEF UninstallDone
    <3> QED
      BY <1>1, <3>4, <3>5
  <2>6. UnchangedMeansUnchanged'
    BY <2>1 DEF UnchangedMeansUnchanged
  <2>7. Upgrading' /\ Released'
    BY <1>1, <2>1 DEF Upgrading, Released
  <2> QED
    BY <2>3, <2>4, <2>5, <2>6, <2>7 DEF Inv
<1> QED
  BY <1>3, <1>4

LEMMA StepDoneInv == ASSUME Inv, StepDone PROVE Inv'
<1>0. Shape /\ Uninstalling /\ Resumable
  BY DEF Inv
<1>1. PICK g \in After(Head(cmd.steps)) :
        /\ m' = g
        /\ IF Watched(Head(cmd.steps), g)
             THEN cmd' = [cmd EXCEPT !.steps = Tail(@)] /\ UNCHANGED <<up, report>>
             ELSE CommandEnds("failed")
  BY DEF StepDone
<1>2. cmd.steps # <<>> /\ UNCHANGED <<os, stage>> /\ last' = IF up.phase = "child" THEN "upgrade" ELSE cmd.kind
  BY DEF StepDone, Remembers
<1>3. Advances \/ Ended
  BY <1>1, <1>2 DEF Advances, Ended
<1>4. CASE cmd.kind = "install"
  <2>1. InstallHost(m')
    BY <1>0, <1>1, <1>2, <1>4, InstallAfter
  <2>2. last' \in {"upgrade", "install", "done"}
    BY <1>2, <1>4
  <2> QED
    BY <1>2, <1>3, <1>4, <2>1, <2>2, InstallInv
<1>5. CASE cmd.kind = "uninstall"
  <2>1. UninstallDone(m, Len(cmd.steps)) /\ Swept(m) /\ up.phase = "none"
    BY <1>0, <1>5 DEF Uninstalling, Resumable, Shape
  <2>2. /\ IsHost(g) /\ g.binary \in {m.binary, None} /\ (g.unit = "marked" => os = "windows" /\ Running(g))
        /\ UninstallDone(g, Len(cmd.steps) - 1) /\ Swept(g)
    BY <1>0, <1>1, <1>2, <1>5, <2>1, RemovalAfter
  <2>3. Watched(Head(cmd.steps), g)
    <3>1. Head(cmd.steps) \in RemovalSteps
      BY <1>0, <1>2, <1>5, HeadTailProperties DEF Shape, Ends
    <3> QED
      BY <3>1 DEF Watched, RemovalSteps
  <2>4. cmd' = [cmd EXCEPT !.steps = Tail(@)] /\ Advances
    BY <1>1, <1>2, <2>3 DEF Advances
  <2>5. DOMAIN cmd = {"kind", "steps", "version", "settings", "asked"}
    BY <1>0 DEF Shape
  <2>6. Swept(m)' /\ UNCHANGED os
    BY <1>1, <1>2, <2>2 DEF Swept
  <2>7. PICK n : n = Len(cmd.steps) - 1
    OBVIOUS
  <2>8. UninstallDone(m, n)'
    <3>1. UninstallDone(g, n) /\ m' = g /\ UNCHANGED os
      BY <1>1, <1>2, <2>2, <2>7
    <3>2. Gone(m)' <=> Gone(g)
      BY <3>1 DEF Gone
    <3> QED
      BY <3>1, <3>2 DEF UninstallDone, Running
  <2>9. \E k : k = Len(cmd.steps) - 1 /\ UninstallDone(m, k)'
    BY <2>7, <2>8
  <2>10. IsHost(m)' /\ m'.binary \in {m.binary, None} /\ (m'.unit = "marked" => os = "windows" /\ Running(m'))
    BY <1>1, <2>2
  <2>11. last' \in {"uninstall", last}
    BY <1>2, <1>5, <2>1
  <2> QED
    BY <1>2, <1>5, <2>4, <2>6, <2>9, <2>10, <2>11, UninstallInv
<1> QED
  BY <1>0, <1>2, <1>4, <1>5 DEF Shape

(* Only on Linux, and none of its facts is due with that step. *)
LEMMA ResetChangesNothing ==
  ASSUME os \in {"linux", "windows"}, Ends(cmd.steps, Removal), cmd.steps # <<>>, Head(cmd.steps) = "reset-failed",
         UninstallDone(m, Len(cmd.steps))
  PROVE  UninstallDone(m, Len(cmd.steps) - 1)
<1> DEFINE n == Len(cmd.steps)
<1>1. CASE os = "linux"
  <2>1. Removal = LinuxRemoval
    BY <1>1 DEF Removal
  <2>2. n \in 1 .. 7 /\ LinuxRemoval[7 - n + 1] = "reset-failed"
    BY <2>1, LinuxPlanFacts, EndsTail
  <2>3. n = 5
    <3> HIDE DEF n
    <3>1. n = 1 \/ n = 2 \/ n = 3 \/ n = 4 \/ n = 5 \/ n = 6 \/ n = 7
      BY <2>2
    <3>2. /\ LinuxRemoval[1] = "stop"
          /\ LinuxRemoval[2] = "disable"
          /\ LinuxRemoval[3] = "reset-failed"
          /\ LinuxRemoval[4] = "remove env"
          /\ LinuxRemoval[5] = "remove binary"
          /\ LinuxRemoval[6] = "remove unit"
          /\ LinuxRemoval[7] = "reload"
      BY DEF LinuxRemoval
    <3>3. LinuxRemoval[7 - n + 1] = "reset-failed"
      BY <2>2
    <3>4. /\ n = 1 => 7 - n + 1 = 7
          /\ n = 2 => 7 - n + 1 = 6
          /\ n = 3 => 7 - n + 1 = 5
          /\ n = 4 => 7 - n + 1 = 4
          /\ n = 5 => 7 - n + 1 = 3
          /\ n = 6 => 7 - n + 1 = 2
          /\ n = 7 => 7 - n + 1 = 1
      OBVIOUS
    <3> QED
      BY <3>1, <3>2, <3>3, <3>4
  <2> QED
    BY <1>1, <2>3 DEF UninstallDone
<1>2. CASE os = "windows"
  <2>1. Removal = WindowsRemoval
    BY <1>2 DEF Removal
  <2>2. n \in 1 .. 4 /\ WindowsRemoval[4 - n + 1] = "reset-failed"
    BY <2>1, WindowsPlanFacts, EndsTail
  <2>3. FALSE
    <3> HIDE DEF n
    <3>1. n = 1 \/ n = 2 \/ n = 3 \/ n = 4
      BY <2>2
    <3>2. /\ WindowsRemoval[1] = "stop"
          /\ WindowsRemoval[2] = "delete"
          /\ WindowsRemoval[3] = "remove source"
          /\ WindowsRemoval[4] = "remove binary"
      BY DEF WindowsRemoval
    <3>3. WindowsRemoval[4 - n + 1] = "reset-failed"
      BY <2>2
    <3>4. /\ n = 1 => 4 - n + 1 = 4
          /\ n = 2 => 4 - n + 1 = 3
          /\ n = 3 => 4 - n + 1 = 2
          /\ n = 4 => 4 - n + 1 = 1
      OBVIOUS
    <3> QED
      BY <3>1, <3>2, <3>3, <3>4
  <2> QED
    BY <2>3
<1> QED
  BY <1>1, <1>2

LEMMA StepFailsInv == ASSUME Inv, StepFails PROVE Inv'
<1> DEFINE step == Head(cmd.steps)
<1>0. Shape /\ Uninstalling /\ Resumable
  BY DEF Inv
<1>1. /\ m' \in {m} \cup (IF step \in Compound THEN After(step) ELSE {})
      /\ IF step = "reset-failed"
           THEN cmd' = [cmd EXCEPT !.steps = Tail(@)] /\ UNCHANGED <<up, report>>
           ELSE CommandEnds("failed")
  BY DEF StepFails
<1>2. cmd.steps # <<>> /\ UNCHANGED <<os, stage>> /\ last' = IF up.phase = "child" THEN "upgrade" ELSE cmd.kind
  BY DEF StepFails, Remembers
<1>3. Advances \/ Ended
  BY <1>1, <1>2 DEF Advances, Ended
<1>4. CASE cmd.kind = "install"
  <2>1. CASE m' = m
    <3>1. InstallHost(m')
      BY <1>0, <2>1 DEF InstallHost, Shape
    <3> QED
      BY <1>2, <1>3, <1>4, <3>1, InstallInv
  <2>2. CASE m' # m
    <3>1. PICK g \in After(step) : m' = g
      BY <1>1, <2>2
    <3>2. InstallHost(m')
      BY <1>0, <1>2, <1>4, <3>1, InstallAfter
    <3> QED
      BY <1>2, <1>3, <1>4, <3>2, InstallInv
  <2> QED
    BY <2>1, <2>2
<1>5. CASE cmd.kind = "uninstall"
  <2>1. UninstallDone(m, Len(cmd.steps)) /\ Swept(m) /\ up.phase = "none"
    BY <1>0, <1>5 DEF Uninstalling, Resumable, Shape
  <2>2. step \in RemovalSteps
    BY <1>0, <1>2, <1>5, HeadTailProperties DEF Shape, Ends
  <2>3. UNCHANGED m
    BY <1>1, <2>2 DEF Compound, RemovalSteps
  <2>4. last' \in {"uninstall", last}
    BY <1>2, <1>5, <2>1
  <2>5. CASE step = "reset-failed"
    <3>1. Advances
      BY <1>1, <1>2, <2>5 DEF Advances
    <3>2. PICK n : n = Len(cmd.steps) - 1
      OBVIOUS
    <3>3. UninstallDone(m, n)
      BY <1>0, <1>2, <1>5, <2>1, <2>5, <3>2, ResetChangesNothing DEF Shape
    <3>4. Gone(m)' <=> Gone(m)
      BY <2>3 DEF Gone
    <3>5. UninstallDone(m, n)'
      BY <1>2, <2>3, <3>3, <3>4 DEF UninstallDone, Running
    <3>6. \E k : k = Len(cmd.steps) - 1 /\ UninstallDone(m, k)'
      BY <3>2, <3>5
    <3>7. IsHost(m)' /\ m'.binary \in {m.binary, None} /\ (m'.unit = "marked" => os = "windows" /\ Running(m'))
      BY <1>0, <2>3 DEF Shape
    <3>8. Swept(m)'
      BY <1>2, <2>1, <2>3 DEF Swept
    <3> QED
      BY <1>2, <1>5, <2>4, <3>1, <3>6, <3>7, <3>8, UninstallInv
  <2>6. CASE step # "reset-failed"
    <3>1. Ended
      BY <1>1, <2>6 DEF Ended
    <3> QED
      BY <1>2, <1>5, <2>3, <2>4, <3>1, UninstallInv
  <2> QED
    BY <2>5, <2>6
<1> QED
  BY <1>0, <1>2, <1>4, <1>5 DEF Shape

LEMMA AllDoneInv == ASSUME Inv, AllDone PROVE Inv'
<1>0. Shape
  BY DEF Inv
<1>1. /\ cmd.kind # "none" /\ UNCHANGED <<os, m, stage>>
      /\ last' = IF cmd.kind = "install" THEN "done" ELSE last
  BY DEF AllDone
<1>2. Ended
  BY DEF AllDone, Ended
<1>3. CASE cmd.kind = "install"
  <2>1. InstallHost(m')
    BY <1>0, <1>1 DEF InstallHost, Shape
  <2> QED
    BY <1>1, <1>2, <1>3, <2>1, InstallInv
<1>4. CASE cmd.kind = "uninstall"
  BY <1>1, <1>2, <1>4, UninstallInv
<1> QED
  BY <1>0, <1>1, <1>3, <1>4 DEF Shape

LEMMA PlanFacts ==
  ASSUME Shape, NEW elsewhere \in BOOLEAN, NEW v, NEW r
  PROVE  /\ DOMAIN Plan(elsewhere, v, r) = {"kind", "steps", "version", "settings", "asked"}
         /\ Plan(elsewhere, v, r).kind = "install" /\ Plan(elsewhere, v, r).version = v
         /\ Plan(elsewhere, v, r).steps \in Seq(InstallSteps)
<1>1. CASE os = "linux"
  BY <1>1, LinuxInstallPlan DEF Plan, InstallSteps
<1>2. CASE os = "windows"
  BY <1>2, WindowsInstallPlan DEF Plan, InstallSteps
<1> QED
  BY <1>1, <1>2 DEF Shape

(* A command that begins, or is refused. *)
LEMMA RefusedInv ==
  ASSUME Inv, UNCHANGED <<os, m, stage, cmd, up, last>>, report'.what \in {"refused", "not installed"}
  PROVE  Inv'
<1>0. Shape /\ Uninstalling /\ Resumable /\ Upgrading /\ Released
  BY DEF Inv
<1>1. Gone(m)' <=> Gone(m)
  BY DEF Gone
<1>2. Shape'
  BY <1>0 DEF Shape, Ends, Removal, InstallSteps, Running
<1>3. Uninstalling'
  BY <1>0, <1>1 DEF Uninstalling, UninstallDone, Running
<1>4. Resumable' /\ Upgrading' /\ Released'
  BY <1>0 DEF Resumable, Swept, Upgrading, Untouched, Found, Released, Verified
<1>5. UninstalledIsGone' /\ UnchangedMeansUnchanged'
  BY DEF UninstalledIsGone, UnchangedMeansUnchanged
<1> QED
  BY <1>2, <1>3, <1>4, <1>5 DEF Inv

LEMMA InstallBeginsInv == ASSUME Inv, InstallBegins PROVE Inv'
<1>0. Shape /\ Resumable
  BY DEF Inv
<1>1. UNCHANGED <<os, m, stage, up, last>> /\ cmd.kind = "none" /\ up.phase = "none"
  BY DEF InstallBegins, Begins, Idle
<1>2. PICK r \in Requests, v \in Versions :
        \/ cmd' = Plan(TRUE, v, r)
        \/ cmd' = Plan(FALSE, v, r)
        \/ Says("refused") /\ UNCHANGED cmd
  BY DEF InstallBegins
<1>3. CASE Says("refused") /\ UNCHANGED cmd
  BY <1>1, <1>3, RefusedInv DEF Says, Reports
<1>4. CASE \E elsewhere \in BOOLEAN : cmd' = Plan(elsewhere, v, r)
  <2>1. PICK elsewhere \in BOOLEAN : cmd' = Plan(elsewhere, v, r)
    BY <1>4
  <2>2. /\ DOMAIN cmd' = {"kind", "steps", "version", "settings", "asked"}
        /\ cmd'.kind = "install" /\ cmd'.version = v /\ cmd'.steps \in Seq(InstallSteps)
    BY <1>0, <2>1, PlanFacts
  <2>3. Shape'
    BY <1>0, <1>1, <2>2 DEF Shape, InstallSteps, Running
  <2>4. Uninstalling' /\ Upgrading' /\ Released'
    BY <1>1, <2>2 DEF Uninstalling, Upgrading, Released
  <2>5. Resumable'
    BY <1>0, <1>1, <2>2 DEF Resumable, Swept
  <2>6. UninstalledIsGone' /\ UnchangedMeansUnchanged'
    BY <2>2 DEF UninstalledIsGone, UnchangedMeansUnchanged, Idle
  <2> QED
    BY <2>3, <2>4, <2>5, <2>6 DEF Inv
<1> QED
  BY <1>2, <1>3, <1>4

LEMMA UninstallBeginsInv == ASSUME Inv, UninstallBegins PROVE Inv'
<1>0. Shape /\ Resumable
  BY DEF Inv
<1>1. UNCHANGED <<os, m, stage, up, last>> /\ cmd.kind = "none" /\ up.phase = "none"
  BY DEF UninstallBegins, Begins, Idle
<1>2. CASE ~Present(m)
  <2>1. UNCHANGED cmd /\ Says(IF m.unit = "foreign" THEN "refused" ELSE "not installed")
    BY <1>2 DEF UninstallBegins
  <2>2. report'.what = IF m.unit = "foreign" THEN "refused" ELSE "not installed"
    BY <2>1 DEF Says, Reports
  <2> QED
    BY <1>1, <2>1, <2>2, RefusedInv
<1>3. CASE Present(m)
  <2>1. cmd' = [NoCommand EXCEPT !.kind = "uninstall",
                  !.steps = IF os = "linux" THEN LinuxUninstall(m) ELSE WindowsUninstall(m)]
    BY <1>3 DEF UninstallBegins
  <2>2. /\ DOMAIN cmd' = {"kind", "steps", "version", "settings", "asked"} /\ cmd'.kind = "uninstall"
        /\ cmd'.steps = IF os = "linux" THEN LinuxUninstall(m) ELSE WindowsUninstall(m)
    BY <2>1 DEF NoCommand
  <2>3. os \in {"linux", "windows"} /\ (m.unit = "marked" => os = "windows") /\ m.unit \in {"own", "marked"}
    BY <1>0, <1>3 DEF Shape, Present
  <2>4. Ends(cmd'.steps, Removal) /\ UninstallDone(m, Len(cmd'.steps))
    <3>1. CASE os = "linux"
      <4>1. Ends(cmd'.steps, LinuxRemoval) /\ Len(cmd'.steps) = IF Active(m) THEN 7 ELSE 6
        BY <2>2, <3>1, LinuxUninstallPlan
      <4>2. ~Active(m) => m.service = "stopped"
        BY DEF Active
      <4>3. m.unit = "own"
        BY <2>3, <3>1
      <4>4. UninstallDone(m, 7) /\ (~Active(m) => UninstallDone(m, 6))
        BY <3>1, <4>2, <4>3 DEF UninstallDone
      <4> QED
        BY <3>1, <4>1, <4>4 DEF Removal
    <3>2. CASE os = "windows"
      <4>1. Ends(cmd'.steps, WindowsRemoval) /\ Len(cmd'.steps) = IF Running(m) THEN 4 ELSE 3
        BY <2>2, <3>2, WindowsUninstallPlan
      <4>2. UninstallDone(m, 4) /\ UninstallDone(m, 3)
        BY <3>2 DEF UninstallDone
      <4> QED
        BY <3>2, <4>1, <4>2 DEF Removal
    <3> QED
      BY <2>3, <3>1, <3>2
  <2>5. Removal' = Removal /\ (Gone(m)' <=> Gone(m))
    BY <1>1 DEF Removal, Gone
  <2>6. Shape'
    BY <1>0, <1>1, <2>2, <2>4, <2>5 DEF Shape, Running
  <2>7. Uninstalling'
    <3>1. UninstallDone(m, Len(cmd.steps))'
      BY <1>1, <2>4, <2>5 DEF UninstallDone, Running
    <3> QED
      BY <3>1 DEF Uninstalling
  <2>8. Resumable'
    BY <1>1, <2>3 DEF Resumable, Swept
  <2>9. Upgrading' /\ Released'
    BY <1>1 DEF Upgrading, Released
  <2>10. UninstalledIsGone' /\ UnchangedMeansUnchanged'
    BY <2>2 DEF UninstalledIsGone, UnchangedMeansUnchanged, Idle
  <2> QED
    BY <2>6, <2>7, <2>8, <2>9, <2>10 DEF Inv
<1> QED
  BY <1>2, <1>3

-----------------------------------------------------------------------------
(* An upgrade, phase by phase. *)

UpFields == {"phase", "self", "mode", "want", "release", "code", "before"}

LEMMA UpgradeBeginsInv == ASSUME Inv, UpgradeBegins PROVE Inv'
<1>0. Shape /\ Resumable
  BY DEF Inv
<1>1. UNCHANGED <<os, m, stage, cmd, last>> /\ cmd.kind = "none" /\ up.phase = "none"
  BY DEF UpgradeBegins, Begins, Idle
<1>2. CASE Says("refused") /\ UNCHANGED up
  BY <1>1, <1>2, RefusedInv DEF Says, Reports
<1>3. CASE UNCHANGED report /\ \E want \in Wants, mode \in {"run", "dry", "check"}, self \in BOOLEAN :
             up' = [NoUpgrade EXCEPT !.phase = "resolve", !.want = want, !.mode = mode,
                      !.self = self, !.before = Files(m)]
  <2>1. PICK want, mode, self :
             up' = [NoUpgrade EXCEPT !.phase = "resolve", !.want = want, !.mode = mode,
                      !.self = self, !.before = Files(m)]
    BY <1>3
  <2>2. DOMAIN up' = UpFields /\ up'.phase = "resolve" /\ up'.before = Files(m)
    BY <2>1 DEF NoUpgrade, UpFields
  <2>3. up'.before[1] = m.binary
    BY <2>2, UnitOfFiles
  <2>4. Found(m.binary)'
    BY <1>1, <2>2, <2>3 DEF Found, Files
  <2>5. Shape'
    BY <1>0, <1>1, <2>2 DEF Shape, UpFields, Phases, Running
  <2>6. Uninstalling' /\ Released'
    BY <1>1, <2>2 DEF Uninstalling, Released
  <2>7. Upgrading'
    BY <1>0, <1>1, <2>2, <2>3, <2>4 DEF Upgrading, Shape
  <2>8. Resumable'
    BY <1>0, <1>1 DEF Resumable, Swept
  <2>9. UninstalledIsGone' /\ UnchangedMeansUnchanged'
    BY <2>2 DEF UninstalledIsGone, UnchangedMeansUnchanged, Idle
  <2> QED
    BY <2>5, <2>6, <2>7, <2>8, <2>9 DEF Inv
<1> QED
  BY <1>2, <1>3 DEF UpgradeBegins

(* An upgrade that ends with everything in place. *)
LEMMA UpgradeSaysInv ==
  ASSUME Inv, cmd.kind = "none", Found(m.binary), up' = NoUpgrade, \E what : Says(what) /\ what # "uninstalled",
         UNCHANGED <<os, m, cmd, last>>, stage' \in {stage, None}
  PROVE  Inv'
<1>0. Shape /\ Resumable
  BY DEF Inv
<1>1. PICK what : Says(what) /\ what # "uninstalled"
  OBVIOUS
<1>2. report'.what # "uninstalled" /\ report'.files = up.before
  BY <1>1 DEF Says, Reports
<1>3. Shape'
  BY <1>0 DEF Shape, NoUpgrade, Phases, Programs, Running
<1>4. Uninstalling' /\ Upgrading' /\ Released'
  BY DEF Uninstalling, Upgrading, Released, NoUpgrade
<1>5. Resumable'
  BY <1>0 DEF Resumable, Swept
<1>6. UninstalledIsGone'
  BY <1>2 DEF UninstalledIsGone
<1>7. UnchangedMeansUnchanged'
  <2>1. SUFFICES ASSUME report'.files[2] # "marked" PROVE Files(m)' = report'.files
    BY DEF UnchangedMeansUnchanged
  <2>2. up.before = <<m.binary, m.unit, m.env>>
    BY <1>2, <2>1 DEF Found
  <2> QED
    BY <1>2, <2>2 DEF Files
<1> QED
  BY <1>3, <1>4, <1>5, <1>6, <1>7 DEF Inv

(* An upgrade that goes on to a later phase, with its host untouched. *)
LEMMA UpgradeGoesOn ==
  ASSUME Inv, cmd.kind = "none", UNCHANGED <<os, cmd, report, last>>, DOMAIN up' = UpFields, up'.phase # "none",
         IsHost(m'), m'.binary \in Programs, m'.unit = m.unit, m'.env = m.env, m'.service = m.service,
         stage' \in Programs, stage' # None => os = "windows", m'.binary # m.binary => os = "windows",
         up'.phase \in Phases, Upgrading', Released'
  PROVE  Inv'
<1>0. Shape /\ Resumable
  BY DEF Inv
<1>1. Shape'
  BY <1>0 DEF Shape, UpFields, Running
<1>2. Uninstalling'
  BY DEF Uninstalling
<1>3. Resumable'
  <2>1. Swept(m) => Swept(m')
    BY DEF Swept
  <2> QED
    BY <1>0, <2>1 DEF Resumable, Swept
<1>4. UninstalledIsGone' /\ UnchangedMeansUnchanged'
  BY DEF UninstalledIsGone, UnchangedMeansUnchanged, Idle
<1> QED
  BY <1>1, <1>2, <1>3, <1>4 DEF Inv

LEMMA CompareSigned == \A a, b : Compare(a, b) \in {-1, 0, 1}
<1>1. \A i, j : cmpInt(i, j) \in {-1, 0, 1}
  BY DEF cmpInt
<1>2. \A a, b : comparePre(a, b) \in {-1, 0, 1}
  BY <1>1 DEF comparePre
<1> QED
  BY <1>1, <1>2 DEF Compare

LEMMA Resolved ==
  ASSUME NEW sums \in Sites, NEW want, NEW platform, Resolve(sums, want, platform) # NoRelease
  PROVE  Resolve(sums, want, platform) \in sums
<1>1. \E r \in Matching(sums, want, platform) : Matching(sums, want, platform) = {r}
  BY DEF Resolve
<1>2. Matching(sums, want, platform) # {}
  BY <1>1
<1>3. Matching(sums, want, platform) \subseteq sums
  BY DEF Matching
<1>4. Resolve(sums, want, platform) = CHOOSE r \in Matching(sums, want, platform) : TRUE
  BY <1>1 DEF Resolve
<1> QED
  BY <1>2, <1>3, <1>4

LEMMA UpgradeResolvesInv == ASSUME Inv, UpgradeResolves PROVE Inv'
<1>0. Shape /\ Upgrading
  BY DEF Inv
<1>1. UNCHANGED <<os, m, stage, cmd, last>> /\ up.phase = "resolve"
  BY DEF UpgradeResolves
<1>2. cmd.kind = "none" /\ DOMAIN up = UpFields
  BY <1>0, <1>1 DEF Shape, UpFields
<1>3. Found(m.binary) /\ up.before[1] = m.binary
  BY <1>0, <1>1 DEF Upgrading, Found
<1>4. PICK sums \in Sites :
        LET release == Resolve(sums, up.want, os)
            cmp == IF release = NoRelease THEN 0 ELSE Comparison(release)
        IN CASE release = NoRelease -> UpgradeSays("unchanged")
             [] release # NoRelease /\ cmp = 0 -> UpgradeSays("up to date")
             [] cmp < 0 /\ up.want = {} -> UpgradeSays("newer")
             [] OTHER -> IF up.mode = "check" THEN UpgradeSays("available")
                         ELSE up' = [up EXCEPT !.phase = "fetch", !.release = release] /\ UNCHANGED report
  BY DEF UpgradeResolves
<1> DEFINE release == Resolve(sums, up.want, os)
           cmp == IF release = NoRelease THEN 0 ELSE Comparison(release)
<1>5. \/ \E what \in {"unchanged", "up to date", "newer", "available"} : UpgradeSays(what)
      \/ /\ release # NoRelease /\ cmp # 0 /\ (up.want = {} => ~(cmp < 0))
         /\ up' = [up EXCEPT !.phase = "fetch", !.release = release] /\ UNCHANGED report
  <2> HIDE DEF release, cmp
  <2>1. (CASE release = NoRelease -> UpgradeSays("unchanged")
           [] release # NoRelease /\ cmp = 0 -> UpgradeSays("up to date")
           [] cmp < 0 /\ up.want = {} -> UpgradeSays("newer")
           [] OTHER -> IF up.mode = "check" THEN UpgradeSays("available")
                       ELSE up' = [up EXCEPT !.phase = "fetch", !.release = release] /\ UNCHANGED report)
    BY <1>4 DEF release, cmp
  <2>2. CASE release = NoRelease
    <3>1. cmp = 0
      BY <2>2 DEF cmp
    <3>2. UpgradeSays("unchanged")
      BY <2>1, <2>2, <3>1
    <3> QED
      BY <3>2
  <2>3. CASE release # NoRelease
    BY <2>1, <2>3
  <2> QED
    BY <2>2, <2>3
<1>6. CASE \E what \in {"unchanged", "up to date", "newer", "available"} : UpgradeSays(what)
  <2>1. up' = NoUpgrade /\ \E what : Says(what) /\ what # "uninstalled"
    BY <1>6 DEF UpgradeSays
  <2> QED
    BY <1>1, <1>2, <1>3, <2>1, UpgradeSaysInv
<1>7. CASE /\ release # NoRelease /\ cmp # 0 /\ (up.want = {} => ~(cmp < 0))
           /\ up' = [up EXCEPT !.phase = "fetch", !.release = release] /\ UNCHANGED report
  <2>1. release \in sums
    BY <1>7, Resolved
  <2>2. /\ release.version \in Versions /\ release.holds \subseteq Versions
        /\ \A v, w \in release.holds : v = w
    BY <2>1, MachineAssumption
  <2>3. up.want = {} /\ m.binary # None => Compare(release.version, m.binary) > 0
    <3>1. SUFFICES ASSUME up.want = {}, m.binary # None PROVE Compare(release.version, m.binary) > 0
      OBVIOUS
    <3>2. cmp = Compare(release.version, m.binary)
      BY <1>7, <3>1 DEF Comparison
    <3>3. cmp \in {-1, 0, 1}
      BY <3>2, CompareSigned
    <3> HIDE DEF cmp, release
    <3>4. cmp # 0 /\ ~(cmp < 0)
      BY <1>7, <3>1
    <3>5. cmp > 0
      BY <3>3, <3>4
    <3> QED
      BY <3>2, <3>5
  <2> HIDE DEF release, cmp
  <2>4. /\ DOMAIN up' = UpFields /\ up'.phase = "fetch" /\ up'.release = release /\ up'.want = up.want
        /\ up'.before = up.before /\ up'.mode = up.mode /\ up'.code = up.code
    BY <1>2, <1>7 DEF UpFields
  <2>5. Found(m.binary)'
    BY <1>1, <1>3, <2>4 DEF Found
  <2>6. Upgrading'
    BY <1>0, <1>1, <1>3, <2>4, <2>5 DEF Upgrading, Shape
  <2>7. Released'
    BY <1>3, <2>2, <2>3, <2>4 DEF Released
  <2>8. up'.phase \in Phases
    BY <2>4 DEF Phases
  <2> QED
    BY <1>0, <1>1, <1>2, <1>7, <2>4, <2>6, <2>7, <2>8, UpgradeGoesOn DEF Shape
<1> QED
  BY <1>5, <1>6, <1>7

LEMMA UpgradeFetchesInv == ASSUME Inv, UpgradeFetches PROVE Inv'
<1>0. Shape /\ Upgrading /\ Released
  BY DEF Inv
<1>1. UNCHANGED <<os, m, cmd, last>> /\ up.phase = "fetch" /\ stage' = None
  BY DEF UpgradeFetches
<1>2. cmd.kind = "none" /\ DOMAIN up = UpFields
  BY <1>0, <1>1 DEF Shape, UpFields
<1>3. Found(m.binary) /\ up.before[1] = m.binary
  BY <1>0, <1>1 DEF Upgrading, Found
<1>4. CASE UpgradeSays("unchanged")
  <2>1. up' = NoUpgrade /\ \E what : Says(what) /\ what # "uninstalled"
    BY <1>4 DEF UpgradeSays
  <2> QED
    BY <1>1, <1>2, <1>3, <2>1, UpgradeSaysInv
<1>5. CASE Verified(up.release) /\ up' = [up EXCEPT !.phase = "hand over"] /\ UNCHANGED report
  <2>4. /\ DOMAIN up' = UpFields /\ up'.phase = "hand over" /\ up'.release = up.release /\ up'.want = up.want
        /\ up'.before = up.before /\ up'.mode = up.mode /\ up'.code = up.code
    BY <1>2, <1>5 DEF UpFields
  <2>5. Found(m.binary)'
    BY <1>1, <1>3, <2>4 DEF Found
  <2>6. Upgrading'
    BY <1>0, <1>1, <1>3, <2>4, <2>5 DEF Upgrading, Shape
  <2>7. Released'
    BY <1>0, <1>1, <1>5, <2>4 DEF Released, Verified
  <2>8. up'.phase \in Phases /\ None \in Programs
    BY <2>4 DEF Phases, Programs
  <2> QED
    BY <1>0, <1>1, <1>2, <1>5, <2>4, <2>6, <2>7, <2>8, UpgradeGoesOn DEF Shape
<1> QED
  BY <1>4, <1>5 DEF UpgradeFetches

LEMMA StepsAsideInv == ASSUME Inv, StepsAside PROVE Inv'
<1>0. Shape /\ Upgrading /\ Released
  BY DEF Inv
<1>1. UNCHANGED <<os, cmd, last>> /\ up.phase = "hand over"
  BY DEF StepsAside
<1>2. cmd.kind = "none" /\ DOMAIN up = UpFields /\ stage = None /\ IsHost(m) /\ m.binary \in Programs
  BY <1>0, <1>1 DEF Shape, UpFields, Upgrading
<1>3. Found(m.binary) /\ up.before[1] = m.binary
  BY <1>0, <1>1 DEF Upgrading, Found
<1>4. CASE UNCHANGED <<m, stage>> /\ UpgradeSays("unchanged")
  <2>1. up' = NoUpgrade /\ \E what : Says(what) /\ what # "uninstalled"
    BY <1>4 DEF UpgradeSays
  <2> QED
    BY <1>1, <1>2, <1>3, <1>4, <2>1, UpgradeSaysInv
<1>5. CASE up' = [up EXCEPT !.phase = "child"] /\ UNCHANGED <<m, stage, report>>
  <2>1. /\ DOMAIN up' = UpFields /\ up'.phase = "child" /\ up'.release = up.release /\ up'.want = up.want
        /\ up'.before = up.before /\ up'.mode = up.mode /\ up'.code = up.code
    BY <1>2, <1>5 DEF UpFields
  <2>2. Untouched'
    BY <1>1, <1>2, <1>3, <1>5, <2>1 DEF Found, Untouched
  <2>3. Upgrading'
    BY <1>1, <1>2, <1>3, <1>5, <2>1, <2>2 DEF Upgrading
  <2>4. Released'
    BY <1>0, <1>1, <1>2, <2>1 DEF Released, Verified
  <2>5. up'.phase \in Phases
    BY <2>1 DEF Phases
  <2> QED
    BY <1>0, <1>1, <1>2, <1>5, <2>1, <2>3, <2>4, <2>5, UpgradeGoesOn DEF Shape
<1>6. CASE /\ MovesAside /\ up' = [up EXCEPT !.phase = "child"]
           /\ stage' = m.binary /\ m' = RemoveBinary(m) /\ UNCHANGED report
  <2>1. /\ DOMAIN up' = UpFields /\ up'.phase = "child" /\ up'.release = up.release /\ up'.want = up.want
        /\ up'.before = up.before /\ up'.mode = up.mode /\ up'.code = up.code
    BY <1>2, <1>6 DEF UpFields
  <2>2. os = "windows" /\ up.mode = "run"
    BY <1>6 DEF MovesAside
  <2>3. IsHost(m') /\ m'.binary = None /\ m'.unit = m.unit /\ m'.env = m.env /\ m'.service = m.service
    BY <1>2, <1>6 DEF RemoveBinary, IsHost, HostFields
  <2>4. Untouched'
    BY <1>3, <1>6, <2>1, <2>2, <2>3 DEF Found, Untouched
  <2>5. Upgrading'
    BY <1>1, <1>2, <1>3, <1>6, <2>1, <2>4 DEF Upgrading
  <2>6. Released'
    BY <1>0, <1>1, <1>2, <2>1 DEF Released, Verified
  <2>7. up'.phase \in Phases /\ None \in Programs
    BY <2>1 DEF Phases, Programs
  <2> QED
    BY <1>0, <1>1, <1>2, <1>6, <2>1, <2>2, <2>3, <2>5, <2>6, <2>7, UpgradeGoesOn DEF Shape
<1> QED
  BY <1>4, <1>5, <1>6 DEF StepsAside

LEMMA HandsOverInv == ASSUME Inv, HandsOver PROVE Inv'
<1>0. Shape /\ Resumable /\ Upgrading /\ Released
  BY DEF Inv
<1>1. UNCHANGED <<os, m, stage, report, last>> /\ up.phase = "child" /\ cmd.kind = "none"
  BY DEF HandsOver
<1>2. /\ DOMAIN up = UpFields /\ IsHost(m) /\ m.binary \in Programs /\ stage \in Programs
      /\ stage # None => os = "windows"
  BY <1>0 DEF Shape, UpFields
<1>3. Untouched /\ up.before[1] \in Programs /\ (up.before[1] # None => m.binary # None \/ stage # None)
  BY <1>0, <1>1 DEF Upgrading
<1>4. CASE \E code \in {"not run", "failed", "ok"} : ChildSays(code)
  <2>1. PICK code \in {"not run", "failed", "ok"} : up' = [up EXCEPT !.phase = "finish", !.code = code] /\ UNCHANGED cmd
    BY <1>4 DEF ChildSays
  <2>2. /\ DOMAIN up' = UpFields /\ up'.phase = "finish" /\ up'.before = up.before /\ up'.mode = up.mode
    BY <1>2, <2>1 DEF UpFields
  <2>3. Untouched'
    BY <1>1, <1>3, <2>2 DEF Untouched, Found
  <2>4. Upgrading'
    BY <1>1, <1>3, <2>2, <2>3 DEF Upgrading
  <2>5. Released'
    BY <2>2 DEF Released
  <2>6. up'.phase \in Phases
    BY <2>2 DEF Phases
  <2> QED
    BY <1>1, <1>2, <2>1, <2>2, <2>4, <2>5, <2>6, UpgradeGoesOn
<1>5. CASE up.mode = "run" /\ UNCHANGED up /\ \E r \in Requests, v \in up.release.holds : cmd' = Plan(TRUE, v, r)
  <2>1. PICK r \in Requests, v \in up.release.holds : cmd' = Plan(TRUE, v, r)
    BY <1>5
  <2>2. v \in Versions
    BY <1>0, <1>1 DEF Released
  <2>3. /\ DOMAIN cmd' = {"kind", "steps", "version", "settings", "asked"}
        /\ cmd'.kind = "install" /\ cmd'.version = v /\ cmd'.steps \in Seq(InstallSteps)
    BY <1>0, <2>1, PlanFacts
  <2>4. Shape'
    BY <1>0, <1>1, <1>5, <2>2, <2>3 DEF Shape, InstallSteps, Running
  <2>5. Uninstalling'
    BY <2>3 DEF Uninstalling
  <2>6. Resumable'
    BY <1>0, <1>1, <2>3 DEF Resumable, Swept
  <2>7. UninstalledIsGone' /\ UnchangedMeansUnchanged'
    BY <2>3 DEF UninstalledIsGone, UnchangedMeansUnchanged, Idle
  <2>8. Upgrading'
    BY <1>1, <1>3, <1>5, <2>3 DEF Upgrading
  <2>9. Released'
    BY <1>0, <1>1, <1>5, <2>3 DEF Released, Verified
  <2> QED
    BY <2>4, <2>5, <2>6, <2>7, <2>8, <2>9 DEF Inv
<1> QED
  BY <1>4, <1>5 DEF HandsOver

LEMMA FinishFacts ==
  ASSUME Shape, Finish
  PROVE  /\ IsHost(m') /\ m'.unit = m.unit /\ m'.env = m.env /\ m'.service = m.service
         /\ stage' \in Programs /\ (stage' # None => stage # None)
         /\ m'.binary = (IF stage # None /\ m.binary = None THEN stage ELSE m.binary)
<1>0. IsHost(m) /\ stage \in Programs
  BY DEF Shape
<1>1. CASE stage # None /\ m.binary = None /\ m' = WriteBinary(m, stage) /\ stage' = None
  BY <1>0, <1>1 DEF WriteBinary, IsHost, HostFields, Programs
<1>2. CASE (stage = None \/ m.binary # None) /\ UNCHANGED <<m, stage>>
  BY <1>0, <1>2
<1> QED
  BY <1>1, <1>2 DEF Finish

LEMMA UpgradeFinishesInv == ASSUME Inv, UpgradeFinishes PROVE Inv'
<1>0. Shape /\ Resumable /\ Upgrading
  BY DEF Inv
<1>1. UNCHANGED <<os, cmd, last>> /\ up.phase = "finish" /\ up' = NoUpgrade
  BY DEF UpgradeFinishes
<1>2. /\ cmd.kind = "none" /\ cmd.steps = <<>> /\ IsHost(m) /\ m.binary \in Programs /\ stage \in Programs
      /\ stage # None => os = "windows"
      /\ DOMAIN cmd = {"kind", "steps", "version", "settings", "asked"}
      /\ os \in {"linux", "windows"} /\ (m.unit = "marked" => os = "windows" /\ Running(m))
  BY <1>0, <1>1 DEF Shape
<1>3. Uninstalling' /\ Upgrading' /\ Released'
  BY <1>1, <1>2 DEF Uninstalling, Upgrading, Released, NoUpgrade
<1>4. up'.phase = "none" /\ DOMAIN up' = UpFields
  BY <1>1 DEF NoUpgrade, UpFields
<1>5. CASE Finish /\ Reports(Outcome, up.release.version, NoSettings, up.before)
  <2>1. /\ IsHost(m') /\ m'.unit = m.unit /\ m'.env = m.env /\ m'.service = m.service
        /\ stage' \in Programs /\ (stage' # None => stage # None)
        /\ m'.binary = (IF stage # None /\ m.binary = None THEN stage ELSE m.binary)
    BY <1>0, <1>5, FinishFacts
  <2>2. Shape'
    BY <1>1, <1>2, <1>4, <2>1 DEF Shape, UpFields, Phases, Running
  <2>3. Resumable'
    <3>1. os = "linux" => m'.binary = m.binary
      BY <1>2, <2>1
    <3> QED
      BY <1>0, <1>1, <2>1, <3>1 DEF Resumable, Swept
  <2>4. report'.what = Outcome /\ report'.files = up.before
    BY <1>5 DEF Reports
  <2>5. /\ Outcome \in {"unchanged", "failed", "dry run", "upgraded"}
        /\ Outcome \in {"unchanged", "dry run"} => up.mode = "dry" \/ up.code = "not run"
    BY DEF Outcome
  <2>6. UninstalledIsGone'
    BY <2>4, <2>5 DEF UninstalledIsGone
  <2>7. UnchangedMeansUnchanged'
    <3>1. SUFFICES ASSUME report'.what \in {"unchanged", "up to date", "newer", "available", "dry run"},
                          report'.files[2] # "marked"
          PROVE  Files(m)' = report'.files
      BY DEF UnchangedMeansUnchanged
    <3>2. Outcome \in {"unchanged", "dry run"}
      BY <2>4, <2>5, <3>1
    <3>3. Untouched
      BY <1>0, <1>1, <2>5, <3>2 DEF Upgrading
    <3>4. Found(m'.binary)
      BY <2>1, <3>3 DEF Untouched
    <3>5. up.before = <<m'.binary, m'.unit, m'.env>>
      BY <2>1, <2>4, <3>1, <3>4 DEF Found
    <3> QED
      BY <2>4, <3>5 DEF Files
  <2> QED
    BY <1>3, <2>2, <2>3, <2>6, <2>7 DEF Inv
<1>6. CASE Says("lost") /\ UNCHANGED <<m, stage>>
  <2>1. Shape'
    BY <1>0, <1>1, <1>2, <1>4, <1>6 DEF Shape, UpFields, Phases, Running
  <2>2. Resumable'
    BY <1>0, <1>1, <1>6 DEF Resumable, Swept
  <2>3. report'.what = "lost"
    BY <1>6 DEF Says, Reports
  <2>4. UninstalledIsGone' /\ UnchangedMeansUnchanged'
    BY <2>3 DEF UninstalledIsGone, UnchangedMeansUnchanged
  <2> QED
    BY <1>3, <2>1, <2>2, <2>4 DEF Inv
<1> QED
  BY <1>5, <1>6 DEF UpgradeFinishes

LEMMA StutterInv == ASSUME Inv, UNCHANGED vars PROVE Inv'
<1>1. UNCHANGED <<os, m, stage, cmd, up, report, last>>
  BY DEF vars
<1>2. Quiet(m')
  BY <1>1 DEF Quiet, Inv, Shape
<1> QED
  BY <1>1, <1>2, QuietInv

THEOREM NextInv == Inv /\ [Next]_vars => Inv'
<1> SUFFICES ASSUME Inv, [Next]_vars PROVE Inv'
  OBVIOUS
<1>1. CASE ServiceFails \/ ServiceRestarts \/ AdminConfigures
  <2>1. Quiet(m')
    BY <1>1, QuietHost DEF Inv
  <2>2. UNCHANGED <<os, stage, cmd, up, report, last>>
    BY <1>1 DEF ServiceFails, ServiceRestarts, AdminConfigures
  <2> QED
    BY <2>1, <2>2, QuietInv
<1> QED
  BY <1>1, InstallBeginsInv, UninstallBeginsInv, StepDoneInv, StepFailsInv, AllDoneInv, UpgradeBeginsInv,
     UpgradeResolvesInv, UpgradeFetchesInv, StepsAsideInv, HandsOverInv, UpgradeFinishesInv, KilledInv,
     RestartInv, StutterInv DEF Next

THEOREM InvAlways == Spec => []Inv
BY InitInv, NextInv, PTL DEF Spec

-----------------------------------------------------------------------------
(* What follows.                                                           *)

(* As long as the token, or on Linux the program, is there, so is the unit *)
(* by which the next uninstall finds it (systemd/uninstall.go:10-12).       *)
THEOREM UninstallIsResumable == Spec => []UninstallResumable
<1>1. Inv => UninstallResumable
  BY DEF Inv, Resumable, Swept, UninstallResumable
<1> QED
  BY <1>1, InvAlways, PTL

(* "omnistat is uninstalled" is true when it is said, and stays so until   *)
(* the next command (cli/service.go:237): no program, no settings, nothing *)
(* registered, enabled or running.  The exception is a Windows service     *)
(* that was being restarted when the uninstall looked: it may still run,   *)
(* registered but marked for deletion, without its program file.           *)
THEOREM UninstalledStaysGone == Spec => []UninstalledIsGone
<1>1. Inv => UninstalledIsGone
  BY DEF Inv
<1> QED
  BY <1>1, InvAlways, PTL

(* An upgrade that says "nothing was changed" has left the program, the    *)
(* unit and the settings as they were (cli/upgrade.go:123-161), unless the *)
(* unit it found was marked for deletion, which may since have gone.       *)
THEOREM UnchangedIsUnchanged == Spec => []UnchangedMeansUnchanged
<1>1. Inv => UnchangedMeansUnchanged
  BY DEF Inv
<1> QED
  BY <1>1, InvAlways, PTL

(* An upgrade that no kill and no restart of the machine ended leaves a    *)
(* program where it found one, unless it says that putting it back failed  *)
(* (upgrade/stepaside.go:39).                                              *)
THEOREM ProgramIsKept == Spec => ProgramNeverLost
<1> DEFINE HasProgram == (/\ up.phase # "none" /\ up'.phase = "none" /\ up.before[1] # None
                          /\ report'.what \notin {"lost", "interrupted"}) => m'.binary # None
<1>1. Inv /\ [Next]_vars => HasProgram
  <2> SUFFICES ASSUME Inv, [Next]_vars, up.phase # "none", up'.phase = "none", up.before[1] # None,
                      report'.what \notin {"lost", "interrupted"}
               PROVE  m'.binary # None
    OBVIOUS
  <2>0. Shape /\ Upgrading
    BY DEF Inv
  <2>1. CASE UNCHANGED up
    BY <2>1
  <2>2. CASE StepDone \/ StepFails \/ AllDone
    <3>1. UNCHANGED up \/ \E code \in {"failed", "ok"} : CommandEnds(code)
      BY <2>2 DEF StepDone, StepFails, AllDone
    <3>2. UNCHANGED up \/ (up.phase = "child" /\ \E code \in {"failed", "ok"} : up' = [up EXCEPT !.phase = "finish", !.code = code])
      BY <3>1 DEF CommandEnds
    <3>3. up'.phase = up.phase \/ up'.phase = "finish"
      BY <2>0, <3>2 DEF Shape
    <3> QED
      BY <3>3
  <2>3. CASE UpgradeResolves \/ UpgradeFetches
    <3>1. Found(m.binary) /\ UNCHANGED m
      BY <2>0, <2>3 DEF Upgrading, UpgradeResolves, UpgradeFetches
    <3> QED
      BY <3>1 DEF Found
  <2>4. CASE StepsAside
    <3>1. UNCHANGED m \/ up' = [up EXCEPT !.phase = "child"]
      BY <2>4 DEF StepsAside
    <3>2. CASE UNCHANGED m
      <4>1. Found(m.binary)
        BY <2>0, <2>4 DEF Upgrading, StepsAside
      <4> QED
        BY <3>2, <4>1 DEF Found
    <3>3. CASE up' = [up EXCEPT !.phase = "child"]
      BY <2>0, <3>3 DEF Shape
    <3> QED
      BY <3>1, <3>2, <3>3
  <2>5. CASE UpgradeFinishes
    <3>1. up.phase = "finish" /\ (Finish \/ report'.what = "lost")
      BY <2>5 DEF UpgradeFinishes, Says, Reports
    <3>2. m'.binary = (IF stage # None /\ m.binary = None THEN stage ELSE m.binary)
      BY <2>0, <3>1, FinishFacts
    <3>3. m.binary # None \/ stage # None
      BY <2>0, <3>1 DEF Upgrading
    <3> QED
      BY <3>2, <3>3
  <2>6. CASE HandsOver
    <3>1. UNCHANGED up \/ \E code \in {"not run", "failed", "ok"} : up' = [up EXCEPT !.phase = "finish", !.code = code]
      BY <2>6 DEF HandsOver, ChildSays
    <3>2. up'.phase = up.phase \/ up'.phase = "finish"
      BY <2>0, <3>1 DEF Shape
    <3> QED
      BY <3>2
  <2>7. CASE Killed
    BY <2>7 DEF Killed, Says, Reports
  <2>8. CASE MachineRestarts
    <3>1. ~Idle
      BY DEF Idle
    <3> QED
      BY <2>8, <3>1 DEF MachineRestarts, Says, Reports
  <2>9. CASE UpgradeBegins
    BY <2>9 DEF UpgradeBegins, Begins, Idle
  <2>10. CASE InstallBegins \/ UninstallBegins \/ ServiceFails \/ ServiceRestarts \/ AdminConfigures \/ UNCHANGED vars
    <3>1. UNCHANGED up
      BY <2>10 DEF InstallBegins, UninstallBegins, ServiceFails, ServiceRestarts, AdminConfigures, vars
    <3> QED
      BY <3>1, <2>1
  <2> QED
    BY <2>2, <2>3, <2>4, <2>5, <2>6, <2>7, <2>8, <2>9, <2>10 DEF Next
<1> QED
  BY <1>1, InvAlways, PTL DEF Spec, ProgramNeverLost

(* Without --version an upgrade only goes forward (cli/upgrade.go:100).     *)
THEOREM UpgradesGoForward ==
  ASSUME PrecedenceIsCompare
  PROVE  Spec => NoSilentDowngrade
<1> DEFINE Forward == up.phase = "child" /\ up.want = {} /\ m'.binary \notin {m.binary, None} =>
                        up.before[1] = None \/ Rank(m'.binary) > Rank(up.before[1])
<1>1. Inv /\ [Next]_vars => Forward
  <2> SUFFICES ASSUME Inv, [Next]_vars, up.phase = "child", up.want = {}, m'.binary \notin {m.binary, None},
                      up.before[1] # None
               PROVE  Rank(m'.binary) > Rank(up.before[1])
    OBVIOUS
  <2>0. Shape /\ Upgrading /\ Released
    BY DEF Inv
  <2>1. CASE StepDone \/ StepFails
    <3>1. cmd.kind = "install" /\ cmd.steps # <<>>
      <4>1. cmd.kind # "uninstall" /\ cmd.steps # <<>>
        BY <2>0, <2>1 DEF Shape, StepDone, StepFails
      <4> QED
        BY <2>0, <4>1 DEF Shape
    <3>2. PICK g \in After(Head(cmd.steps)) : m' = g
      <4>1. m' = m \/ \E g \in After(Head(cmd.steps)) : m' = g
        BY <2>1 DEF StepDone, StepFails
      <4> QED
        BY <4>1
    <3>3. m'.binary = cmd.version
      BY <2>0, <3>1, <3>2, InstallAfter DEF InstallHost
    <3>4. /\ cmd.version \in up.release.holds /\ Verified(up.release)
          /\ up.release.version \in Versions /\ up.release.holds \subseteq Versions
          /\ \A v, w \in up.release.holds : v = w
          /\ Compare(up.release.version, up.before[1]) > 0
      BY <2>0, <3>1 DEF Released
    <3>5. Compare(cmd.version, up.release.version) = 0
      BY <3>4 DEF Verified
    <3>6. up.before[1] \in Versions /\ cmd.version \in Versions
      BY <2>0, <3>4 DEF Upgrading, Programs
    <3> DEFINE old == Rank(up.before[1])
               new == Rank(cmd.version)
               rel == Rank(up.release.version)
    <3>7. /\ old \in Int /\ new \in Int /\ rel \in Int
          /\ Compare(cmd.version, up.release.version) = cmpInt(new, rel)
          /\ Compare(up.release.version, up.before[1]) = cmpInt(rel, old)
      BY <3>4, <3>6 DEF PrecedenceIsCompare
    <3> HIDE DEF old, new, rel
    <3>8. cmpInt(new, rel) = 0 /\ cmpInt(rel, old) > 0
      BY <3>4, <3>5, <3>7
    <3>9. new = rel /\ rel > old
      BY <3>7, <3>8 DEF cmpInt
    <3>10. new > old
      BY <3>7, <3>9
    <3> QED
      BY <3>3, <3>10 DEF new, old
  <2>2. CASE ServiceFails \/ ServiceRestarts \/ AdminConfigures
    BY <2>0, <2>2, QuietHost DEF Quiet
  <2>3. CASE MachineRestarts
    BY <2>0, <2>3, RestartedHost
  <2>4. CASE UpgradeFinishes \/ StepsAside \/ UpgradeResolves \/ UpgradeFetches
    BY <2>4 DEF UpgradeFinishes, StepsAside, UpgradeResolves, UpgradeFetches
  <2>5. CASE InstallBegins \/ UninstallBegins \/ UpgradeBegins \/ AllDone \/ HandsOver \/ Killed \/ UNCHANGED vars
    <3>1. UNCHANGED m
      BY <2>5 DEF InstallBegins, UninstallBegins, UpgradeBegins, AllDone, HandsOver, Killed, vars
    <3> QED
      BY <3>1
  <2> QED
    BY <2>1, <2>2, <2>3, <2>4, <2>5 DEF Next
<1> QED
  BY <1>1, InvAlways, PTL DEF Spec, NoSilentDowngrade

-----------------------------------------------------------------------------
(* What an install has done.                                               *)

Left(steps) == {steps[i] : i \in 1 .. Len(steps)}

LinuxFirst == {"stop", "binary", "mkdir", "secure dir", "config", "secure conf"}
LinuxLast == <<"env", "unit", "reload", "enable", "start">>
WindowsFirst == {"stop", "binary", "ensure dir", "config"}
WindowsLast == <<"register", "env", "source", "start">>

(* The last steps of every plan are the same; those before depend on what  *)
(* was there.                                                              *)
Planned(steps, first, final) ==
  \A i \in 1 .. Len(steps) :
    IF Len(steps) - i < Len(final) THEN steps[i] = final[Len(final) - (Len(steps) - i)]
    ELSE steps[i] \in first

(* Up, or tried again until it is; a service that runs has the program and *)
(* on Linux the settings of the host.                                      *)
Up(h) ==
  /\ h.service # "stopped"
  /\ Running(h) => h.program = h.binary /\ (os = "linux" => h.using = h.env)

(* An install of version v with the settings file e that has these steps   *)
(* left: a step that is not has done its work, or found it done.           *)
LinuxReady(h, steps, v, e) ==
  /\ Planned(steps, LinuxFirst, LinuxLast)
  /\ steps # <<>> /\ "stop" \notin Left(steps) => h.service = "stopped"
  /\ "binary" \notin Left(steps) => h.binary = v
  /\ "mkdir" \notin Left(steps) => h.dir
  /\ "secure dir" \notin Left(steps) => "dir" \notin h.loose
  /\ "config" \notin Left(steps) => h.conf # "absent"
  /\ "secure conf" \notin Left(steps) => "conf" \notin h.loose
  /\ Len(steps) <= 4 => h.env = e
  /\ Len(steps) <= 3 => h.unit = "own"
  /\ Len(steps) <= 2 => h.loaded
  /\ Len(steps) <= 1 => h.enabled
  /\ steps = <<>> => Up(h)

Current(h) == Running(h) => h.program = h.binary /\ h.binary # None

WindowsReady(h, steps, v, e) ==
  /\ Planned(steps, WindowsFirst, WindowsLast)
  /\ "stop" \notin Left(steps) => Current(h)
  /\ "binary" \notin Left(steps) => h.binary = v
  /\ "ensure dir" \notin Left(steps) => h.dir /\ h.loose = {}
  /\ "config" \notin Left(steps) => h.conf # "absent"
  /\ Len(steps) <= 3 => h.unit = "own" /\ h.loaded /\ h.enabled
  /\ Len(steps) <= 2 => h.env = e
  /\ steps = <<>> => h.service # "stopped"

Ready(h, steps, v, e) ==
  IF os = "linux" THEN LinuxReady(h, steps, v, e) ELSE WindowsReady(h, steps, v, e)

(* The stored settings read back, and with the configuration are enough. *)
Serves(h) ==
  Readable(ParseEnv(os, h.env)) /\ Precheck(ParseEnv(os, h.env), h.conf = "admin")

(* The host an install leaves. *)
Works(h, v) ==
  /\ h.binary = v /\ h.binary # None /\ h.unit = "own" /\ h.loaded /\ h.enabled
  /\ h.dir /\ h.conf # "absent" /\ h.loose = {} /\ Up(h) /\ Serves(h)

(* Nothing runs without a unit, and nobody has permissions on what is not  *)
(* there.                                                                  *)
HostFacts(h) ==
  /\ h.unit \in {"absent", "own", "foreign", "marked"}
  /\ h.unit = "absent" => h.service = "stopped"
  /\ h.loose \subseteq {"dir", "conf"}
  /\ ("dir" \in h.loose => h.dir) /\ ("conf" \in h.loose => h.conf # "absent")

Installing ==
  /\ HostFacts(m)
  /\ cmd.kind = "install" => Ready(m, cmd.steps, cmd.version, FormatEnv(os, cmd.settings))
  /\ up.phase = "finish" /\ Outcome = "upgraded" => Works(m, up.release.version)
  /\ Idle /\ report.what \in {"installed", "upgraded"} => Works(m, report.version)
  /\ Idle /\ report.what = "installed" => Stored = report.settings

Written(Values, Texts) == IF os = "linux" THEN Texts ELSE Values

(* The settings of an install can be written and are enough; those it did  *)
(* not ask for are the stored ones.                                        *)
Deciding(Values, Texts) ==
  /\ m.env \in [Names -> Written(Values, Texts) \cup {None}]
  /\ cmd.kind = "install" =>
       /\ cmd.settings \in [Names -> Values \cup {None}] /\ Readable(FormatEnv(os, cmd.settings))
       /\ Precheck(cmd.settings, Configured)
       /\ m.env # NoSettings => \A n \in Names \ cmd.asked : cmd.settings[n] = Stored[n]

-----------------------------------------------------------------------------
(* The steps of an install, again: what each leaves of what was done.      *)

LEMMA LeftTail ==
  ASSUME NEW S, NEW steps \in Seq(S), steps # <<>>
  PROVE  Left(steps) = {Head(steps)} \cup Left(Tail(steps))
<1>1. /\ Len(steps) \in Nat /\ Len(steps) >= 1 /\ Len(Tail(steps)) = Len(steps) - 1
      /\ Head(steps) = steps[1] /\ \A i \in 1 .. Len(steps) - 1 : Tail(steps)[i] = steps[i + 1]
  BY HeadTailProperties, EmptySeq, LenProperties
<1>2. ASSUME NEW x \in Left(steps) PROVE x \in {Head(steps)} \cup Left(Tail(steps))
  <2>1. PICK i \in 1 .. Len(steps) : x = steps[i]
    BY <1>2 DEF Left
  <2>2. CASE i = 1
    BY <1>1, <2>1, <2>2
  <2>3. CASE i # 1
    <3>1. i - 1 \in 1 .. Len(Tail(steps)) /\ (i - 1) + 1 = i
      BY <1>1, <2>3
    <3>2. Tail(steps)[i - 1] = x
      BY <1>1, <2>1, <3>1
    <3> QED
      BY <3>1, <3>2 DEF Left
  <2> QED
    BY <2>2, <2>3
<1>3. Head(steps) \in Left(steps)
  BY <1>1 DEF Left
<1>4. ASSUME NEW x \in Left(Tail(steps)) PROVE x \in Left(steps)
  <2>1. PICK i \in 1 .. Len(Tail(steps)) : x = Tail(steps)[i]
    BY <1>4 DEF Left
  <2>2. i + 1 \in 1 .. Len(steps) /\ steps[i + 1] = x
    BY <1>1, <2>1
  <2> QED
    BY <2>2 DEF Left
<1> QED
  BY <1>2, <1>3, <1>4

LEMMA PlannedTail ==
  ASSUME NEW S, NEW steps \in Seq(S), steps # <<>>, NEW first, NEW final, Len(final) \in Nat,
         Planned(steps, first, final)
  PROVE  /\ Planned(Tail(steps), first, final) /\ Len(steps) \in Nat \ {0} /\ Len(Tail(steps)) = Len(steps) - 1
         /\ Len(steps) > Len(final) => Head(steps) \in first
         /\ Len(steps) <= Len(final) => Head(steps) = final[Len(final) - Len(steps) + 1]
<1>1. /\ Len(steps) \in Nat /\ Len(steps) >= 1 /\ Len(Tail(steps)) = Len(steps) - 1
      /\ Head(steps) = steps[1] /\ \A i \in 1 .. Len(steps) - 1 : Tail(steps)[i] = steps[i + 1]
  BY HeadTailProperties, EmptySeq, LenProperties
<1>2. Planned(Tail(steps), first, final)
  <2>1. SUFFICES ASSUME NEW i \in 1 .. Len(Tail(steps))
        PROVE  IF Len(Tail(steps)) - i < Len(final)
                 THEN Tail(steps)[i] = final[Len(final) - (Len(Tail(steps)) - i)]
                 ELSE Tail(steps)[i] \in first
    BY DEF Planned
  <2>2. i + 1 \in 1 .. Len(steps) /\ Len(steps) - (i + 1) = Len(Tail(steps)) - i
    BY <1>1
  <2>3. IF Len(steps) - (i + 1) < Len(final) THEN steps[i + 1] = final[Len(final) - (Len(steps) - (i + 1))]
        ELSE steps[i + 1] \in first
    BY <2>2 DEF Planned
  <2>4. Tail(steps)[i] = steps[i + 1]
    BY <1>1
  <2> QED
    BY <2>2, <2>3, <2>4
<1>3. 1 \in 1 .. Len(steps)
  BY <1>1
<1>4. IF Len(steps) - 1 < Len(final) THEN steps[1] = final[Len(final) - (Len(steps) - 1)] ELSE steps[1] \in first
  BY <1>3 DEF Planned
<1>5. CASE Len(steps) > Len(final)
  <2>1. ~(Len(steps) - 1 < Len(final))
    BY <1>1, <1>5
  <2> QED
    BY <1>1, <1>2, <1>4, <1>5, <2>1
<1>6. CASE Len(steps) <= Len(final)
  <2>1. Len(steps) - 1 < Len(final) /\ Len(final) - (Len(steps) - 1) = Len(final) - Len(steps) + 1
    BY <1>1, <1>6
  <2> QED
    BY <1>1, <1>2, <1>4, <1>6, <2>1
<1> QED
  BY <1>1, <1>5, <1>6

LinuxAfterFirst(h, step, v, g) ==
  /\ g.service = (IF step = "stop" THEN "stopped" ELSE h.service)
  /\ g.binary = (IF step = "binary" THEN v ELSE h.binary)
  /\ h.dir \/ step = "mkdir" => g.dir
  /\ g.loose \subseteq h.loose
  /\ step = "secure dir" => "dir" \notin g.loose
  /\ step = "secure conf" => "conf" \notin g.loose
  /\ h.conf # "absent" => g.conf = h.conf
  /\ step = "config" => g.conf # "absent"
  /\ g.env = h.env /\ g.unit = h.unit

LEMMA LinuxFirstStep ==
  ASSUME NEW h, IsHost(h), h.unit # "marked", NEW step \in LinuxFirst, NEW v, NEW e, NEW g \in LinuxStep(h, step, v, e)
  PROVE  LinuxAfterFirst(h, step, v, g)
<1> USE DEF LinuxAfterFirst
<1>1. CASE step = "stop"
  BY <1>1, HaltedFacts DEF LinuxStep, Systemctl, Remove
<1>2. CASE step \in {"binary", "mkdir", "secure dir"}
  BY <1>2 DEF LinuxStep, Systemctl, Remove, WriteBinary, MkdirAll, Secure, IsHost, HostFields
<1>3. CASE step \in {"config", "secure conf"}
  BY <1>3 DEF LinuxStep, Systemctl, Remove, CreateFile, Secure, IsHost, HostFields
<1> QED
  BY <1>1, <1>2, <1>3 DEF LinuxFirst

LEMMA LinuxLastStep ==
  ASSUME NEW h, IsHost(h), h.unit # "marked", NEW i \in 1 .. 5, NEW v, NEW e, NEW g \in LinuxStep(h, LinuxLast[i], v, e)
  PROVE  /\ g.binary = h.binary /\ (h.dir => g.dir) /\ g.conf = h.conf /\ g.loose = h.loose
         /\ i < 5 => g.service = h.service
         /\ g.env = (IF i = 1 THEN e ELSE h.env)
         /\ g.unit = (IF i = 2 THEN "own" ELSE h.unit)
         /\ (i = 3 /\ h.unit = "own") \/ (i > 3 /\ h.loaded) => g.loaded
         /\ i = 4 \/ (i > 4 /\ h.enabled) => g.enabled
         /\ i = 5 /\ h.service = "stopped" =>
              g.service # "stopped" /\ (Running(g) => g.program = g.binary /\ g.using = g.env)
<1>0. /\ LinuxLast[1] = "env" /\ LinuxLast[2] = "unit" /\ LinuxLast[3] = "reload"
      /\ LinuxLast[4] = "enable" /\ LinuxLast[5] = "start"
  BY DEF LinuxLast
<1>1. CASE i = 1
  BY <1>0, <1>1 DEF LinuxStep, Systemctl, Remove, WriteEnv, IsHost, HostFields
<1>2. CASE i = 2
  BY <1>0, <1>2 DEF LinuxStep, Systemctl, Remove, WriteUnit, IsHost, HostFields
<1>3. CASE i = 3
  <2>1. g = [h EXCEPT !.loaded = (h.unit = "own")]
    BY <1>0, <1>3 DEF LinuxStep, Systemctl, Remove
  <2>2. "loaded" \in DOMAIN h
    BY DEF IsHost, HostFields
  <2>3. g.loaded = (h.unit = "own")
    BY <2>1, <2>2, Zenon
  <2>4. h.unit = "own" => g.loaded
    BY <2>3, Zenon
  <2>5. /\ g.binary = h.binary /\ g.dir = h.dir /\ g.conf = h.conf /\ g.loose = h.loose /\ g.service = h.service
        /\ g.env = h.env /\ g.unit = h.unit
    BY <2>1 DEF IsHost, HostFields
  <2> QED
    BY <1>3, <2>4, <2>5
<1>4. CASE i = 4
  BY <1>0, <1>4 DEF LinuxStep, Systemctl, Remove, IsHost, HostFields
<1>5. CASE i = 5
  <2>1. g \in (IF Running(h) THEN {h} ELSE Launched(h))
    BY <1>0, <1>5 DEF LinuxStep, Systemctl, Remove
  <2>2. CASE Running(h)
    BY <1>5, <2>1, <2>2 DEF Running
  <2>3. CASE ~Running(h)
    BY <1>5, <2>1, <2>3, LaunchedFacts DEF Running
  <2> QED
    BY <2>2, <2>3
<1> QED
  BY <1>1, <1>2, <1>3, <1>4, <1>5

LEMMA LinuxReadyStep ==
  ASSUME os = "linux", NEW h, IsHost(h), h.unit # "marked", NEW steps \in Seq(LinuxInstallSteps), steps # <<>>,
         NEW v, NEW e, LinuxReady(h, steps, v, e), NEW g \in LinuxStep(h, Head(steps), v, e)
  PROVE  LinuxReady(g, Tail(steps), v, e)
<1>1. Len(LinuxLast) = 5 /\ Len(LinuxLast) \in Nat
  BY DEF LinuxLast
<1>0. Planned(steps, LinuxFirst, LinuxLast)
  BY DEF LinuxReady
<1>8. /\ Planned(Tail(steps), LinuxFirst, LinuxLast) /\ Len(steps) \in Nat \ {0} /\ Len(Tail(steps)) = Len(steps) - 1
      /\ Len(steps) > Len(LinuxLast) => Head(steps) \in LinuxFirst
      /\ Len(steps) <= Len(LinuxLast) => Head(steps) = LinuxLast[Len(LinuxLast) - Len(steps) + 1]
  BY <1>0, <1>1, PlannedTail
<1> DEFINE n == Len(steps)
           rest == Tail(steps)
           step == Head(steps)
<1>2. /\ Planned(rest, LinuxFirst, LinuxLast) /\ n \in Nat \ {0} /\ Len(rest) = n - 1
      /\ n > 5 => step \in LinuxFirst
      /\ n <= 5 => step = LinuxLast[5 - n + 1]
  BY <1>1, <1>8
<1>3. Left(steps) = {step} \cup Left(rest)
  BY LeftTail
<1>9. Len(rest) \in Nat /\ Len(<<>>) = 0
  BY <1>2
<1>4. rest = <<>> => n = 1
  <2> HIDE DEF n, rest
  <2> QED
    BY <1>2, <1>9
<1>5. /\ "stop" \notin Left(steps) => h.service = "stopped"
      /\ "binary" \notin Left(steps) => h.binary = v
      /\ "mkdir" \notin Left(steps) => h.dir
      /\ "secure dir" \notin Left(steps) => "dir" \notin h.loose
      /\ "config" \notin Left(steps) => h.conf # "absent"
      /\ "secure conf" \notin Left(steps) => "conf" \notin h.loose
      /\ n <= 4 => h.env = e
      /\ n <= 3 => h.unit = "own"
      /\ n <= 2 => h.loaded
      /\ n <= 1 => h.enabled
  BY DEF LinuxReady
<1>6. CASE n > 5
  <2>1. /\ g.service = (IF step = "stop" THEN "stopped" ELSE h.service)
        /\ g.binary = (IF step = "binary" THEN v ELSE h.binary)
        /\ h.dir \/ step = "mkdir" => g.dir
        /\ g.loose \subseteq h.loose
        /\ step = "secure dir" => "dir" \notin g.loose
        /\ step = "secure conf" => "conf" \notin g.loose
        /\ h.conf # "absent" => g.conf = h.conf
        /\ step = "config" => g.conf # "absent"
    <3>1. step \in LinuxFirst /\ g \in LinuxStep(h, step, v, e)
      BY <1>2, <1>6
    <3> HIDE DEF step
    <3>2. LinuxAfterFirst(h, step, v, g)
      BY <3>1, LinuxFirstStep
    <3> QED
      BY <3>2 DEF LinuxAfterFirst
  <2>2. ~(Len(rest) <= 4) /\ ~(Len(rest) <= 3) /\ ~(Len(rest) <= 2) /\ ~(Len(rest) <= 1) /\ rest # <<>>
    BY <1>2, <1>4, <1>6
  <2> HIDE DEF rest, step, n
  <2>3. /\ "stop" \notin Left(rest) => g.service = "stopped"
        /\ "binary" \notin Left(rest) => g.binary = v
        /\ "mkdir" \notin Left(rest) => g.dir
        /\ "secure dir" \notin Left(rest) => "dir" \notin g.loose
        /\ "config" \notin Left(rest) => g.conf # "absent"
        /\ "secure conf" \notin Left(rest) => "conf" \notin g.loose
    BY <1>3, <1>5, <2>1 DEF step
  <2> QED
    BY <1>2, <2>2, <2>3 DEF LinuxReady, rest
<1>7. CASE n <= 5
  <2> DEFINE i == 5 - n + 1
  <2>1. i \in 1 .. 5 /\ step = LinuxLast[i] /\ i = 6 - n
    <3> HIDE DEF n, step
    <3>1. n \in 1 .. 5
      BY <1>2, <1>7
    <3> QED
      BY <1>2, <3>1
  <2> HIDE DEF i
  <2>2. /\ g.binary = h.binary /\ (h.dir => g.dir) /\ g.conf = h.conf /\ g.loose = h.loose
        /\ i < 5 => g.service = h.service
        /\ g.env = (IF i = 1 THEN e ELSE h.env)
        /\ g.unit = (IF i = 2 THEN "own" ELSE h.unit)
        /\ (i = 3 /\ h.unit = "own") \/ (i > 3 /\ h.loaded) => g.loaded
        /\ i = 4 \/ (i > 4 /\ h.enabled) => g.enabled
        /\ i = 5 /\ h.service = "stopped" =>
             g.service # "stopped" /\ (Running(g) => g.program = g.binary /\ g.using = g.env)
    BY <2>1, LinuxLastStep
  <2>3. step \in {"env", "unit", "reload", "enable", "start"}
    <3>1. /\ LinuxLast[1] = "env" /\ LinuxLast[2] = "unit" /\ LinuxLast[3] = "reload"
          /\ LinuxLast[4] = "enable" /\ LinuxLast[5] = "start"
      BY DEF LinuxLast
    <3>2. i = 1 \/ i = 2 \/ i = 3 \/ i = 4 \/ i = 5
      BY <2>1
    <3> HIDE DEF step
    <3> QED
      BY <2>1, <3>1, <3>2
  <2> HIDE DEF rest, step, n
  <2>4. /\ "stop" \notin Left(rest) => "stop" \notin Left(steps)
        /\ "binary" \notin Left(rest) => g.binary = v
        /\ "mkdir" \notin Left(rest) => g.dir
        /\ "secure dir" \notin Left(rest) => "dir" \notin g.loose
        /\ "config" \notin Left(rest) => g.conf # "absent"
        /\ "secure conf" \notin Left(rest) => "conf" \notin g.loose
    BY <1>3, <1>5, <2>2, <2>3 DEF step
  <2>11. n \in 1 .. 5 /\ i = 6 - n
    BY <1>2, <1>7, <2>1
  <2>12. /\ n - 1 <= 4 => n <= 4 \/ i = 1
         /\ n - 1 <= 3 => n <= 3 \/ i = 2
         /\ n - 1 <= 2 => (n <= 3 /\ i = 3) \/ (n <= 2 /\ i > 3)
         /\ n - 1 <= 1 => i = 4 \/ (i > 4 /\ n <= 1)
         /\ (n # 1 => i < 5) /\ (n = 1 => i = 5)
    BY <2>11
  <2>5. n - 1 <= 4 => g.env = e
    <3>1. (n <= 4 => h.env = e) /\ g.env = (IF i = 1 THEN e ELSE h.env)
      BY <1>5, <2>2
    <3> QED
      BY <2>12, <3>1
  <2>6. n - 1 <= 3 => g.unit = "own"
    <3>1. (n <= 3 => h.unit = "own") /\ g.unit = (IF i = 2 THEN "own" ELSE h.unit)
      BY <1>5, <2>2
    <3> QED
      BY <2>12, <3>1
  <2>7. n - 1 <= 2 => g.loaded
    <3>1. /\ n <= 3 => h.unit = "own"
          /\ n <= 2 => h.loaded
          /\ (i = 3 /\ h.unit = "own") \/ (i > 3 /\ h.loaded) => g.loaded
      BY <1>5, <2>2
    <3> QED
      BY <2>12, <3>1
  <2>8. n - 1 <= 1 => g.enabled
    <3>1. (n <= 1 => h.enabled) /\ (i = 4 \/ (i > 4 /\ h.enabled) => g.enabled)
      BY <1>5, <2>2
    <3> QED
      BY <2>12, <3>1
  <2>9. rest # <<>> /\ "stop" \notin Left(rest) => g.service = "stopped"
    <3>1. rest # <<>> => n # 1
      <4>1. rest \in Seq(LinuxInstallSteps)
        BY HeadTailProperties DEF rest
      <4> QED
        BY <1>2, <4>1, EmptySeq
    <3>2. ("stop" \notin Left(steps) => h.service = "stopped") /\ (i < 5 => g.service = h.service)
      BY <1>5, <2>2
    <3> QED
      BY <2>4, <2>12, <3>1, <3>2
  <2>10. rest = <<>> => Up(g)
    <3>1. rest = <<>> => "stop" \notin Left(rest)
      BY DEF Left
    <3>2. rest = <<>> => i = 5 /\ h.service = "stopped"
      BY <1>4, <1>5, <2>4, <2>12, <3>1
    <3> QED
      BY <2>2, <3>2 DEF Up
  <2> QED
    BY <1>2, <2>4, <2>5, <2>6, <2>7, <2>8, <2>9, <2>10 DEF LinuxReady, rest
<1> QED
  BY <1>2, <1>6, <1>7

WindowsAfterFirst(h, step, v, g) ==
  /\ g.binary = (IF step = "binary" THEN v ELSE h.binary)
  /\ step = "stop" \/ Current(h) => Current(g)
  /\ h.dir \/ step = "ensure dir" => g.dir
  /\ h.loose = {} \/ step = "ensure dir" => g.loose = {}
  /\ h.conf # "absent" \/ step = "config" => g.conf # "absent"

LEMMA WindowsFirstStep ==
  ASSUME NEW h, IsHost(h), NEW step \in WindowsFirst, NEW v, NEW e, NEW held, NEW g \in WindowsStep(h, step, v, e, held)
  PROVE  WindowsAfterFirst(h, step, v, g)
<1>1. CASE step = "stop"
  <2>1. g = Halted(h) \/ (g = h /\ ~Running(h))
    BY <1>1 DEF WindowsStep, WinStop, StoreEnv, EventSource
  <2> QED
    BY <1>1, <2>1, HaltedFacts DEF WindowsAfterFirst, Current, Running
<1>2. CASE step = "binary"
  <2>1. g = WriteBinary(h, v) /\ ~(h.binary # None /\ Running(h))
    BY <1>2 DEF WindowsStep, StoreEnv, EventSource, CopyBinary
  <2> QED
    BY <1>2, <2>1 DEF WindowsAfterFirst, Current, Running, WriteBinary, IsHost, HostFields
<1>3. CASE step = "ensure dir"
  <2>1. g = EnsureConfigDir(h)
    BY <1>3 DEF WindowsStep, StoreEnv, EventSource
  <2> QED
    BY <1>3, <2>1 DEF WindowsAfterFirst, Current, Running, EnsureConfigDir, IsHost, HostFields
<1>4. CASE step = "config"
  <2>1. g = CreateFile(h)
    BY <1>4 DEF WindowsStep, StoreEnv, EventSource
  <2> QED
    BY <1>4, <2>1 DEF WindowsAfterFirst, Current, Running, CreateFile, IsHost, HostFields
<1> QED
  BY <1>1, <1>2, <1>3, <1>4 DEF WindowsFirst

WindowsAfterLast(h, i, e, g) ==
  /\ g.binary = h.binary /\ (h.dir => g.dir) /\ g.conf = h.conf /\ g.loose = h.loose
  /\ Current(h) => Current(g)
  /\ i = 1 \/ h.unit = "own" => g.unit = "own"
  /\ i = 1 \/ h.loaded => g.loaded
  /\ i = 1 \/ h.enabled => g.enabled
  /\ g.env = (IF i = 2 THEN e ELSE h.env)

LEMMA WindowsLastStep ==
  ASSUME NEW h, IsHost(h), NEW i \in 1 .. 4, NEW v, NEW e, NEW held, NEW g \in WindowsStep(h, WindowsLast[i], v, e, held)
  PROVE  WindowsAfterLast(h, i, e, g)
<1>0. /\ WindowsLast[1] = "register" /\ WindowsLast[2] = "env" /\ WindowsLast[3] = "source" /\ WindowsLast[4] = "start"
  BY DEF WindowsLast
<1>1. CASE i = 1
  <2>1. g = [h EXCEPT !.unit = "own", !.loaded = TRUE, !.enabled = TRUE]
    BY <1>0, <1>1 DEF WindowsStep, StoreEnv, EventSource, Register
  <2> QED
    BY <1>1, <2>1 DEF WindowsAfterLast, Current, Running, IsHost, HostFields
<1>2. CASE i = 2
  <2>1. g = [h EXCEPT !.env = e]
    BY <1>0, <1>2 DEF WindowsStep, StoreEnv, EventSource, WriteEnv
  <2> QED
    BY <1>2, <2>1 DEF WindowsAfterLast, Current, Running, IsHost, HostFields
<1>3. CASE i = 3
  <2>1. g = [h EXCEPT !.source = TRUE]
    BY <1>0, <1>3 DEF WindowsStep, StoreEnv, EventSource
  <2> QED
    BY <1>3, <2>1 DEF WindowsAfterLast, Current, Running, IsHost, HostFields
<1>4. CASE i = 4
  <2>1. g \in WinStart(h)
    BY <1>0, <1>4 DEF WindowsStep, StoreEnv, EventSource
  <2>2. CASE g = h
    BY <1>4, <2>2 DEF WindowsAfterLast
  <2>3. CASE g \in Launched(h)
    BY <1>4, <2>3, LaunchedFacts DEF WindowsAfterLast, Current, Running
  <2> QED
    BY <2>1, <2>2, <2>3 DEF WinStart
<1> QED
  BY <1>1, <1>2, <1>3, <1>4

LEMMA WindowsReadyStep ==
  ASSUME NEW h, IsHost(h), NEW steps \in Seq(WindowsInstallSteps), steps # <<>>, NEW v, NEW e, NEW held,
         WindowsReady(h, steps, v, e), NEW g \in WindowsStep(h, Head(steps), v, e, held), Watched(Head(steps), g)
  PROVE  WindowsReady(g, Tail(steps), v, e)
<1>1. Len(WindowsLast) = 4 /\ Len(WindowsLast) \in Nat
  BY DEF WindowsLast
<1>0. Planned(steps, WindowsFirst, WindowsLast)
  BY DEF WindowsReady
<1>8. /\ Planned(Tail(steps), WindowsFirst, WindowsLast) /\ Len(steps) \in Nat \ {0} /\ Len(Tail(steps)) = Len(steps) - 1
      /\ Len(steps) > Len(WindowsLast) => Head(steps) \in WindowsFirst
      /\ Len(steps) <= Len(WindowsLast) => Head(steps) = WindowsLast[Len(WindowsLast) - Len(steps) + 1]
  BY <1>0, <1>1, PlannedTail
<1> DEFINE n == Len(steps)
           rest == Tail(steps)
           step == Head(steps)
<1>2. /\ Planned(rest, WindowsFirst, WindowsLast) /\ n \in Nat \ {0} /\ Len(rest) = n - 1
      /\ n > 4 => step \in WindowsFirst
      /\ n <= 4 => step = WindowsLast[4 - n + 1]
  BY <1>1, <1>8
<1>3. Left(steps) = {step} \cup Left(rest)
  BY LeftTail
<1>9. Len(rest) \in Nat /\ Len(<<>>) = 0
  BY <1>2
<1>4. rest = <<>> => n = 1
  <2> HIDE DEF n, rest
  <2> QED
    BY <1>2, <1>9
<1>5. /\ "stop" \notin Left(steps) => Current(h)
      /\ "binary" \notin Left(steps) => h.binary = v
      /\ "ensure dir" \notin Left(steps) => h.dir /\ h.loose = {}
      /\ "config" \notin Left(steps) => h.conf # "absent"
      /\ n <= 3 => h.unit = "own" /\ h.loaded /\ h.enabled
      /\ n <= 2 => h.env = e
  BY DEF WindowsReady
<1>6. CASE n > 4
  <2>1. WindowsAfterFirst(h, step, v, g)
    <3>1. step \in WindowsFirst /\ g \in WindowsStep(h, step, v, e, held)
      BY <1>2, <1>6
    <3> HIDE DEF step
    <3> QED
      BY <3>1, WindowsFirstStep
  <2>2. ~(Len(rest) <= 3) /\ ~(Len(rest) <= 2) /\ rest # <<>>
    BY <1>2, <1>4, <1>6
  <2> HIDE DEF rest, step, n
  <2>3. /\ "stop" \notin Left(rest) => Current(g)
        /\ "binary" \notin Left(rest) => g.binary = v
        /\ "ensure dir" \notin Left(rest) => g.dir /\ g.loose = {}
        /\ "config" \notin Left(rest) => g.conf # "absent"
    BY <1>3, <1>5, <2>1 DEF WindowsAfterFirst
  <2> QED
    BY <1>2, <2>2, <2>3 DEF WindowsReady, rest
<1>7. CASE n <= 4
  <2> DEFINE i == 4 - n + 1
  <2>1. i \in 1 .. 4 /\ step = WindowsLast[i] /\ i = 5 - n
    <3> HIDE DEF n, step
    <3>1. n \in 1 .. 4
      BY <1>2, <1>7
    <3> QED
      BY <1>2, <3>1
  <2> HIDE DEF i
  <2>2. WindowsAfterLast(h, i, e, g)
    <3>1. g \in WindowsStep(h, WindowsLast[i], v, e, held)
      BY <2>1
    <3> HIDE DEF step
    <3> QED
      BY <2>1, <3>1, WindowsLastStep
  <2>3. step \in {"register", "env", "source", "start"} /\ (i = 4 => step = "start")
    <3>1. /\ WindowsLast[1] = "register" /\ WindowsLast[2] = "env" /\ WindowsLast[3] = "source"
          /\ WindowsLast[4] = "start"
      BY DEF WindowsLast
    <3>2. i = 1 \/ i = 2 \/ i = 3 \/ i = 4
      BY <2>1
    <3> HIDE DEF step
    <3> QED
      BY <2>1, <3>1, <3>2
  <2>0. Watched(step, g)
    OBVIOUS
  <2> HIDE DEF rest, step, n
  <2>4. /\ "stop" \notin Left(rest) => Current(g)
        /\ "binary" \notin Left(rest) => g.binary = v
        /\ "ensure dir" \notin Left(rest) => g.dir /\ g.loose = {}
        /\ "config" \notin Left(rest) => g.conf # "absent"
    BY <1>3, <1>5, <2>2, <2>3 DEF WindowsAfterLast
  <2>11. n \in 1 .. 4 /\ i = 5 - n
    BY <1>2, <1>7, <2>1
  <2>12. /\ n - 1 <= 3 => n <= 3 \/ i = 1
         /\ n - 1 <= 2 => n <= 2 \/ i = 2
         /\ n = 1 => i = 4
    BY <2>11
  <2>5. n - 1 <= 3 => g.unit = "own" /\ g.loaded /\ g.enabled
    <3>1. (n <= 3 => h.unit = "own") /\ (n <= 3 => h.loaded) /\ (n <= 3 => h.enabled)
      BY <1>5
    <3>2. /\ i = 1 \/ h.unit = "own" => g.unit = "own"
          /\ i = 1 \/ h.loaded => g.loaded
          /\ i = 1 \/ h.enabled => g.enabled
      BY <2>2 DEF WindowsAfterLast
    <3> QED
      BY <2>12, <3>1, <3>2
  <2>6. n - 1 <= 2 => g.env = e
    <3>1. (n <= 2 => h.env = e) /\ g.env = (IF i = 2 THEN e ELSE h.env)
      BY <1>5, <2>2 DEF WindowsAfterLast
    <3> QED
      BY <2>12, <3>1
  <2>7. rest = <<>> => g.service # "stopped"
    <3>1. rest = <<>> => Running(g)
      BY <1>4, <2>0, <2>3, <2>12 DEF Watched
    <3> QED
      BY <3>1 DEF Running
  <2> QED
    BY <1>2, <2>4, <2>5, <2>6, <2>7 DEF WindowsReady, rest
<1> QED
  BY <1>2, <1>6, <1>7

LEMMA LeftConcat ==
  ASSUME NEW S, NEW p \in Seq(S), NEW q \in Seq(S)
  PROVE  Left(p \o q) = Left(p) \cup Left(q)
<1>1. /\ Len(p) \in Nat /\ Len(q) \in Nat /\ Len(p \o q) = Len(p) + Len(q)
      /\ \A i \in 1 .. Len(p) + Len(q) : (p \o q)[i] = IF i <= Len(p) THEN p[i] ELSE q[i - Len(p)]
  BY ConcatProperties
<1>2. ASSUME NEW x \in Left(p \o q) PROVE x \in Left(p) \cup Left(q)
  <2>1. PICK i \in 1 .. Len(p) + Len(q) : x = (p \o q)[i]
    BY <1>1, <1>2 DEF Left
  <2>2. CASE i <= Len(p)
    <3>1. i \in 1 .. Len(p) /\ x = p[i]
      BY <1>1, <2>1, <2>2
    <3> QED
      BY <3>1 DEF Left
  <2>3. CASE ~(i <= Len(p))
    <3>1. i - Len(p) \in 1 .. Len(q) /\ x = q[i - Len(p)]
      BY <1>1, <2>1, <2>3
    <3> QED
      BY <3>1 DEF Left
  <2> QED
    BY <2>2, <2>3
<1>3. ASSUME NEW x \in Left(p) PROVE x \in Left(p \o q)
  <2>1. PICK i \in 1 .. Len(p) : x = p[i]
    BY <1>3 DEF Left
  <2>2. i \in 1 .. Len(p \o q) /\ (p \o q)[i] = x
    BY <1>1, <2>1
  <2> QED
    BY <2>2 DEF Left
<1>4. ASSUME NEW x \in Left(q) PROVE x \in Left(p \o q)
  <2>1. PICK i \in 1 .. Len(q) : x = q[i]
    BY <1>4 DEF Left
  <2>2. i + Len(p) \in 1 .. Len(p \o q) /\ ~(i + Len(p) <= Len(p)) /\ (i + Len(p)) - Len(p) = i
    BY <1>1, <2>1
  <2>3. (p \o q)[i + Len(p)] = x
    BY <1>1, <2>1, <2>2
  <2> QED
    BY <2>2, <2>3 DEF Left
<1> QED
  BY <1>2, <1>3, <1>4

LEMMA Joined ==
  ASSUME NEW S, NEW p \in Seq(S), NEW q \in Seq(S)
  PROVE  p \o q \in Seq(S) /\ Left(p \o q) = Left(p) \cup Left(q)
  BY LeftConcat, ConcatProperties

LEMMA PlannedConcat ==
  ASSUME NEW S, NEW first \in SUBSET S, NEW p \in Seq(first), NEW q \in Seq(S)
  PROVE  Planned(p \o q, first, q) /\ Len(p \o q) >= Len(q)
<1>0. p \in Seq(S)
  OBVIOUS
<1>1. /\ Len(p) \in Nat /\ Len(q) \in Nat /\ Len(p \o q) = Len(p) + Len(q)
      /\ \A i \in 1 .. Len(p) + Len(q) : (p \o q)[i] = IF i <= Len(p) THEN p[i] ELSE q[i - Len(p)]
  BY <1>0, ConcatProperties
<1>2. \A i \in 1 .. Len(p) : p[i] \in first
  OBVIOUS
<1>3. ASSUME NEW i \in 1 .. Len(p \o q)
      PROVE  IF Len(p \o q) - i < Len(q) THEN (p \o q)[i] = q[Len(q) - (Len(p \o q) - i)] ELSE (p \o q)[i] \in first
  <2>1. CASE i <= Len(p)
    <3>1. i \in 1 .. Len(p) /\ ~(Len(p \o q) - i < Len(q))
      BY <1>1, <1>3, <2>1
    <3> QED
      BY <1>1, <1>2, <1>3, <2>1, <3>1
  <2>2. CASE ~(i <= Len(p))
    <3>1. Len(p \o q) - i < Len(q) /\ Len(q) - (Len(p \o q) - i) = i - Len(p)
      BY <1>1, <1>3, <2>2
    <3> QED
      BY <1>1, <1>3, <2>2, <3>1
  <2> QED
    BY <2>1, <2>2
<1>4. Len(p \o q) >= Len(q)
  BY <1>1
<1> QED
  BY <1>3, <1>4 DEF Planned

(* An optional step of a plan. *)
LEMMA OptionalStep ==
  ASSUME NEW S, NEW x \in S, NEW c
  PROVE  If(c, <<x>>) \in Seq(S) /\ (c => x \in Left(If(c, <<x>>)))
<1>1. <<x>> \in Seq(S) /\ <<>> \in Seq(S) /\ Len(<<x>>) = 1 /\ <<x>>[1] = x
  OBVIOUS
<1>2. x \in Left(<<x>>)
  BY <1>1 DEF Left
<1> QED
  BY <1>1, <1>2 DEF If

LEMMA LinuxPlanReady ==
  ASSUME os = "linux", NEW h, IsHost(h), HostFacts(h), h.unit \notin {"foreign", "marked"},
         NEW elsewhere \in BOOLEAN, NEW v, elsewhere \/ v = h.binary, NEW e
  PROVE  LinuxReady(h, LinuxInstall(h, elsewhere), v, e)
<1> DEFINE A == If(h.unit = "own" /\ Active(h), <<"stop">>)
           B == If(elsewhere, <<"binary">>)
           C == If(~h.dir, <<"mkdir">>)
           D == If(h.dir /\ "dir" \in h.loose, <<"secure dir">>)
           E == If(h.conf = "absent", <<"config">>)
           F == If(h.conf # "absent" /\ "conf" \in h.loose, <<"secure conf">>)
           AB == A \o B
           CD == C \o D
           CDE == CD \o E
           CDEF == CDE \o F
           P == AB \o CDEF
<1>1. /\ A \in Seq(LinuxFirst) /\ (h.unit = "own" /\ Active(h) => "stop" \in Left(A))
      /\ B \in Seq(LinuxFirst) /\ (elsewhere => "binary" \in Left(B))
  BY OptionalStep DEF LinuxFirst
<1>2. /\ C \in Seq(LinuxFirst) /\ (~h.dir => "mkdir" \in Left(C))
      /\ D \in Seq(LinuxFirst) /\ (h.dir /\ "dir" \in h.loose => "secure dir" \in Left(D))
  BY OptionalStep DEF LinuxFirst
<1>3. /\ E \in Seq(LinuxFirst) /\ (h.conf = "absent" => "config" \in Left(E))
      /\ F \in Seq(LinuxFirst) /\ (h.conf # "absent" /\ "conf" \in h.loose => "secure conf" \in Left(F))
  BY OptionalStep DEF LinuxFirst
<1>4. LinuxInstall(h, elsewhere) = P \o LinuxLast
  BY DEF LinuxInstall, LinuxConfig, LinuxLast
<1> HIDE DEF A, B, C, D, E, F
<1>5. CD \in Seq(LinuxFirst) /\ Left(CD) = Left(C) \cup Left(D)
  BY <1>2, Joined
<1>8. AB \in Seq(LinuxFirst) /\ Left(AB) = Left(A) \cup Left(B)
  BY <1>1, Joined
<1> HIDE DEF AB, CD
<1>6. CDE \in Seq(LinuxFirst) /\ Left(CDE) = Left(CD) \cup Left(E)
  <2>1. CD \in Seq(LinuxFirst) /\ E \in Seq(LinuxFirst)
    BY <1>3, <1>5
  <2> QED
    BY <2>1, Joined
<1> HIDE DEF CDE
<1>7. CDEF \in Seq(LinuxFirst) /\ Left(CDEF) = Left(CDE) \cup Left(F)
  <2>1. CDE \in Seq(LinuxFirst) /\ F \in Seq(LinuxFirst)
    BY <1>3, <1>6
  <2> QED
    BY <2>1, Joined
<1> HIDE DEF CDEF
<1>19. P \in Seq(LinuxFirst) /\ Left(P) = Left(AB) \cup Left(CDEF)
  BY <1>7, <1>8, Joined
<1> HIDE DEF P
<1>9. P \in Seq(LinuxFirst) /\ Left(P) = Left(A) \cup Left(B) \cup (Left(C) \cup Left(D) \cup Left(E) \cup Left(F))
  BY <1>5, <1>6, <1>7, <1>8, <1>19
<1>10. LinuxFirst \subseteq LinuxInstallSteps /\ LinuxLast \in Seq(LinuxInstallSteps) /\ Len(LinuxLast) = 5
  BY DEF LinuxFirst, LinuxInstallSteps, LinuxLast
<1>11. P \in Seq(LinuxInstallSteps)
  BY <1>9, <1>10
<1>12. /\ Planned(P \o LinuxLast, LinuxFirst, LinuxLast) /\ Len(P \o LinuxLast) >= 5
       /\ Left(P) \subseteq Left(P \o LinuxLast)
  <2>1. Planned(P \o LinuxLast, LinuxFirst, LinuxLast) /\ Len(P \o LinuxLast) >= Len(LinuxLast)
    BY <1>9, <1>10, PlannedConcat
  <2>2. Left(P \o LinuxLast) = Left(P) \cup Left(LinuxLast)
    BY <1>10, <1>11, LeftConcat
  <2> QED
    BY <1>10, <2>1, <2>2
<1>13. /\ Len(P \o LinuxLast) \in Nat
       /\ P \o LinuxLast \in Seq(LinuxInstallSteps)
  BY <1>10, <1>11, ConcatProperties, LenProperties
<1> DEFINE plan == P \o LinuxLast
<1> HIDE DEF plan
<1>14. Len(plan) \in Nat /\ Len(plan) >= 5 /\ Planned(plan, LinuxFirst, LinuxLast) /\ Left(P) \subseteq Left(plan)
  BY <1>12, <1>13 DEF plan
<1>15. ~(Len(plan) <= 4) /\ ~(Len(plan) <= 3) /\ ~(Len(plan) <= 2) /\ ~(Len(plan) <= 1) /\ plan # <<>>
  <2>1. Len(<<>>) = 0
    OBVIOUS
  <2> QED
    BY <1>14, <2>1
<1>16. "stop" \notin Left(plan) => h.service = "stopped"
  BY <1>1, <1>9, <1>14 DEF HostFacts, Active
<1>17. /\ "binary" \notin Left(plan) => h.binary = v
       /\ "mkdir" \notin Left(plan) => h.dir
       /\ "secure dir" \notin Left(plan) => "dir" \notin h.loose
       /\ "config" \notin Left(plan) => h.conf # "absent"
       /\ "secure conf" \notin Left(plan) => "conf" \notin h.loose
  BY <1>1, <1>2, <1>3, <1>9, <1>14 DEF HostFacts
<1>18. LinuxReady(h, plan, v, e)
  BY <1>14, <1>15, <1>16, <1>17 DEF LinuxReady
<1> QED
  BY <1>4, <1>18 DEF plan

LEMMA WindowsPlanReady ==
  ASSUME NEW h, IsHost(h), HostFacts(h), h.unit # "foreign",
         NEW elsewhere \in BOOLEAN, NEW v, elsewhere \/ v = h.binary, NEW e
  PROVE  WindowsReady(h, WindowsInstall(h, elsewhere), v, e)
<1> DEFINE A == If(Present(h) /\ Running(h), <<"stop">>)
           B == If(elsewhere, <<"binary">>)
           C == <<"ensure dir">>
           D == If(h.conf = "absent", <<"config">>)
           AB == A \o B
           ABC == AB \o C
           P == ABC \o D
<1>1. /\ A \in Seq(WindowsFirst) /\ (Present(h) /\ Running(h) => "stop" \in Left(A))
      /\ B \in Seq(WindowsFirst) /\ (elsewhere => "binary" \in Left(B))
  BY OptionalStep DEF WindowsFirst
<1>2. D \in Seq(WindowsFirst) /\ (h.conf = "absent" => "config" \in Left(D))
  BY OptionalStep DEF WindowsFirst
<1>3. C \in Seq(WindowsFirst) /\ "ensure dir" \in Left(C)
  <2>1. If(TRUE, <<"ensure dir">>) \in Seq(WindowsFirst) /\ "ensure dir" \in Left(If(TRUE, <<"ensure dir">>))
    BY OptionalStep DEF WindowsFirst
  <2> QED
    BY <2>1 DEF If
<1>4. WindowsInstall(h, elsewhere) = P \o WindowsLast
  BY DEF WindowsInstall, WindowsLast
<1> HIDE DEF A, B, C, D
<1>5. AB \in Seq(WindowsFirst) /\ Left(AB) = Left(A) \cup Left(B)
  BY <1>1, Joined
<1> HIDE DEF AB
<1>6. ABC \in Seq(WindowsFirst) /\ Left(ABC) = Left(AB) \cup Left(C)
  <2>1. AB \in Seq(WindowsFirst) /\ C \in Seq(WindowsFirst)
    BY <1>3, <1>5
  <2> QED
    BY <2>1, Joined
<1> HIDE DEF ABC
<1>17. P \in Seq(WindowsFirst) /\ Left(P) = Left(ABC) \cup Left(D)
  <2>1. ABC \in Seq(WindowsFirst) /\ D \in Seq(WindowsFirst)
    BY <1>2, <1>6
  <2> QED
    BY <2>1, Joined
<1> HIDE DEF P
<1>7. P \in Seq(WindowsFirst) /\ Left(P) = Left(A) \cup Left(B) \cup Left(C) \cup Left(D)
  BY <1>5, <1>6, <1>17
<1>8. WindowsFirst \subseteq WindowsInstallSteps /\ WindowsLast \in Seq(WindowsInstallSteps) /\ Len(WindowsLast) = 4
  BY DEF WindowsFirst, WindowsInstallSteps, WindowsLast
<1>9. P \in Seq(WindowsInstallSteps)
  BY <1>7, <1>8
<1>10. /\ Planned(P \o WindowsLast, WindowsFirst, WindowsLast) /\ Len(P \o WindowsLast) >= 4
       /\ Left(P) \subseteq Left(P \o WindowsLast)
  <2>1. Planned(P \o WindowsLast, WindowsFirst, WindowsLast) /\ Len(P \o WindowsLast) >= Len(WindowsLast)
    BY <1>7, <1>8, PlannedConcat
  <2>2. Left(P \o WindowsLast) = Left(P) \cup Left(WindowsLast)
    BY <1>8, <1>9, LeftConcat
  <2> QED
    BY <1>8, <2>1, <2>2
<1>11. Len(P \o WindowsLast) \in Nat
  <2>1. P \o WindowsLast \in Seq(WindowsInstallSteps)
    BY <1>8, <1>9, ConcatProperties
  <2> QED
    BY <2>1, LenProperties
<1> DEFINE plan == P \o WindowsLast
<1> HIDE DEF plan
<1>12. Len(plan) \in Nat /\ Len(plan) >= 4 /\ Planned(plan, WindowsFirst, WindowsLast) /\ Left(P) \subseteq Left(plan)
  BY <1>10, <1>11 DEF plan
<1>13. ~(Len(plan) <= 3) /\ ~(Len(plan) <= 2) /\ plan # <<>>
  <2>1. Len(<<>>) = 0
    OBVIOUS
  <2> QED
    BY <1>12, <2>1
<1>14. "stop" \notin Left(plan) => Current(h)
  BY <1>1, <1>7, <1>12 DEF HostFacts, Present, Running, Current
<1>15. /\ "binary" \notin Left(plan) => h.binary = v
       /\ "ensure dir" \in Left(plan)
       /\ "config" \notin Left(plan) => h.conf # "absent"
  BY <1>1, <1>2, <1>3, <1>7, <1>12
<1>16. WindowsReady(h, plan, v, e)
  BY <1>12, <1>13, <1>14, <1>15 DEF WindowsReady
<1> QED
  BY <1>4, <1>16 DEF plan

-----------------------------------------------------------------------------
(* A host that works keeps working.                                        *)

(* The rest of what the service and the administrator leave alone.         *)
Spared(g) ==
  /\ g.dir = m.dir /\ g.loose = m.loose /\ (m.conf # "absent" => g.conf = m.conf)
  /\ m.unit = "marked" => g.unit = "marked" \/ (g.unit = "absent" /\ g.service = "stopped")
  /\ m.unit # "marked" =>
       /\ g.unit = m.unit /\ g.env = m.env /\ g.loaded = m.loaded /\ g.enabled = m.enabled
       /\ m.service # "stopped" => g.service # "stopped"
  /\ Running(g) => \/ Running(m) /\ g.program = m.program /\ g.using = m.using
                   \/ g.program = m.binary /\ m.binary # None /\ g.using = m.env

LEMMA SparedHost ==
  ASSUME Shape, ServiceFails \/ ServiceRestarts \/ AdminConfigures
  PROVE  Spared(m')
<1>0. IsHost(m) /\ (m.unit = "marked" => Running(m))
  BY DEF Shape
<1>1. CASE ServiceFails
  <2>1. CASE m.unit = "marked"
    <3>1. m' = Halted(m)
      BY <1>1, <2>1 DEF ServiceFails
    <3> QED
      BY <1>0, <2>1, <3>1, HaltedFacts DEF Spared, Gone, Running
  <2>2. CASE m.unit # "marked"
    <3>1. m' = [m EXCEPT !.service = "retrying", !.program = None]
      BY <1>1, <2>2 DEF ServiceFails
    <3> QED
      BY <1>0, <2>2, <3>1 DEF Spared, IsHost, HostFields, Running
  <2> QED
    BY <2>1, <2>2
<1>2. CASE ServiceRestarts
  <2>1. PICK g \in Launched(m) : m' = g /\ Running(g)
    BY <1>2 DEF ServiceRestarts
  <2>2. m.service = "retrying"
    BY <1>2 DEF ServiceRestarts
  <2> QED
    BY <1>0, <2>1, <2>2, LaunchedFacts DEF Spared, Running
<1>3. CASE AdminConfigures
  <2>1. m' = [m EXCEPT !.conf = "admin"] /\ m.conf = "absent"
    BY <1>3 DEF AdminConfigures
  <2> QED
    BY <1>0, <2>1 DEF Spared, IsHost, HostFields, Running
<1> QED
  BY <1>1, <1>2, <1>3

LEMMA SparedWorks ==
  ASSUME Shape, Quiet(m'), Spared(m'), UNCHANGED os, NEW steps, Len(steps) \in Nat, NEW v, NEW e
  PROVE  /\ HostFacts(m) => HostFacts(m')
         /\ Works(m, v) => Works(m', v) /\ m'.env = m.env
         /\ Ready(m, steps, v, e) => Ready(m', steps, v, e)
<1>1. /\ m'.binary = m.binary /\ (m.service = "stopped" => m'.service = "stopped")
      /\ m'.unit = m.unit \/ m'.unit = "absent"
  BY DEF Quiet, Gone
<1>2. /\ m'.dir = m.dir /\ m'.loose = m.loose /\ (m.conf # "absent" => m'.conf = m.conf)
      /\ m.unit = "marked" => m'.unit = "marked" \/ (m'.unit = "absent" /\ m'.service = "stopped")
      /\ m.unit # "marked" =>
           /\ m'.unit = m.unit /\ m'.env = m.env /\ m'.loaded = m.loaded /\ m'.enabled = m.enabled
           /\ m.service # "stopped" => m'.service # "stopped"
  BY DEF Spared
<1>3. Running(m') => \/ Running(m) /\ m'.program = m.program /\ m'.using = m.using
                     \/ m'.program = m.binary /\ m.binary # None /\ m'.using = m.env
  BY DEF Spared
<1>4. HostFacts(m) => HostFacts(m')
  BY <1>1, <1>2 DEF HostFacts
<1>5. Current(m) => Current(m')
  BY <1>1, <1>3 DEF Current
<1>6. m.unit # "marked" /\ Up(m) => Up(m')
  BY <1>1, <1>2, <1>3 DEF Up
<1>7. Works(m, v) => Works(m', v) /\ m'.env = m.env
  <2> SUFFICES ASSUME Works(m, v) PROVE Works(m', v) /\ m'.env = m.env
    OBVIOUS
  <2>1. /\ m.binary = v /\ m.binary # None /\ m.unit = "own" /\ m.loaded /\ m.enabled
        /\ m.dir /\ m.conf # "absent" /\ m.loose = {} /\ Up(m) /\ Serves(m)
    BY DEF Works
  <2>2. m'.env = m.env /\ m'.conf = m.conf
    BY <1>2, <2>1
  <2>3. Serves(m') /\ Up(m')
    BY <1>6, <2>1, <2>2 DEF Serves
  <2> QED
    BY <1>1, <1>2, <2>1, <2>2, <2>3 DEF Works
<1>8. CASE os = "linux"
  <2>1. m.unit # "marked"
    BY <1>8 DEF Shape
  <2>2. LinuxReady(m, steps, v, e) => LinuxReady(m', steps, v, e)
    BY <1>1, <1>2, <1>6, <2>1 DEF LinuxReady
  <2>3. UNCHANGED os
    OBVIOUS
  <2> QED
    BY <1>4, <1>7, <1>8, <2>2 DEF Ready, LinuxReady, Up
<1>9. CASE os # "linux"
  <2>2. WindowsReady(m, steps, v, e) => WindowsReady(m', steps, v, e)
    <3> SUFFICES ASSUME WindowsReady(m, steps, v, e) PROVE WindowsReady(m', steps, v, e)
      OBVIOUS
    <3>1. Len(steps) <= 2 => Len(steps) <= 3
      OBVIOUS
    <3>2. steps = <<>> => Len(steps) <= 3
      OBVIOUS
    <3> QED
      BY <1>1, <1>2, <1>5, <3>1, <3>2 DEF WindowsReady
  <2> QED
    BY <1>4, <1>7, <1>9, <2>2 DEF Ready, WindowsReady, Current
<1> QED
  BY <1>8, <1>9

(* A machine that restarts starts a service that is registered for it.     *)
LEMMA RestartedService ==
  ASSUME Shape, MachineRestarts
  PROVE  /\ m'.dir = m.dir /\ m'.conf = m.conf /\ m'.loose = m.loose
         /\ m'.service # "stopped" => m.unit = "own"
         /\ m.unit = "own" => m'.loaded /\ m'.enabled = m.enabled
         /\ m.unit = "own" /\ m.enabled => m'.service # "stopped"
         /\ Running(m') => m'.program = m.binary /\ m'.using = m.env /\ m.binary # None
<1> DEFINE h == [Halted(m) EXCEPT !.loaded = (m.unit = "own")]
<1>0. IsHost(m)
  BY DEF Shape
<1>1. PICK g \in (IF h.enabled /\ h.loaded THEN Launched(h) ELSE {h}) : m' = g
  BY DEF MachineRestarts
<1>2. LET k == Halted(m) IN
      /\ IsHost(k) /\ k.binary = m.binary /\ k.service = "stopped"
      /\ k.dir = m.dir /\ k.conf = m.conf /\ k.loose = m.loose
      /\ m.unit # "marked" => k.unit = m.unit /\ k.env = m.env /\ k.enabled = m.enabled
  BY <1>0, HaltedFacts
<1>3. /\ IsHost(h) /\ h.binary = Halted(m).binary /\ h.unit = Halted(m).unit /\ h.env = Halted(m).env
      /\ h.enabled = Halted(m).enabled /\ h.service = Halted(m).service
      /\ h.dir = Halted(m).dir /\ h.conf = Halted(m).conf /\ h.loose = Halted(m).loose
  BY <1>2 DEF IsHost, HostFields
<1>4. (m.unit # "own" => ~h.loaded) /\ (m.unit = "own" => h.loaded)
  <2>1. "loaded" \in DOMAIN Halted(m)
    BY <1>2 DEF IsHost, HostFields
  <2>2. h.loaded = (m.unit = "own")
    BY <2>1, Zenon
  <2> QED
    BY <2>2, Zenon
<1> HIDE DEF h
<1>5. CASE m.unit = "own"
  <2>1. h.binary = m.binary /\ h.env = m.env /\ h.enabled = m.enabled /\ h.service = "stopped"
    BY <1>2, <1>3, <1>5
  <2>2. CASE g = h
    <3>1. ~m.enabled
      <4>1. h.enabled => g \in Launched(h)
        BY <1>1, <1>4, <1>5
      <4>2. h \notin Launched(h)
        BY <2>1, <1>3, LaunchedFacts
      <4> QED
        BY <2>1, <2>2, <4>1, <4>2
    <3>2. h.loaded
      BY <1>4, <1>5
    <3>3. h.dir = m.dir /\ h.conf = m.conf /\ h.loose = m.loose
      BY <1>2, <1>3
    <3> QED
      BY <1>1, <1>5, <2>1, <2>2, <3>1, <3>2, <3>3 DEF Running
  <2>3. CASE g \in Launched(h)
    <3>1. /\ g.dir = h.dir /\ g.conf = h.conf /\ g.loose = h.loose /\ g.enabled = h.enabled /\ g.loaded = h.loaded
          /\ \/ g.service = "retrying" /\ g.program = None
             \/ g.service = "running" /\ g.program = h.binary /\ g.using = h.env /\ h.binary # None
      BY <1>3, <2>3, LaunchedFacts
    <3>2. h.dir = m.dir /\ h.conf = m.conf /\ h.loose = m.loose /\ h.loaded
      BY <1>2, <1>3, <1>4, <1>5
    <3> QED
      BY <1>1, <1>5, <2>1, <3>1, <3>2 DEF Running
  <2> QED
    BY <1>1, <2>2, <2>3
<1>6. CASE m.unit # "own"
  <2>1. g = h
    BY <1>1, <1>4, <1>6
  <2> QED
    BY <1>1, <1>2, <1>3, <1>6, <2>1 DEF Running
<1> QED
  BY <1>5, <1>6

LEMMA RestartedWorks ==
  ASSUME Shape, MachineRestarts, HostFacts(m), UNCHANGED os, NEW v
  PROVE  /\ HostFacts(m')
         /\ Works(m, v) => Works(m', v) /\ m'.env = m.env
<1>1. /\ m'.dir = m.dir /\ m'.conf = m.conf /\ m'.loose = m.loose
      /\ m'.service # "stopped" => m.unit = "own"
      /\ m.unit = "own" => m'.loaded /\ m'.enabled = m.enabled
      /\ m.unit = "own" /\ m.enabled => m'.service # "stopped"
      /\ Running(m') => m'.program = m.binary /\ m'.using = m.env /\ m.binary # None
  BY RestartedService
<1>2. /\ m'.binary = m.binary /\ m'.unit # "marked"
      /\ (m'.unit = m.unit /\ m'.env = m.env) \/ (m.unit = "marked" /\ Gone(m'))
  BY RestartedHost
<1>3. Gone(m') => m'.unit = "absent" /\ m'.service = "stopped"
  BY DEF Gone
<1>4. HostFacts(m')
  BY <1>1, <1>2, <1>3 DEF HostFacts
<1>5. Works(m, v) => Works(m', v) /\ m'.env = m.env
  <2> SUFFICES ASSUME Works(m, v) PROVE Works(m', v) /\ m'.env = m.env
    OBVIOUS
  <2>1. /\ m.binary = v /\ m.binary # None /\ m.unit = "own" /\ m.loaded /\ m.enabled
        /\ m.dir /\ m.conf # "absent" /\ m.loose = {} /\ Serves(m)
    BY DEF Works
  <2>2. m'.unit = "own" /\ m'.env = m.env /\ m'.loaded /\ m'.service # "stopped"
    BY <1>1, <1>2, <2>1
  <2>3. m'.enabled
    BY <1>1, <2>1
  <2>4. Up(m')
    BY <1>1, <1>2, <2>2 DEF Up
  <2>5. Serves(m')
    BY <1>1, <2>1, <2>2 DEF Serves
  <2> QED
    BY <1>1, <1>2, <2>1, <2>2, <2>3, <2>4, <2>5 DEF Works
<1> QED
  BY <1>4, <1>5

-----------------------------------------------------------------------------
(* What every step keeps.                                                  *)

(* A configuration file stays; the stored settings change as a whole.      *)
Steady(h, g, step, e) ==
  /\ h.conf # "absent" => g.conf = h.conf
  /\ g.env \in {h.env, NoSettings} \/ (step = "env" /\ g.env = e)

LEMMA RemovalNames ==
  \A i \in 1 .. 7 :
    LinuxRemoval[i] \in {"stop", "disable", "reset-failed", "remove env", "remove binary", "remove unit", "reload"}
<1>1. /\ LinuxRemoval[1] = "stop" /\ LinuxRemoval[2] = "disable" /\ LinuxRemoval[3] = "reset-failed"
      /\ LinuxRemoval[4] = "remove env" /\ LinuxRemoval[5] = "remove binary"
      /\ LinuxRemoval[6] = "remove unit" /\ LinuxRemoval[7] = "reload"
  BY DEF LinuxRemoval
<1>2. \A i \in 1 .. 7 : i = 1 \/ i = 2 \/ i = 3 \/ i = 4 \/ i = 5 \/ i = 6 \/ i = 7
  OBVIOUS
<1> QED
  BY <1>1, <1>2

LEMMA LinuxSteady ==
  ASSUME NEW h, IsHost(h), h.unit # "marked",
         NEW step \in LinuxInstallSteps \cup {LinuxRemoval[i] : i \in 1 .. 7}, NEW v, NEW e, NEW g \in LinuxStep(h, step, v, e)
  PROVE  /\ Steady(h, g, step, e)
         /\ /\ HostFacts(h) /\ (step = "start" => h.unit # "absent")
            /\ step = "remove unit" => h.service = "stopped"
            => HostFacts(g)
<1>0. step \in {"stop", "binary", "mkdir", "secure dir", "config", "secure conf", "env", "unit", "reload", "enable",
                "start", "disable", "reset-failed", "remove env", "remove binary", "remove unit"}
  BY RemovalNames DEF LinuxInstallSteps
<1>1. CASE step = "stop"
  <2>1. g = Halted(h)
    BY <1>1 DEF LinuxStep, Systemctl, Remove
  <2> QED
    BY <1>1, <2>1, HaltedFacts DEF Steady, HostFacts
<1>2. CASE step = "start"
  <2>1. g = h \/ g \in Launched(h)
    BY <1>2 DEF LinuxStep, Systemctl, Remove
  <2> QED
    BY <1>2, <2>1, LaunchedFacts DEF Steady, HostFacts
<1>3. CASE step = "binary"
  BY <1>3 DEF LinuxStep, Systemctl, Remove, WriteBinary, IsHost, HostFields, Steady, HostFacts
<1>4. CASE step \in {"mkdir", "config"}
  BY <1>4 DEF LinuxStep, Systemctl, Remove, MkdirAll, CreateFile, IsHost, HostFields, Steady, HostFacts
<1>5. CASE step \in {"secure dir", "secure conf"}
  <2>1. \E what : g = Secure(h, what)
    BY <1>5 DEF LinuxStep, Systemctl, Remove
  <2>2. /\ g.loose \subseteq h.loose /\ g.unit = h.unit /\ g.env = h.env /\ g.dir = h.dir /\ g.conf = h.conf
        /\ g.service = h.service
    BY <2>1 DEF Secure, IsHost, HostFields
  <2> QED
    BY <1>5, <2>2 DEF Steady, HostFacts
<1>6. CASE step \in {"env", "unit"}
  BY <1>6 DEF LinuxStep, Systemctl, Remove, WriteEnv, WriteUnit, IsHost, HostFields, Steady, HostFacts
<1>7. CASE step \in {"reload", "enable"}
  BY <1>7 DEF LinuxStep, Systemctl, Remove, IsHost, HostFields, Steady, HostFacts
<1>8. CASE step \in {"disable", "reset-failed"}
  BY <1>8 DEF LinuxStep, Systemctl, Remove, IsHost, HostFields, Steady, HostFacts
<1>9. CASE step \in {"remove env", "remove binary"}
  BY <1>9 DEF LinuxStep, Systemctl, Remove, IsHost, HostFields, Steady, HostFacts
<1>10. CASE step = "remove unit"
  BY <1>10 DEF LinuxStep, Systemctl, Remove, IsHost, HostFields, Steady, HostFacts
<1> QED
  BY <1>0, <1>1, <1>2, <1>3, <1>4, <1>5, <1>6, <1>7, <1>8, <1>9, <1>10

LEMMA WindowsSteady ==
  ASSUME NEW h, IsHost(h), h.unit = "marked" => Running(h),
         NEW step \in WindowsInstallSteps \cup {"delete", "remove source", "remove binary"},
         NEW v, NEW e, NEW held, NEW g \in WindowsStep(h, step, v, e, held)
  PROVE  Steady(h, g, step, e) /\ (HostFacts(h) => HostFacts(g))
<1>1. CASE step = "stop"
  <2>1. g = Halted(h) \/ (g = h /\ ~Running(h))
    BY <1>1 DEF WindowsStep, WinStop, StoreEnv, EventSource
  <2> QED
    BY <1>1, <2>1, HaltedFacts DEF Steady, HostFacts, Gone
<1>2. CASE step = "start"
  <2>1. h.unit # "absent" /\ (g = h \/ g \in Launched(h))
    BY <1>2 DEF WindowsStep, StoreEnv, EventSource, WinStart
  <2> QED
    BY <1>2, <2>1, LaunchedFacts DEF Steady, HostFacts
<1>3. CASE step = "binary"
  <2>1. g = WriteBinary(h, v)
    BY <1>3 DEF WindowsStep, StoreEnv, EventSource, CopyBinary
  <2> QED
    BY <1>3, <2>1 DEF WriteBinary, IsHost, HostFields, Steady, HostFacts
<1>4. CASE step = "ensure dir"
  <2>1. g = EnsureConfigDir(h)
    BY <1>4 DEF WindowsStep, StoreEnv, EventSource
  <2> QED
    BY <1>4, <2>1 DEF EnsureConfigDir, IsHost, HostFields, Steady, HostFacts
<1>5. CASE step = "config"
  <2>1. g = CreateFile(h)
    BY <1>5 DEF WindowsStep, StoreEnv, EventSource
  <2> QED
    BY <1>5, <2>1 DEF CreateFile, IsHost, HostFields, Steady, HostFacts
<1>6. CASE step = "register"
  <2>1. g = [h EXCEPT !.unit = "own", !.loaded = TRUE, !.enabled = TRUE]
    BY <1>6 DEF WindowsStep, StoreEnv, EventSource, Register
  <2> QED
    BY <1>6, <2>1 DEF IsHost, HostFields, Steady, HostFacts
<1>7. CASE step = "env"
  <2>1. g = [h EXCEPT !.env = e]
    BY <1>7 DEF WindowsStep, StoreEnv, EventSource, WriteEnv
  <2> QED
    BY <1>7, <2>1 DEF IsHost, HostFields, Steady, HostFacts
<1>8. CASE step \in {"source", "remove source"}
  <2>1. g.unit = h.unit /\ g.env = h.env /\ g.loose = h.loose /\ g.dir = h.dir /\ g.conf = h.conf /\ g.service = h.service
    BY <1>8 DEF WindowsStep, StoreEnv, EventSource, IsHost, HostFields
  <2> QED
    BY <1>8, <2>1 DEF Steady, HostFacts
<1>9. CASE step = "remove binary"
  <2>1. g = RemoveBinary(h)
    BY <1>9 DEF WindowsStep, StoreEnv, EventSource
  <2> QED
    BY <1>9, <2>1 DEF RemoveBinary, IsHost, HostFields, Steady, HostFacts
<1>10. CASE step = "delete"
  <2>1. g = Delete(h)
    BY <1>10 DEF WindowsStep, StoreEnv, EventSource
  <2>2. CASE Running(h)
    BY <1>10, <2>1, <2>2 DEF Delete, IsHost, HostFields, Steady, HostFacts, Running
  <2>3. CASE ~Running(h)
    <3>1. LET k == Unregistered(h) IN
          /\ IsHost(k) /\ k.unit = "absent" /\ k.env = NoSettings /\ k.dir = h.dir /\ k.conf = h.conf /\ k.loose = h.loose
      BY DEF Unregistered, IsHost, HostFields
    <3>2. g = Halted(Unregistered(h))
      BY <2>1, <2>3 DEF Delete
    <3>3. /\ g.unit = "absent" /\ g.env = NoSettings /\ g.dir = h.dir /\ g.conf = h.conf /\ g.loose = h.loose
          /\ g.service = "stopped"
      BY <3>1, <3>2, HaltedFacts
    <3> QED
      BY <1>10, <3>3 DEF Steady, HostFacts
  <2> QED
    BY <2>2, <2>3
<1> QED
  BY <1>1, <1>2, <1>3, <1>4, <1>5, <1>6, <1>7, <1>8, <1>9, <1>10 DEF WindowsInstallSteps

(* The only step of an install that starts the service is its last. *)
LEMMA StartIsLast ==
  ASSUME os = "linux", NEW h, NEW v, NEW e, NEW steps \in Seq(LinuxInstallSteps), steps # <<>>, Head(steps) = "start",
         LinuxReady(h, steps, v, e)
  PROVE  h.unit = "own"
<1>1. Len(LinuxLast) = 5 /\ Len(LinuxLast) \in Nat
  BY DEF LinuxLast
<1>2. Planned(steps, LinuxFirst, LinuxLast)
  BY DEF LinuxReady
<1>3. /\ Len(steps) \in Nat \ {0}
      /\ Len(steps) > Len(LinuxLast) => Head(steps) \in LinuxFirst
      /\ Len(steps) <= Len(LinuxLast) => Head(steps) = LinuxLast[Len(LinuxLast) - Len(steps) + 1]
  BY <1>1, <1>2, PlannedTail
<1> DEFINE n == Len(steps)
<1>4. n \in Nat \ {0} /\ (n <= 5 => LinuxLast[5 - n + 1] = "start")
  BY <1>1, <1>3
<1>5. n <= 5
  <2>1. n > 5 => "start" \in LinuxFirst
    BY <1>1, <1>3
  <2>2. "start" \notin LinuxFirst
    BY DEF LinuxFirst
  <2> HIDE DEF n
  <2> QED
    BY <1>4, <2>1, <2>2
<1>6. n <= 3 => h.unit = "own"
  BY DEF LinuxReady
<1> HIDE DEF n
<1>7. n = 4 => 5 - n + 1 = 2
  OBVIOUS
<1>8. n = 5 => 5 - n + 1 = 1
  OBVIOUS
<1>9. LinuxLast[1] = "env" /\ LinuxLast[2] = "unit"
  BY DEF LinuxLast
<1>10. n # 4 /\ n # 5
  BY <1>4, <1>5, <1>7, <1>8, <1>9
<1> QED
  BY <1>4, <1>5, <1>6, <1>10

LEMMA AfterSteady ==
  ASSUME Shape, cmd.steps # <<>>, NEW g \in After(Head(cmd.steps))
  PROVE  /\ Steady(m, g, Head(cmd.steps), FormatEnv(os, cmd.settings))
         /\ Uninstalling /\ Installing => HostFacts(g)
<1> DEFINE step == Head(cmd.steps)
           e == FormatEnv(os, cmd.settings)
<1>0. /\ IsHost(m) /\ (m.unit = "marked" => os = "windows" /\ Running(m)) /\ os \in {"linux", "windows"}
      /\ \/ cmd.kind = "install" /\ cmd.steps \in Seq(InstallSteps)
         \/ cmd.kind = "uninstall" /\ Ends(cmd.steps, Removal)
  BY DEF Shape
<1>1. Installing => HostFacts(m)
  BY DEF Installing
<1>2. CASE cmd.kind = "install" /\ os = "linux"
  <2>1. g \in LinuxStep(m, step, cmd.version, e)
    BY <1>2 DEF After
  <2>2. cmd.steps \in Seq(LinuxInstallSteps) /\ step \in LinuxInstallSteps
    BY <1>0, <1>2, HeadTailProperties DEF InstallSteps
  <2>3. Installing => LinuxReady(m, cmd.steps, cmd.version, e)
    BY <1>2 DEF Installing, Ready
  <2>4. Installing /\ step = "start" => m.unit # "absent"
    BY <1>2, <2>2, <2>3, StartIsLast
  <2>5. step # "remove unit" /\ m.unit # "marked"
    BY <1>0, <1>2, <2>2 DEF LinuxInstallSteps
  <2> HIDE DEF step, e
  <2>6. Steady(m, g, step, e) /\ (Uninstalling /\ Installing => HostFacts(g))
    BY <1>0, <1>1, <2>1, <2>2, <2>4, <2>5, LinuxSteady
  <2> QED
    BY <2>6 DEF step, e
<1>3. CASE cmd.kind = "install" /\ os = "windows"
  <2>1. g \in WindowsStep(m, step, cmd.version, e, Holds)
    BY <1>3 DEF After
  <2>2. step \in WindowsInstallSteps
    BY <1>0, <1>3, HeadTailProperties DEF InstallSteps
  <2> HIDE DEF step, e
  <2>3. Steady(m, g, step, e) /\ (Uninstalling /\ Installing => HostFacts(g))
    BY <1>0, <1>1, <2>1, <2>2, WindowsSteady
  <2> QED
    BY <2>3 DEF step, e
<1>4. CASE cmd.kind = "uninstall" /\ os = "linux"
  <2> DEFINE n == Len(cmd.steps)
             i == 8 - n
  <2>1. n \in 1 .. 7 /\ step = LinuxRemoval[7 - n + 1]
    BY <1>0, <1>4, LinuxPlanFacts, EndsTail DEF Removal
  <2>2. Uninstalling => UninstallDone(m, n)
    BY <1>4 DEF Uninstalling
  <2>3. g \in LinuxStep(m, step, cmd.version, e)
    BY <1>4 DEF After
  <2>4. Uninstalling /\ n <= 6 => m.service = "stopped"
    BY <1>4, <2>2 DEF UninstallDone
  <2>5. LinuxRemoval[1] = "stop"
    BY DEF LinuxRemoval
  <2> HIDE DEF n, step, e
  <2>6. i \in 1 .. 7 /\ step = LinuxRemoval[i] /\ (n = 7 => step = "stop")
    <3>1. 7 - n + 1 = i /\ i \in 1 .. 7 /\ (n = 7 => i = 1)
      BY <2>1
    <3> HIDE DEF i
    <3> QED
      BY <2>1, <2>5, <3>1
  <2>7. Uninstalling /\ step = "remove unit" => m.service = "stopped"
    <3>1. n = 7 \/ n <= 6
      BY <2>1
    <3> QED
      BY <2>4, <2>6, <3>1
  <2>8. step # "start"
    BY <2>6, RemovalNames
  <2>9. Steady(m, g, step, e) /\ (Uninstalling /\ Installing => HostFacts(g))
    <3>1. step \in LinuxInstallSteps \cup {LinuxRemoval[j] : j \in 1 .. 7} /\ IsHost(m) /\ m.unit # "marked"
      BY <1>0, <1>4, <2>6
    <3>2. /\ Steady(m, g, step, e)
          /\ /\ HostFacts(m) /\ (step = "start" => m.unit # "absent")
             /\ step = "remove unit" => m.service = "stopped"
             => HostFacts(g)
      BY <2>3, <3>1, LinuxSteady
    <3> QED
      BY <1>1, <2>7, <2>8, <3>2
  <2> QED
    BY <2>9 DEF step, e
<1>5. CASE cmd.kind = "uninstall" /\ os = "windows"
  <2> DEFINE n == Len(cmd.steps)
             i == 5 - n
  <2>1. n \in 1 .. 4 /\ step = WindowsRemoval[4 - n + 1]
    BY <1>0, <1>5, WindowsPlanFacts, EndsTail DEF Removal
  <2>2. g \in WindowsStep(m, step, cmd.version, e, Holds)
    BY <1>5 DEF After
  <2>3. /\ WindowsRemoval[1] = "stop" /\ WindowsRemoval[2] = "delete"
        /\ WindowsRemoval[3] = "remove source" /\ WindowsRemoval[4] = "remove binary"
    BY DEF WindowsRemoval
  <2> HIDE DEF n, step, e
  <2>4. i \in 1 .. 4 /\ step = WindowsRemoval[i]
    BY <2>1
  <2> HIDE DEF i
  <2>5. i = 1 \/ i = 2 \/ i = 3 \/ i = 4
    BY <2>4
  <2>6. step \in WindowsInstallSteps \cup {"delete", "remove source", "remove binary"}
    BY <2>3, <2>4, <2>5 DEF WindowsInstallSteps
  <2>7. Steady(m, g, step, e) /\ (Uninstalling /\ Installing => HostFacts(g))
    BY <1>0, <1>1, <2>2, <2>6, WindowsSteady
  <2> QED
    BY <2>7 DEF step, e
<1> QED
  BY <1>0, <1>2, <1>3, <1>4, <1>5

LEMMA AfterReady ==
  ASSUME Shape, Installing, cmd.kind = "install", cmd.steps # <<>>, NEW g \in After(Head(cmd.steps)),
         Watched(Head(cmd.steps), g)
  PROVE  Ready(g, Tail(cmd.steps), cmd.version, FormatEnv(os, cmd.settings))
<1> DEFINE e == FormatEnv(os, cmd.settings)
<1>0. /\ IsHost(m) /\ (m.unit = "marked" => os = "windows" /\ Running(m)) /\ os \in {"linux", "windows"}
      /\ cmd.steps \in Seq(InstallSteps)
  BY DEF Shape
<1>1. Ready(m, cmd.steps, cmd.version, e)
  BY DEF Installing
<1>2. CASE os = "linux"
  <2>1. g \in LinuxStep(m, Head(cmd.steps), cmd.version, e) /\ LinuxReady(m, cmd.steps, cmd.version, e)
    BY <1>1, <1>2 DEF After, Ready
  <2>2. cmd.steps \in Seq(LinuxInstallSteps) /\ m.unit # "marked"
    BY <1>0, <1>2 DEF InstallSteps
  <2> HIDE DEF e
  <2>3. LinuxReady(g, Tail(cmd.steps), cmd.version, e)
    BY <1>0, <1>2, <2>1, <2>2, LinuxReadyStep
  <2> QED
    BY <1>2, <2>3 DEF Ready, e
<1>3. CASE os = "windows"
  <2>1. g \in WindowsStep(m, Head(cmd.steps), cmd.version, e, Holds) /\ WindowsReady(m, cmd.steps, cmd.version, e)
    BY <1>1, <1>3 DEF After, Ready
  <2>2. cmd.steps \in Seq(WindowsInstallSteps)
    BY <1>0, <1>3 DEF InstallSteps
  <2> HIDE DEF e
  <2>3. WindowsReady(g, Tail(cmd.steps), cmd.version, e)
    BY <1>0, <2>1, <2>2, WindowsReadyStep
  <2> QED
    BY <1>3, <2>3 DEF Ready, e
<1> QED
  BY <1>0, <1>2, <1>3

-----------------------------------------------------------------------------
(* What an install stores.                                                 *)

(* Settings that can be written are written and read back.                 *)
LEMMA WrittenReadsBack ==
  ASSUME NEW Values, NEW Texts, ReadsBack(Values, Texts), os \in {"linux", "windows"},
         NEW s \in [Names -> Values \cup {None}], Readable(FormatEnv(os, s))
  PROVE  /\ FormatEnv(os, s) \in [Names -> Written(Values, Texts) \cup {None}]
         /\ ParseEnv(os, FormatEnv(os, s)) = s
         /\ Readable(s)
<1> DEFINE e == FormatEnv(os, s)
<1>1. /\ None \notin Values \cup Texts /\ Unreadable \notin Values \cup Texts \cup {None}
      /\ \A v \in Values : FormatValue(v) # Unreadable => FormatValue(v) \in Texts /\ ParseValue(FormatValue(v)) = v
  BY DEF ReadsBack
<1>2. ASSUME NEW n \in Names
      PROVE  /\ e[n] \in Written(Values, Texts) \cup {None}
             /\ (IF e[n] = None THEN None ELSE IF os = "linux" THEN ParseValue(e[n]) ELSE e[n]) = s[n]
  <2>1. e[n] = IF s[n] = None THEN None ELSE IF os = "linux" THEN FormatValue(s[n]) ELSE s[n]
    BY DEF FormatEnv
  <2>2. e[n] # Unreadable /\ s[n] \in Values \cup {None}
    BY DEF Readable
  <2> HIDE DEF e
  <2>3. CASE s[n] = None
    BY <2>1, <2>3
  <2>4. CASE s[n] # None /\ os = "linux"
    <3>1. FormatValue(s[n]) \in Texts /\ ParseValue(FormatValue(s[n])) = s[n]
      BY <1>1, <2>1, <2>2, <2>4
    <3> QED
      BY <1>1, <2>1, <2>4, <3>1 DEF Written
  <2>5. CASE s[n] # None /\ os # "linux"
    BY <1>1, <2>1, <2>2, <2>5 DEF Written
  <2> QED
    BY <2>3, <2>4, <2>5
<1>3. e = [n \in Names |-> e[n]]
  BY DEF FormatEnv
<1>4. ParseEnv(os, e) = [n \in Names |-> IF e[n] = None THEN None ELSE IF os = "linux" THEN ParseValue(e[n]) ELSE e[n]]
  BY DEF ParseEnv
<1> HIDE DEF e
<1>5. e \in [Names -> Written(Values, Texts) \cup {None}]
  BY <1>2, <1>3
<1>6. ParseEnv(os, e) = s
  BY <1>2, <1>4
<1>7. Readable(s)
  BY <1>1 DEF Readable
<1> QED
  BY <1>5, <1>6, <1>7 DEF e

LEMMA StoredTyped ==
  ASSUME NEW Values, NEW Texts, ReadsBack(Values, Texts), NEW s \in {"linux", "windows"},
         NEW e \in [Names -> (IF s = "linux" THEN Texts ELSE Values) \cup {None}], Readable(ParseEnv(s, e))
  PROVE  ParseEnv(s, e) \in [Names -> Values \cup {None}]
<1>1. /\ None \notin Values \cup Texts
      /\ \A t \in Texts : ParseValue(t) \in Values \cup {Unreadable}
  BY DEF ReadsBack
<1>2. ASSUME NEW n \in Names PROVE ParseEnv(s, e)[n] \in Values \cup {None}
  <2>1. ParseEnv(s, e)[n] = IF e[n] = None THEN None ELSE IF s = "linux" THEN ParseValue(e[n]) ELSE e[n]
    BY DEF ParseEnv
  <2>2. ParseEnv(s, e)[n] # Unreadable
    BY DEF Readable
  <2>3. e[n] \in (IF s = "linux" THEN Texts ELSE Values) \cup {None}
    OBVIOUS
  <2> QED
    BY <1>1, <2>1, <2>2, <2>3
<1>3. ParseEnv(s, e) = [n \in Names |-> ParseEnv(s, e)[n]]
  BY DEF ParseEnv
<1> QED
  BY <1>2, <1>3

(* A setting that is not given, asked for or missing stays as it is.       *)
LEMMA ResolvedKeeps ==
  ASSUME NEW V, NEW stored \in [Names -> V], NEW given \in [Names -> V], NEW typed \in [Names -> V],
         NEW replace, NEW configured
  PROVE  LET s == ResolveSettings(stored, given, typed, replace, configured) IN
         /\ s \in [Names -> V]
         /\ \A n \in Names :
              given[n] = None /\ stored[n] # None /\ ~(n = "token" /\ AsksToken(stored, given, replace))
              => s[n] = stored[n]
<1> DEFINE a == Merged(stored, given)
           b == WithProject(a, typed, configured)
           s == ResolveSettings(stored, given, typed, replace, configured)
<1>0. "token" \in Names /\ "project" \in Names /\ "token" # "project" /\ \A n \in Names : n = "token" \/ n = "project"
  BY DEF Names
<1>1. a \in [Names -> V] /\ \A n \in Names : a[n] = IF given[n] # None THEN given[n] ELSE stored[n]
  BY DEF Merged
<1>2. b = IF a["project"] # None \/ configured THEN a ELSE [a EXCEPT !["project"] = typed["project"]]
  BY DEF WithProject
<1> HIDE DEF a
<1>3. b \in [Names -> V] /\ b["token"] = a["token"] /\ (a["project"] # None => b["project"] = a["project"])
  BY <1>0, <1>1, <1>2
<1>4. s = IF AsksToken(b, given, replace) THEN [b EXCEPT !["token"] = typed["token"]] ELSE b
  BY DEF ResolveSettings, a
<1> HIDE DEF b
<1>5. s \in [Names -> V] /\ s["project"] = b["project"] /\ (~AsksToken(b, given, replace) => s["token"] = b["token"])
  BY <1>0, <1>3, <1>4
<1>6. AsksToken(b, given, replace) => AsksToken(stored, given, replace)
  BY <1>0, <1>1, <1>3 DEF AsksToken
<1> HIDE DEF s
<1>7. ASSUME NEW n \in Names, given[n] = None, stored[n] # None, ~(n = "token" /\ AsksToken(stored, given, replace))
      PROVE  s[n] = stored[n]
  <2>1. a[n] = stored[n]
    BY <1>1, <1>7
  <2>2. CASE n = "token"
    BY <1>3, <1>5, <1>6, <1>7, <2>1, <2>2
  <2>3. CASE n = "project"
    BY <1>3, <1>5, <1>7, <2>1, <2>3
  <2> QED
    BY <1>0, <2>2, <2>3
<1> QED
  BY <1>5, <1>7 DEF s

LEMMA PlanDecided ==
  ASSUME NEW Values, NEW Texts, ReadsBack(Values, Texts), Shape, Deciding(Values, Texts),
         NEW r \in Requests, ~Refused(r), NEW elsewhere \in BOOLEAN, NEW v
  PROVE  LET plan == Plan(elsewhere, v, r) IN
         /\ plan.settings \in [Names -> Values \cup {None}] /\ Readable(FormatEnv(os, plan.settings))
         /\ Precheck(plan.settings, Configured)
         /\ \A n \in Names \ plan.asked : plan.settings[n] = Stored[n]
<1> DEFINE plan == Plan(elsewhere, v, r)
<1>1. /\ plan.settings = Settled(r)
      /\ plan.asked = {n \in Names : r.given[n] # None \/ Stored[n] = None}
           \cup (IF AsksToken(Stored, r.given, r.replace) THEN {"token"} ELSE {})
  BY DEF Plan
<1>2. Readable(Stored) /\ Readable(FormatEnv(os, Settled(r))) /\ Precheck(Settled(r), Configured)
  BY DEF Refused
<1>3. os \in {"linux", "windows"} /\ m.env \in [Names -> Written(Values, Texts) \cup {None}]
  BY DEF Shape, Deciding
<1>4. Stored \in [Names -> Values \cup {None}]
  <2>1. m.env \in [Names -> (IF os = "linux" THEN Texts ELSE Values) \cup {None}]
    BY <1>3 DEF Written
  <2> QED
    BY <1>2, <1>3, <2>1, StoredTyped DEF Stored
<1>5. r.given \in [Names -> Values \cup {None}] /\ r.typed \in [Names -> Values \cup {None}]
  BY DEF ReadsBack
<1> HIDE DEF plan
<1>6. /\ Settled(r) \in [Names -> Values \cup {None}]
      /\ \A n \in Names :
           r.given[n] = None /\ Stored[n] # None /\ ~(n = "token" /\ AsksToken(Stored, r.given, r.replace))
           => Settled(r)[n] = Stored[n]
  <2> DEFINE V == Values \cup {None}
             stored == Stored
             s == ResolveSettings(stored, r.given, r.typed, r.replace, Configured)
  <2>1. stored \in [Names -> V] /\ r.given \in [Names -> V] /\ r.typed \in [Names -> V]
    BY <1>4, <1>5
  <2> HIDE DEF V, stored
  <2>2. /\ s \in [Names -> V]
        /\ \A n \in Names :
             r.given[n] = None /\ stored[n] # None /\ ~(n = "token" /\ AsksToken(stored, r.given, r.replace))
             => s[n] = stored[n]
    BY <2>1, ResolvedKeeps
  <2> QED
    BY <2>2 DEF Settled, stored, V
<1>7. ASSUME NEW n \in Names \ plan.asked PROVE plan.settings[n] = Stored[n]
  BY <1>1, <1>6, <1>7
<1> QED
  BY <1>1, <1>2, <1>6, <1>7 DEF plan

LEMMA KeepsDeciding ==
  ASSUME NEW Values, NEW Texts, ReadsBack(Values, Texts), Shape, Deciding(Values, Texts), UNCHANGED os,
         cmd'.kind = "install" => cmd.kind = "install" /\ cmd'.settings = cmd.settings /\ cmd'.asked = cmd.asked,
         m.conf = "admin" => m'.conf = "admin",
         m'.env \in {m.env, NoSettings} \/ (cmd.kind = "install" /\ m'.env = FormatEnv(os, cmd.settings))
  PROVE  Deciding(Values, Texts)'
<1>0. os \in {"linux", "windows"}
  BY DEF Shape
<1>1. /\ m.env \in [Names -> Written(Values, Texts) \cup {None}]
      /\ cmd.kind = "install" =>
           /\ cmd.settings \in [Names -> Values \cup {None}] /\ Readable(FormatEnv(os, cmd.settings))
           /\ Precheck(cmd.settings, Configured)
           /\ m.env # NoSettings => \A n \in Names \ cmd.asked : cmd.settings[n] = Stored[n]
  BY DEF Deciding
<1>2. cmd.kind = "install" =>
        /\ FormatEnv(os, cmd.settings) \in [Names -> Written(Values, Texts) \cup {None}]
        /\ ParseEnv(os, FormatEnv(os, cmd.settings)) = cmd.settings
  BY <1>0, <1>1, WrittenReadsBack
<1>3. NoSettings \in [Names -> Written(Values, Texts) \cup {None}]
  BY DEF NoSettings
<1>4. m'.env \in [Names -> Written(Values, Texts) \cup {None}]
  BY <1>1, <1>2, <1>3
<1>5. m'.env \in [Names -> Written(Values, Texts)' \cup {None}]
  BY <1>4 DEF Written
<1>6. ASSUME cmd'.kind = "install"
      PROVE  /\ cmd'.settings \in [Names -> Values \cup {None}] /\ Readable(FormatEnv(os, cmd.settings))'
             /\ Precheck(cmd.settings, Configured)'
             /\ m'.env # NoSettings => \A n \in Names \ cmd'.asked : cmd'.settings[n] = Stored'[n]
  <2>1. cmd.kind = "install" /\ cmd'.settings = cmd.settings /\ cmd'.asked = cmd.asked
    BY <1>6
  <2>2. Precheck(cmd.settings, Configured)'
    BY <1>1, <2>1 DEF Precheck, Configured
  <2>3. ASSUME m'.env # NoSettings, NEW n \in Names \ cmd.asked PROVE cmd.settings[n] = Stored'[n]
    <3>1. CASE m'.env = m.env
      <4>1. Stored' = Stored
        BY <3>1 DEF Stored
      <4> QED
        BY <1>1, <2>1, <2>3, <3>1, <4>1
    <3>2. CASE m'.env = FormatEnv(os, cmd.settings)
      <4>1. Stored' = cmd.settings
        BY <1>2, <2>1, <3>2 DEF Stored
      <4> QED
        BY <4>1
    <3> QED
      BY <2>3, <3>1, <3>2
  <2> QED
    BY <1>1, <2>1, <2>2, <2>3
<1> QED
  BY <1>5, <1>6 DEF Deciding

LEMMA PlanDeciding ==
  ASSUME NEW Values, NEW Texts, ReadsBack(Values, Texts), Shape, Deciding(Values, Texts), UNCHANGED <<os, m>>,
         NEW r \in Requests, ~Refused(r), NEW elsewhere \in BOOLEAN, NEW v, cmd' = Plan(elsewhere, v, r)
  PROVE  Deciding(Values, Texts)'
<1>1. /\ cmd'.settings \in [Names -> Values \cup {None}] /\ Readable(FormatEnv(os, cmd'.settings))
      /\ Precheck(cmd'.settings, Configured)
      /\ \A n \in Names \ cmd'.asked : cmd'.settings[n] = Stored[n]
  BY PlanDecided
<1>2. Stored' = Stored /\ Configured' = Configured /\ Written(Values, Texts)' = Written(Values, Texts)
  BY DEF Stored, Configured, Written
<1>3. m.env \in [Names -> Written(Values, Texts) \cup {None}]
  BY DEF Deciding
<1>4. m'.env \in [Names -> Written(Values, Texts)' \cup {None}]
  BY <1>2, <1>3
<1>5. Precheck(cmd.settings, Configured)' /\ Readable(FormatEnv(os, cmd.settings))'
  BY <1>1, <1>2
<1> QED
  BY <1>1, <1>2, <1>4, <1>5 DEF Deciding

(* A step of a command writes the settings that were decided, or none.     *)
LEMMA StepStores ==
  ASSUME Shape, StepDone \/ StepFails
  PROVE  /\ m.conf # "absent" => m'.conf = m.conf
         /\ m'.env \in {m.env, NoSettings} \/ (cmd.kind = "install" /\ m'.env = FormatEnv(os, cmd.settings))
         /\ cmd'.kind = "install" => cmd.kind = "install" /\ cmd'.settings = cmd.settings /\ cmd'.asked = cmd.asked
<1> DEFINE step == Head(cmd.steps)
           e == FormatEnv(os, cmd.settings)
<1>1. cmd.steps # <<>> /\ (m' = m \/ \E g \in After(step) : m' = g)
  BY DEF StepDone, StepFails
<1>2. cmd' = [cmd EXCEPT !.steps = Tail(@)] \/ cmd' = NoCommand
  BY DEF StepDone, StepFails, CommandEnds
<1>3. cmd'.kind = "install" => cmd.kind = "install" /\ cmd'.settings = cmd.settings /\ cmd'.asked = cmd.asked
  BY <1>2 DEF Shape, NoCommand
<1>4. step = "env" => cmd.kind = "install"
  <2>1. cmd.kind = "uninstall" => step \in RemovalSteps
    BY <1>1, HeadTailProperties DEF Shape, Ends
  <2>2. "env" \notin RemovalSteps
    BY DEF RemovalSteps
  <2> QED
    BY <1>1, <2>1, <2>2 DEF Shape
<1>5. CASE m' = m
  BY <1>3, <1>5
<1>6. CASE \E g \in After(step) : m' = g
  <2>1. PICK g \in After(step) : m' = g
    BY <1>6
  <2>2. Steady(m, g, step, e)
    BY <1>1, AfterSteady
  <2>3. /\ m.conf # "absent" => g.conf = m.conf
        /\ g.env \in {m.env, NoSettings} \/ (step = "env" /\ g.env = e)
    BY <2>2 DEF Steady
  <2> QED
    BY <1>3, <1>4, <2>1, <2>3
<1> QED
  BY <1>1, <1>5, <1>6

(* What else happens stores nothing. *)
LEMMA OtherStores ==
  ASSUME Shape, ServiceFails \/ ServiceRestarts \/ AdminConfigures \/ MachineRestarts
  PROVE  (m.conf # "absent" => m'.conf = m.conf) /\ m'.env \in {m.env, NoSettings}
<1>1. Gone(m') => m'.env = NoSettings
  BY DEF Gone
<1>2. CASE ServiceFails \/ ServiceRestarts \/ AdminConfigures
  BY <1>1, <1>2, QuietHost, SparedHost DEF Quiet, Spared
<1>3. CASE MachineRestarts
  BY <1>1, <1>3, RestartedHost, RestartedService
<1> QED
  BY <1>2, <1>3

(* The upgrade changes the program only. *)
LEMMA UpgradeStores ==
  ASSUME Shape, StepsAside \/ UpgradeFinishes
  PROVE  m'.conf = m.conf /\ m'.env = m.env
<1>1. m' = m \/ m' = RemoveBinary(m) \/ m' = WriteBinary(m, stage)
  BY DEF StepsAside, UpgradeFinishes, Finish
<1> QED
  BY <1>1 DEF RemoveBinary, WriteBinary, Shape, IsHost, HostFields

LEMMA DecidingStep ==
  ASSUME NEW Values, NEW Texts, ReadsBack(Values, Texts), Inv, Deciding(Values, Texts), [Next]_vars
  PROVE  Deciding(Values, Texts)'
<1>0. Shape
  BY DEF Inv
<1>1. CASE ServiceFails \/ ServiceRestarts \/ AdminConfigures
  <2>1. UNCHANGED <<os, cmd>>
    BY <1>1 DEF ServiceFails, ServiceRestarts, AdminConfigures
  <2> QED
    BY <1>0, <1>1, <2>1, OtherStores, KeepsDeciding
<1>2. CASE MachineRestarts
  <2>1. UNCHANGED os /\ cmd'.kind = "none"
    BY <1>2 DEF MachineRestarts, Interrupted, NoCommand
  <2> QED
    BY <1>0, <1>2, <2>1, OtherStores, KeepsDeciding
<1>3. CASE StepDone \/ StepFails
  <2>1. UNCHANGED os
    BY <1>3 DEF StepDone, StepFails
  <2>2. /\ m.conf # "absent" => m'.conf = m.conf
        /\ m'.env \in {m.env, NoSettings} \/ (cmd.kind = "install" /\ m'.env = FormatEnv(os, cmd.settings))
        /\ cmd'.kind = "install" => cmd.kind = "install" /\ cmd'.settings = cmd.settings /\ cmd'.asked = cmd.asked
    BY <1>0, <1>3, StepStores
  <2> QED
    BY <1>0, <2>1, <2>2, KeepsDeciding
<1>4. CASE AllDone \/ Killed
  <2>1. UNCHANGED <<os, m>> /\ cmd'.kind = "none"
    BY <1>4 DEF AllDone, CommandEnds, Killed, Interrupted, NoCommand
  <2> QED
    BY <1>0, <2>1, KeepsDeciding
<1>5. CASE UpgradeBegins \/ UpgradeResolves \/ UpgradeFetches \/ UNCHANGED vars
  <2>1. UNCHANGED <<os, m, cmd>>
    BY <1>5 DEF UpgradeBegins, UpgradeResolves, UpgradeFetches, vars
  <2> QED
    BY <1>0, <2>1, KeepsDeciding
<1>6. CASE StepsAside \/ UpgradeFinishes
  <2>1. UNCHANGED <<os, cmd>>
    BY <1>6 DEF StepsAside, UpgradeFinishes
  <2> QED
    BY <1>0, <1>6, <2>1, UpgradeStores, KeepsDeciding
<1>7. CASE UninstallBegins
  <2>1. UNCHANGED <<os, m>> /\ (UNCHANGED cmd \/ cmd'.kind = "uninstall")
    BY <1>7 DEF UninstallBegins, NoCommand
  <2> QED
    BY <1>0, <2>1, KeepsDeciding
<1>8. CASE InstallBegins
  <2>1. UNCHANGED <<os, m>>
    BY <1>8 DEF InstallBegins
  <2>2. PICK r \in Requests, v \in Versions :
          \/ \E elsewhere \in BOOLEAN : ~Refused(r) /\ cmd' = Plan(elsewhere, v, r)
          \/ UNCHANGED cmd
    BY <1>8 DEF InstallBegins
  <2>3. CASE UNCHANGED cmd
    BY <1>0, <2>1, <2>3, KeepsDeciding
  <2>4. CASE \E elsewhere \in BOOLEAN : ~Refused(r) /\ cmd' = Plan(elsewhere, v, r)
    BY <1>0, <2>1, <2>4, PlanDeciding
  <2> QED
    BY <2>2, <2>3, <2>4
<1>9. CASE HandsOver
  <2>1. UNCHANGED <<os, m>>
    BY <1>9 DEF HandsOver
  <2>2. CASE UNCHANGED cmd
    BY <1>0, <2>1, <2>2, KeepsDeciding
  <2>3. CASE \E r \in Requests, v \in up.release.holds : ~Refused(r) /\ cmd' = Plan(TRUE, v, r)
    BY <1>0, <2>1, <2>3, PlanDeciding
  <2> QED
    BY <1>9, <2>2, <2>3 DEF HandsOver, ChildSays
<1> QED
  BY <1>1, <1>2, <1>3, <1>4, <1>5, <1>6, <1>7, <1>8, <1>9 DEF Next

LEMMA InitDeciding ==
  ASSUME NEW Values, NEW Texts, ReadsBack(Values, Texts)
  PROVE  Init => Deciding(Values, Texts)
<1> SUFFICES ASSUME Init PROVE Deciding(Values, Texts)
  OBVIOUS
<1>1. m.env \in [Names -> (Values \cap Texts) \cup {None}]
  BY DEF Init, ReadsBack
<1>2. m.env \in [Names -> Written(Values, Texts) \cup {None}]
  BY <1>1 DEF Written
<1>3. cmd.kind = "none"
  BY DEF Init, NoCommand
<1> QED
  BY <1>2, <1>3 DEF Deciding

(* An install changes no stored setting that was not given or asked for    *)
(* (service/settings.go:51-56, systemd/envfile.go): if the values that can *)
(* be written read back, nothing lost on the way is stored again.          *)
THEOREM SettingsAreKept ==
  ASSUME NEW Values, NEW Texts, ReadsBack(Values, Texts)
  PROVE  Spec => SettingsKept
<1> DEFINE Unasked == cmd.kind = "install" /\ m.env # NoSettings /\ m'.env \notin {m.env, NoSettings} =>
                     \A n \in Names \ cmd.asked : ParseEnv(os, m'.env)[n] = Stored[n]
<1>1. Inv /\ Deciding(Values, Texts) /\ [Next]_vars => Unasked
  <2> SUFFICES ASSUME Inv, Deciding(Values, Texts), [Next]_vars, cmd.kind = "install", m.env # NoSettings,
                      m'.env \notin {m.env, NoSettings}
               PROVE  \A n \in Names \ cmd.asked : ParseEnv(os, m'.env)[n] = Stored[n]
    OBVIOUS
  <2>0. Shape
    BY DEF Inv
  <2>1. StepDone \/ StepFails
    <3>1. CASE ServiceFails \/ ServiceRestarts \/ AdminConfigures \/ MachineRestarts
      BY <2>0, <3>1, OtherStores
    <3>2. CASE StepsAside \/ UpgradeFinishes
      BY <2>0, <3>2, UpgradeStores
    <3>3. CASE \/ InstallBegins \/ UninstallBegins \/ AllDone \/ UpgradeBegins \/ UpgradeResolves \/ UpgradeFetches
               \/ HandsOver \/ Killed \/ UNCHANGED vars
      BY <3>3 DEF InstallBegins, UninstallBegins, AllDone, UpgradeBegins, UpgradeResolves, UpgradeFetches, HandsOver,
           Killed, vars
    <3> QED
      BY <3>1, <3>2, <3>3 DEF Next
  <2>2. m'.env = FormatEnv(os, cmd.settings)
    BY <2>0, <2>1, StepStores
  <2>3. /\ cmd.settings \in [Names -> Values \cup {None}] /\ Readable(FormatEnv(os, cmd.settings))
        /\ \A n \in Names \ cmd.asked : cmd.settings[n] = Stored[n]
    BY DEF Deciding
  <2>4. ParseEnv(os, m'.env) = cmd.settings
    BY <2>0, <2>2, <2>3, WrittenReadsBack DEF Shape
  <2> QED
    BY <2>3, <2>4
<1>2. Inv /\ Deciding(Values, Texts) /\ [Next]_vars => (Inv /\ Deciding(Values, Texts))'
  BY NextInv, DecidingStep
<1>3. Init => Inv /\ Deciding(Values, Texts)
  BY InitInv, InitDeciding
<1> QED
  BY <1>1, <1>2, <1>3, PTL DEF Spec, SettingsKept

-----------------------------------------------------------------------------
(* An install that has no steps left has left a host that works. *)
LEMMA DoneWorks ==
  ASSUME NEW Values, NEW Texts, ReadsBack(Values, Texts), Shape, Deciding(Values, Texts), Installing,
         cmd.kind = "install", cmd.steps = <<>>
  PROVE  Works(m, cmd.version) /\ Stored = cmd.settings
<1> DEFINE e == FormatEnv(os, cmd.settings)
<1>1. Ready(m, <<>>, cmd.version, e)
  BY DEF Installing
<1>2. /\ \A step : step \notin Left(<<>>)
      /\ Len(<<>>) <= 4 /\ Len(<<>>) <= 3 /\ Len(<<>>) <= 2 /\ Len(<<>>) <= 1
  BY DEF Left
<1>3. cmd.version # None /\ os \in {"linux", "windows"}
  BY MachineAssumption DEF Shape
<1>4. HostFacts(m)
  BY DEF Installing
<1> HIDE DEF e
<1>7. m.env = e
  BY <1>1, <1>2, Zenon DEF Ready, LinuxReady, WindowsReady
<1>8. Stored = cmd.settings /\ Readable(cmd.settings) /\ Precheck(cmd.settings, m.conf = "admin")
  <2>1. /\ cmd.settings \in [Names -> Values \cup {None}] /\ Readable(FormatEnv(os, cmd.settings))
        /\ Precheck(cmd.settings, Configured)
    BY DEF Deciding
  <2>2. ParseEnv(os, FormatEnv(os, cmd.settings)) = cmd.settings /\ Readable(cmd.settings)
    BY <1>3, <2>1, WrittenReadsBack
  <2> QED
    BY <1>7, <2>1, <2>2 DEF Stored, Configured, e
<1>9. Serves(m)
  BY <1>8 DEF Serves, Stored
<1>5. CASE os = "linux"
  <2>1. LinuxReady(m, <<>>, cmd.version, e)
    BY <1>1, <1>5 DEF Ready
  <2>2. /\ m.binary = cmd.version /\ m.dir /\ "dir" \notin m.loose /\ m.conf # "absent" /\ "conf" \notin m.loose
        /\ m.unit = "own" /\ m.loaded /\ m.enabled /\ Up(m)
    BY <1>2, <2>1, Zenon DEF LinuxReady
  <2>3. m.loose = {}
    BY <1>4, <2>2 DEF HostFacts
  <2> QED
    BY <1>3, <1>8, <1>9, <2>2, <2>3 DEF Works
<1>6. CASE os = "windows"
  <2>1. WindowsReady(m, <<>>, cmd.version, e)
    BY <1>1, <1>6 DEF Ready
  <2>2. /\ m.binary = cmd.version /\ m.dir /\ m.loose = {} /\ m.conf # "absent"
        /\ m.unit = "own" /\ m.loaded /\ m.enabled /\ m.service # "stopped" /\ Current(m)
    BY <1>2, <2>1, Zenon DEF WindowsReady
  <2> QED
    BY <1>3, <1>6, <1>8, <1>9, <2>2 DEF Works, Up, Current
<1> QED
  BY <1>3, <1>5, <1>6

-----------------------------------------------------------------------------
(* An install that says it is done left a host that works.                 *)

LEMMA PrimedInstalling ==
  ASSUME UNCHANGED os, HostFacts(m'),
         cmd'.kind = "install" => Ready(m', cmd'.steps, cmd'.version, FormatEnv(os, cmd'.settings)),
         up'.phase = "finish" /\ Outcome' = "upgraded" => Works(m', up'.release.version),
         Idle' /\ report'.what \in {"installed", "upgraded"} => Works(m', report'.version),
         Idle' /\ report'.what = "installed" => ParseEnv(os, m'.env) = report'.settings
  PROVE  Installing'
<1>2. cmd'.kind = "install" => Ready(m, cmd.steps, cmd.version, FormatEnv(os, cmd.settings))'
  <2> SUFFICES ASSUME cmd'.kind = "install", Ready(m', cmd'.steps, cmd'.version, FormatEnv(os, cmd'.settings))
               PROVE  Ready(m, cmd.steps, cmd.version, FormatEnv(os, cmd.settings))'
    OBVIOUS
  <2>1. CASE os = "linux"
    BY <2>1 DEF Ready, LinuxReady, Up
  <2>2. CASE os # "linux"
    BY <2>2 DEF Ready, WindowsReady
  <2> QED
    BY <2>1, <2>2
<1>3. up'.phase = "finish" /\ Outcome' = "upgraded" => Works(m, up.release.version)'
  BY DEF Works, Up, Serves
<1>4. Idle' /\ report'.what \in {"installed", "upgraded"} => Works(m, report.version)'
  BY DEF Works, Up, Serves
<1>5. Idle' /\ report'.what = "installed" => Stored' = report'.settings
  BY DEF Stored
<1> QED
  BY <1>2, <1>3, <1>4, <1>5 DEF Installing

(* A step that leaves no install under way, done or about to be. *)
LEMMA NothingInstalled ==
  ASSUME UNCHANGED os, HostFacts(m'), cmd'.kind # "install",
         up'.phase = "finish" => Outcome' # "upgraded",
         Idle' => report'.what \notin {"installed", "upgraded"}
  PROVE  Installing'
BY PrimedInstalling

LEMMA OtherInstalling ==
  ASSUME Shape, Installing, ServiceFails \/ ServiceRestarts \/ AdminConfigures \/ UNCHANGED vars
  PROVE  Installing'
<1>1. UNCHANGED <<os, cmd, up, report>>
  BY DEF ServiceFails, ServiceRestarts, AdminConfigures, vars
<1>2. Outcome' = Outcome /\ Idle' = Idle
  BY <1>1 DEF Outcome, Idle
<1>3. CASE ServiceFails \/ ServiceRestarts \/ AdminConfigures
  <2>1. Quiet(m') /\ Spared(m')
    BY <1>3, QuietHost, SparedHost
  <2>2. cmd.kind = "install" => Len(cmd.steps) \in Nat
    BY LenProperties DEF Shape
  <2>3. HostFacts(m')
    <3>1. Len(<<>>) \in Nat
      OBVIOUS
    <3> QED
      BY <1>1, <2>1, <3>1, SparedWorks DEF Installing
  <2>4. cmd.kind = "install" => Ready(m', cmd.steps, cmd.version, FormatEnv(os, cmd.settings))
    BY <1>1, <2>1, <2>2, SparedWorks DEF Installing
  <2>5. \A v : Works(m, v) => Works(m', v) /\ m'.env = m.env
    <3>1. Len(<<>>) \in Nat
      OBVIOUS
    <3> QED
      BY <1>1, <2>1, <3>1, SparedWorks
  <2>6. up.phase = "finish" /\ Outcome = "upgraded" => Works(m', up.release.version)
    BY <2>5 DEF Installing
  <2>7. Idle /\ report.what \in {"installed", "upgraded"} => Works(m', report.version)
    BY <2>5 DEF Installing
  <2>8. Idle /\ report.what = "installed" => ParseEnv(os, m'.env) = report.settings
    BY <2>5 DEF Installing, Stored
  <2> QED
    BY <1>1, <1>2, <2>3, <2>4, <2>6, <2>7, <2>8, PrimedInstalling
<1>4. CASE UNCHANGED vars
  <2>1. UNCHANGED m
    BY <1>4 DEF vars
  <2> QED
    BY <1>1, <1>2, <2>1, PrimedInstalling DEF Installing, Stored
<1> QED
  BY <1>3, <1>4

LEMMA InterruptedInstalling ==
  ASSUME Shape, Installing, Killed \/ MachineRestarts
  PROVE  Installing'
<1>1. cmd' = NoCommand /\ up' = NoUpgrade /\ UNCHANGED os
  BY DEF Killed, MachineRestarts, Interrupted
<1>2. cmd'.kind = "none" /\ up'.phase = "none" /\ Idle'
  BY <1>1 DEF NoCommand, NoUpgrade, Idle
<1>3. HostFacts(m)
  BY DEF Installing
<1>4. CASE Killed
  <2>1. report'.what = "interrupted" /\ UNCHANGED m
    BY <1>4 DEF Killed, Says, Reports
  <2> QED
    BY <1>1, <1>2, <1>3, <2>1, NothingInstalled
<1>5. CASE MachineRestarts
  <2>1. HostFacts(m') /\ \A v : Works(m, v) => Works(m', v) /\ m'.env = m.env
    BY <1>1, <1>3, <1>5, RestartedWorks
  <2>2. (Idle /\ report' = report) \/ report'.what = "interrupted"
    BY <1>5 DEF MachineRestarts, Says, Reports
  <2>3. report'.what \in {"installed", "upgraded"} => Works(m', report'.version)
    BY <2>1, <2>2 DEF Installing
  <2>4. report'.what = "installed" => ParseEnv(os, m'.env) = report'.settings
    BY <2>1, <2>2 DEF Installing, Stored
  <2> QED
    BY <1>1, <1>2, <2>1, <2>3, <2>4, PrimedInstalling
<1> QED
  BY <1>4, <1>5

(* Everything decided before the first step is ready to be done. *)
LEMMA PlanReady ==
  ASSUME Shape, HostFacts(m), NEW r, ~Refused(r), NEW elsewhere \in BOOLEAN, NEW v, elsewhere \/ v = m.binary
  PROVE  LET plan == Plan(elsewhere, v, r) IN
         plan.kind = "install" /\ Ready(m, plan.steps, plan.version, FormatEnv(os, plan.settings))
<1> DEFINE plan == Plan(elsewhere, v, r)
           e == FormatEnv(os, plan.settings)
<1>0. IsHost(m) /\ (m.unit = "marked" => os = "windows") /\ os \in {"linux", "windows"} /\ m.unit # "foreign"
  BY DEF Shape, Refused
<1>1. /\ plan.kind = "install" /\ plan.version = v
      /\ plan.steps = IF os = "linux" THEN LinuxInstall(m, elsewhere) ELSE WindowsInstall(m, elsewhere)
  BY DEF Plan
<1> HIDE DEF plan, e
<1>2. CASE os = "linux"
  <2>1. LinuxReady(m, LinuxInstall(m, elsewhere), v, e)
    BY <1>0, <1>2, LinuxPlanReady
  <2> QED
    BY <1>1, <1>2, <2>1 DEF Ready, e, plan
<1>3. CASE os = "windows"
  <2>1. WindowsReady(m, WindowsInstall(m, elsewhere), v, e)
    BY <1>0, WindowsPlanReady
  <2> QED
    BY <1>1, <1>3, <2>1 DEF Ready, e, plan
<1> QED
  BY <1>0, <1>2, <1>3

LEMMA InstallBeginsInstalling ==
  ASSUME Shape, Installing, InstallBegins
  PROVE  Installing'
<1>1. UNCHANGED <<os, m, up>> /\ cmd.kind = "none" /\ up.phase = "none"
  BY DEF InstallBegins, Begins, Idle
<1>2. HostFacts(m)
  BY DEF Installing
<1>3. PICK r \in Requests, v \in Versions :
        \/ ~Refused(r) /\ cmd' = Plan(TRUE, v, r)
        \/ ~Refused(r) /\ v = m.binary /\ cmd' = Plan(FALSE, v, r)
        \/ Says("refused") /\ UNCHANGED cmd
  BY DEF InstallBegins
<1>4. CASE Says("refused") /\ UNCHANGED cmd
  <2>1. report'.what = "refused"
    BY <1>4 DEF Says, Reports
  <2> QED
    BY <1>1, <1>2, <1>4, <2>1, NothingInstalled
<1>5. CASE ~Refused(r) /\ \E elsewhere \in BOOLEAN : (elsewhere \/ v = m.binary) /\ cmd' = Plan(elsewhere, v, r)
  <2>1. PICK elsewhere \in BOOLEAN : (elsewhere \/ v = m.binary) /\ cmd' = Plan(elsewhere, v, r)
    BY <1>5
  <2>2. cmd'.kind = "install" /\ Ready(m, cmd'.steps, cmd'.version, FormatEnv(os, cmd'.settings))
    BY <1>2, <1>5, <2>1, PlanReady
  <2>3. ~Idle'
    BY <2>2 DEF Idle
  <2> QED
    BY <1>1, <1>2, <2>2, <2>3, PrimedInstalling
<1> QED
  BY <1>3, <1>4, <1>5

LEMMA StepDoneInstalling ==
  ASSUME Inv, Installing, StepDone
  PROVE  Installing'
<1>0. Shape /\ Uninstalling
  BY DEF Inv
<1>1. PICK g \in After(Head(cmd.steps)) :
        /\ m' = g
        /\ IF Watched(Head(cmd.steps), g)
             THEN cmd' = [cmd EXCEPT !.steps = Tail(@)] /\ UNCHANGED <<up, report>>
             ELSE CommandEnds("failed")
  BY DEF StepDone
<1>2. cmd.steps # <<>> /\ UNCHANGED os /\ cmd.kind # "none"
  BY <1>0 DEF StepDone, Shape
<1>3. HostFacts(m')
  BY <1>0, <1>1, <1>2, AfterSteady
<1>4. CASE Watched(Head(cmd.steps), g)
  <2>1. /\ cmd'.kind = cmd.kind /\ cmd'.steps = Tail(cmd.steps) /\ cmd'.version = cmd.version
        /\ cmd'.settings = cmd.settings /\ UNCHANGED <<up, report>>
    BY <1>0, <1>1, <1>4 DEF Shape
  <2>2. ~Idle' /\ up'.phase # "finish"
    BY <1>0, <1>2, <2>1 DEF Idle, Shape
  <2>3. cmd.kind = "install" => Ready(m', cmd'.steps, cmd'.version, FormatEnv(os, cmd'.settings))
    BY <1>0, <1>1, <1>2, <1>4, <2>1, AfterReady
  <2> QED
    BY <1>2, <1>3, <2>1, <2>2, <2>3, PrimedInstalling
<1>5. CASE CommandEnds("failed")
  <2>1. cmd'.kind = "none" /\ DOMAIN up = {"phase", "self", "mode", "want", "release", "code", "before"}
    BY <1>0, <1>5 DEF CommandEnds, NoCommand, Shape
  <2>2. CASE up.phase = "child"
    <3>1. up'.phase = "finish" /\ up'.code = "failed"
      BY <1>5, <2>1, <2>2 DEF CommandEnds
    <3>2. Outcome' = "failed" /\ ~Idle'
      BY <3>1 DEF Outcome, Idle
    <3> QED
      BY <1>2, <1>3, <2>1, <3>2, NothingInstalled
  <2>3. CASE up.phase # "child"
    <3>1. report'.what = "failed" /\ UNCHANGED up
      BY <1>5, <2>3 DEF CommandEnds, Reports
    <3>2. up'.phase # "finish"
      BY <1>0, <1>2, <3>1 DEF Shape
    <3> QED
      BY <1>2, <1>3, <2>1, <3>1, <3>2, NothingInstalled
  <2> QED
    BY <2>2, <2>3
<1> QED
  BY <1>1, <1>4, <1>5

LEMMA StepFailsInstalling ==
  ASSUME Inv, Installing, StepFails
  PROVE  Installing'
<1>0. Shape /\ Uninstalling
  BY DEF Inv
<1> DEFINE step == Head(cmd.steps)
<1>1. /\ m' \in {m} \cup (IF step \in Compound THEN After(step) ELSE {})
      /\ IF step = "reset-failed"
           THEN cmd' = [cmd EXCEPT !.steps = Tail(@)] /\ UNCHANGED <<up, report>>
           ELSE CommandEnds("failed")
      /\ UNCHANGED os /\ cmd.steps # <<>>
  BY DEF StepFails
<1>2. cmd.kind # "none"
  BY <1>0, <1>1 DEF Shape
<1>3. HostFacts(m')
  <2>1. m' = m \/ m' \in After(step)
    BY <1>1
  <2>2. CASE m' = m
    BY <2>2 DEF Installing
  <2>3. CASE m' \in After(step)
    <3>1. PICK g \in After(step) : m' = g
      BY <2>3
    <3>2. HostFacts(g)
      BY <1>0, <1>1, <3>1, AfterSteady
    <3> QED
      BY <3>1, <3>2
  <2> QED
    BY <2>1, <2>2, <2>3
<1>4. CASE step = "reset-failed"
  <2>1. cmd.kind = "uninstall" /\ up.phase = "none"
    <3>1. cmd.kind # "install"
      <4>1. "reset-failed" \notin InstallSteps
        BY DEF InstallSteps, LinuxInstallSteps, WindowsInstallSteps
      <4>2. cmd.kind = "install" => step \in InstallSteps
        BY <1>0, <1>1, HeadTailProperties DEF Shape
      <4> QED
        BY <1>4, <4>1, <4>2
    <3> QED
      BY <1>0, <1>2, <3>1 DEF Shape
  <2>2. cmd'.kind = "uninstall" /\ UNCHANGED up
    BY <1>0, <1>1, <1>4, <2>1 DEF Shape
  <2> QED
    BY <1>1, <1>3, <2>1, <2>2, NothingInstalled DEF Idle
<1>5. CASE CommandEnds("failed")
  <2>1. cmd'.kind = "none" /\ DOMAIN up = {"phase", "self", "mode", "want", "release", "code", "before"}
    BY <1>0, <1>5 DEF CommandEnds, NoCommand, Shape
  <2>2. CASE up.phase = "child"
    <3>1. up'.phase = "finish" /\ up'.code = "failed"
      BY <1>5, <2>1, <2>2 DEF CommandEnds
    <3>2. Outcome' = "failed" /\ ~Idle'
      BY <3>1 DEF Outcome, Idle
    <3> QED
      BY <1>1, <1>3, <2>1, <3>2, NothingInstalled
  <2>3. CASE up.phase # "child"
    <3>1. report'.what = "failed" /\ UNCHANGED up
      BY <1>5, <2>3 DEF CommandEnds, Reports
    <3>2. up'.phase # "finish"
      BY <1>0, <1>2, <3>1 DEF Shape
    <3> QED
      BY <1>1, <1>3, <2>1, <3>1, <3>2, NothingInstalled
  <2> QED
    BY <2>2, <2>3
<1> QED
  BY <1>1, <1>4, <1>5

(* Versions that compare as equal are one. *)
LEMMA SameVersion ==
  ASSUME PrecedenceIsCompare, NEW v \in Versions, NEW w \in Versions, Compare(v, w) = 0
  PROVE  v = w
<1> DEFINE a == Rank(v)
           b == Rank(w)
<1>1. a \in Int /\ b \in Int /\ Precedence[a] = v /\ Precedence[b] = w /\ cmpInt(a, b) = 0
  BY DEF PrecedenceIsCompare
<1> HIDE DEF a, b
<1>2. a = b
  BY <1>1 DEF cmpInt
<1> QED
  BY <1>1, <1>2

LEMMA AllDoneInstalling ==
  ASSUME NEW Values, NEW Texts, ReadsBack(Values, Texts), PrecedenceIsCompare,
         Inv, Deciding(Values, Texts), Installing, AllDone
  PROVE  Installing'
<1>0. Shape /\ Released
  BY DEF Inv
<1>1. cmd.kind # "none" /\ cmd.steps = <<>> /\ CommandEnds("ok") /\ UNCHANGED <<os, m>>
  BY DEF AllDone
<1>2. HostFacts(m')
  BY <1>1 DEF Installing
<1>3. cmd'.kind = "none" /\ DOMAIN up = {"phase", "self", "mode", "want", "release", "code", "before"}
  BY <1>0, <1>1 DEF CommandEnds, NoCommand, Shape
<1>4. cmd.kind = "install" => Works(m', cmd.version) /\ ParseEnv(os, m'.env) = cmd.settings
  BY <1>0, <1>1, DoneWorks DEF Stored
<1>5. CASE up.phase = "child"
  <2>1. up'.phase = "finish" /\ up'.release = up.release
    BY <1>1, <1>3, <1>5 DEF CommandEnds
  <2>2. cmd.kind = "install"
    BY <1>0, <1>1, <1>5 DEF Shape
  <2>3. /\ cmd.version \in up.release.holds /\ Verified(up.release)
        /\ up.release.version \in Versions /\ up.release.holds \subseteq Versions
        /\ \A v, w \in up.release.holds : v = w
    BY <1>0, <1>5, <2>2 DEF Released
  <2>4. Compare(cmd.version, up.release.version) = 0
    BY <2>3 DEF Verified
  <2>5. cmd.version = up'.release.version
    BY <2>1, <2>3, <2>4, SameVersion
  <2>6. ~Idle'
    BY <2>1 DEF Idle
  <2> QED
    BY <1>1, <1>2, <1>3, <1>4, <2>2, <2>5, <2>6, PrimedInstalling
<1>6. CASE up.phase # "child"
  <2>1. UNCHANGED up /\ up.phase = "none"
    BY <1>0, <1>1, <1>6 DEF CommandEnds, Shape
  <2>2. /\ report'.what = (IF cmd.kind = "install" THEN "installed" ELSE "uninstalled")
        /\ report'.version = cmd.version /\ report'.settings = cmd.settings
    BY <1>1, <1>6 DEF CommandEnds, Reports
  <2>3. report'.what \in {"installed", "upgraded"} => Works(m', report'.version)
    BY <1>4, <2>2
  <2>4. report'.what = "installed" => ParseEnv(os, m'.env) = report'.settings
    BY <1>4, <2>2
  <2> QED
    BY <1>1, <1>2, <1>3, <2>1, <2>3, <2>4, PrimedInstalling
<1> QED
  BY <1>5, <1>6

LEMMA Said == \A what :
  /\ Says(what) => report'.what = what
  /\ UpgradeSays(what) => report'.what = what /\ up'.phase = "none"
BY DEF UpgradeSays, Says, Reports, NoUpgrade

LEMMA UpgradingInstalling ==
  ASSUME Inv, Installing, UninstallBegins \/ UpgradeBegins \/ UpgradeResolves \/ UpgradeFetches \/ StepsAside
  PROVE  Installing'
<1>0. Shape
  BY DEF Inv
<1>1. UNCHANGED os /\ HostFacts(m)
  BY DEF UninstallBegins, UpgradeBegins, UpgradeResolves, UpgradeFetches, StepsAside, Installing
<1>2. DOMAIN up = UpFields /\ IsHost(m)
  BY <1>0 DEF Shape, UpFields
<1>3. CASE UninstallBegins
  <2>1. UNCHANGED <<m, up>> /\ up.phase = "none"
    BY <1>3 DEF UninstallBegins, Begins, Idle
  <2>2. \/ cmd'.kind = "uninstall"
        \/ report'.what \in {"refused", "not installed"} /\ UNCHANGED cmd /\ cmd.kind = "none"
    <3>1. \A steps : [NoCommand EXCEPT !.kind = "uninstall", !.steps = steps].kind = "uninstall"
      BY DEF NoCommand
    <3>2. cmd.kind = "none"
      BY <1>3 DEF UninstallBegins, Begins, Idle
    <3> QED
      <4>1. CASE Says(IF m.unit = "foreign" THEN "refused" ELSE "not installed") /\ UNCHANGED cmd
        <5>1. report'.what = IF m.unit = "foreign" THEN "refused" ELSE "not installed"
          BY <4>1, Said
        <5> QED
          BY <3>2, <4>1, <5>1
      <4>2. CASE \E steps : cmd' = [NoCommand EXCEPT !.kind = "uninstall", !.steps = steps]
        BY <3>1, <4>2
      <4> QED
        BY <1>3, <4>1, <4>2 DEF UninstallBegins
  <2> QED
    BY <1>1, <2>1, <2>2, NothingInstalled DEF Idle
<1>4. CASE UpgradeBegins
  <2>1. UNCHANGED <<m, cmd>> /\ cmd.kind = "none" /\ up.phase = "none"
    BY <1>4 DEF UpgradeBegins, Begins, Idle
  <2>2. (report'.what = "refused" /\ UNCHANGED up) \/ up'.phase = "resolve"
    <3>1. CASE \E want \in Wants, mode \in {"run", "dry", "check"}, self \in BOOLEAN :
                 up' = [NoUpgrade EXCEPT !.phase = "resolve", !.want = want, !.mode = mode,
                          !.self = self, !.before = Files(m)]
      BY <3>1 DEF NoUpgrade
    <3> QED
      BY <1>4, <3>1, Said DEF UpgradeBegins
  <2> QED
    BY <1>1, <2>1, <2>2, NothingInstalled DEF Idle
<1>5. CASE UpgradeResolves
  <2>1. UNCHANGED <<m, cmd>> /\ cmd.kind = "none"
    BY <1>0, <1>5 DEF UpgradeResolves, Shape
  <2>2. \/ \E what \in {"unchanged", "up to date", "newer", "available"} : UpgradeSays(what)
        \/ \E release : up' = [up EXCEPT !.phase = "fetch", !.release = release]
    BY <1>5 DEF UpgradeResolves
  <2>3. \/ report'.what \in {"unchanged", "up to date", "newer", "available"} /\ up'.phase = "none"
        \/ up'.phase = "fetch"
    <3>1. \A release : [up EXCEPT !.phase = "fetch", !.release = release].phase = "fetch"
      BY <1>2 DEF UpFields
    <3> QED
      BY <2>2, <3>1, Said
  <2> QED
    BY <1>1, <2>1, <2>3, NothingInstalled DEF Idle
<1>6. CASE UpgradeFetches
  <2>1. UNCHANGED <<m, cmd>> /\ cmd.kind = "none"
    BY <1>0, <1>6 DEF UpgradeFetches, Shape
  <2>2. (report'.what = "unchanged" /\ up'.phase = "none") \/ up'.phase = "hand over"
    <3>1. [up EXCEPT !.phase = "hand over"].phase = "hand over"
      BY <1>2 DEF UpFields
    <3> QED
      BY <1>6, <3>1, Said DEF UpgradeFetches
  <2> QED
    BY <1>1, <2>1, <2>2, NothingInstalled DEF Idle
<1>7. CASE StepsAside
  <2>1. UNCHANGED cmd /\ cmd.kind = "none" /\ (m' = m \/ m' = RemoveBinary(m))
    BY <1>0, <1>7 DEF StepsAside, Shape
  <2>2. (report'.what = "unchanged" /\ up'.phase = "none") \/ up'.phase = "child"
    <3>1. [up EXCEPT !.phase = "child"].phase = "child"
      BY <1>2 DEF UpFields
    <3> QED
      BY <1>7, <3>1, Said DEF StepsAside
  <2>3. HostFacts(m')
    <3>1. LET h == RemoveBinary(m) IN
          h.unit = m.unit /\ h.service = m.service /\ h.loose = m.loose /\ h.dir = m.dir /\ h.conf = m.conf
      BY <1>2 DEF RemoveBinary, IsHost, HostFields
    <3>2. HostFacts(RemoveBinary(m))
      BY <1>1, <3>1 DEF HostFacts
    <3> QED
      BY <1>1, <2>1, <3>2
  <2> QED
    BY <1>1, <2>1, <2>2, <2>3, NothingInstalled DEF Idle
<1> QED
  BY <1>3, <1>4, <1>5, <1>6, <1>7

LEMMA HandsOverInstalling ==
  ASSUME Inv, Installing, HandsOver
  PROVE  Installing'
<1>0. Shape
  BY DEF Inv
<1>1. UNCHANGED <<os, m>> /\ up.phase = "child" /\ cmd.kind = "none" /\ DOMAIN up = UpFields /\ HostFacts(m)
  BY <1>0 DEF HandsOver, Shape, UpFields, Installing
<1>2. CASE \E code : ChildSays(code) /\ (code \in {"not run", "failed"} \/ up.mode = "dry")
  <2>1. PICK code : ChildSays(code) /\ (code \in {"not run", "failed"} \/ up.mode = "dry")
    BY <1>2
  <2>2. /\ UNCHANGED cmd /\ up'.phase = "finish" /\ up'.code = code /\ up'.mode = up.mode
    BY <1>1, <2>1 DEF ChildSays, UpFields
  <2>3. Outcome' # "upgraded"
    BY <2>1, <2>2 DEF Outcome
  <2>4. ~Idle'
    BY <2>2 DEF Idle
  <2> QED
    BY <1>1, <2>2, <2>3, <2>4, NothingInstalled
<1>3. CASE UNCHANGED up /\ \E r \in Requests, v \in up.release.holds : ~Refused(r) /\ cmd' = Plan(TRUE, v, r)
  <2>1. PICK r \in Requests, v \in up.release.holds : ~Refused(r) /\ cmd' = Plan(TRUE, v, r)
    BY <1>3
  <2>2. cmd'.kind = "install" /\ Ready(m, cmd'.steps, cmd'.version, FormatEnv(os, cmd'.settings))
    BY <1>0, <1>1, <2>1, PlanReady
  <2>3. ~Idle' /\ up'.phase # "finish"
    BY <1>1, <1>3 DEF Idle
  <2> QED
    BY <1>1, <2>2, <2>3, PrimedInstalling
<1>4. \/ \E code : ChildSays(code) /\ (code \in {"not run", "failed"} \/ up.mode = "dry")
      \/ UNCHANGED up /\ \E r \in Requests, v \in up.release.holds : ~Refused(r) /\ cmd' = Plan(TRUE, v, r)
  BY DEF HandsOver
<1> QED
  BY <1>2, <1>3, <1>4

LEMMA UpgradeFinishesInstalling ==
  ASSUME Inv, Installing, UpgradeFinishes
  PROVE  Installing'
<1>0. Shape
  BY DEF Inv
<1>1. UNCHANGED <<os, cmd>> /\ up.phase = "finish" /\ up' = NoUpgrade /\ cmd.kind = "none" /\ HostFacts(m) /\ IsHost(m)
  BY <1>0 DEF UpgradeFinishes, Shape, Installing
<1>2. up'.phase = "none"
  BY <1>1 DEF NoUpgrade
<1>3. CASE Says("lost") /\ UNCHANGED m
  <2>1. report'.what = "lost"
    BY <1>3 DEF Says, Reports
  <2> QED
    BY <1>1, <1>2, <1>3, <2>1, NothingInstalled
<1>4. CASE Finish /\ Reports(Outcome, up.release.version, NoSettings, up.before)
  <2>1. report'.what = Outcome /\ report'.version = up.release.version
    BY <1>4 DEF Reports
  <2>2. Outcome # "installed"
    BY DEF Outcome
  <2>3. CASE Outcome = "upgraded"
    <3>1. Works(m, up.release.version)
      BY <1>1, <2>3 DEF Installing
    <3>2. m.binary # None
      BY <3>1 DEF Works
    <3>3. UNCHANGED m
      BY <1>4, <3>2 DEF Finish
    <3> QED
      BY <1>1, <1>2, <2>1, <2>2, <3>1, <3>3, PrimedInstalling
  <2>4. CASE Outcome # "upgraded"
    <3>1. m' = m \/ m' = WriteBinary(m, stage)
      BY <1>4 DEF Finish
    <3>2. LET h == WriteBinary(m, stage) IN
          h.unit = m.unit /\ h.service = m.service /\ h.loose = m.loose /\ h.dir = m.dir /\ h.conf = m.conf
      BY <1>1 DEF WriteBinary, IsHost, HostFields
    <3>3. HostFacts(WriteBinary(m, stage))
      BY <1>1, <3>2 DEF HostFacts
    <3> QED
      BY <1>1, <1>2, <2>1, <2>2, <2>4, <3>1, <3>3, NothingInstalled
  <2> QED
    BY <2>3, <2>4
<1> QED
  BY <1>3, <1>4 DEF UpgradeFinishes

LEMMA InitInstalling == Init => Installing
<1> SUFFICES ASSUME Init PROVE Installing
  OBVIOUS
<1>1. HostFacts(m)
  BY MachineAssumption DEF Init, HostFacts
<1> QED
  BY <1>1 DEF Init, Installing, NoCommand, NoUpgrade

LEMMA InstallingStep ==
  ASSUME NEW Values, NEW Texts, ReadsBack(Values, Texts), PrecedenceIsCompare,
         Inv, Deciding(Values, Texts), Installing, [Next]_vars
  PROVE  Installing'
<1>1. Shape
  BY DEF Inv
<1> QED
  BY <1>1, OtherInstalling, InterruptedInstalling, InstallBeginsInstalling, StepDoneInstalling, StepFailsInstalling,
     AllDoneInstalling, UpgradingInstalling, HandsOverInstalling, UpgradeFinishesInstalling DEF Next

(* A command that says it has installed or upgraded leaves the version it   *)
(* names in place and a loaded, enabled service that runs it or is being   *)
(* restarted, whatever the host had before and whatever happens to the     *)
(* service afterwards; after an install the stored settings are the ones   *)
(* decided (cli/service.go:154, cli/upgrade.go:170).                       *)
THEOREM InstallsWork ==
  ASSUME NEW Values, NEW Texts, ReadsBack(Values, Texts), PrecedenceIsCompare
  PROVE  Spec => []InstalledWorks
<1>1. Init => Inv /\ Deciding(Values, Texts) /\ Installing
  BY InitInv, InitDeciding, InitInstalling
<1>2. Inv /\ Deciding(Values, Texts) /\ Installing /\ [Next]_vars => (Inv /\ Deciding(Values, Texts) /\ Installing)'
  BY NextInv, DecidingStep, InstallingStep
<1>3. Installing => InstalledWorks
  <2> SUFFICES ASSUME Installing, Idle, report.what \in {"installed", "upgraded"}
               PROVE  /\ m.binary = report.version /\ m.unit = "own" /\ m.loaded /\ m.enabled
                      /\ m.dir /\ m.conf # "absent" /\ m.loose = {}
                      /\ m.service # "stopped"
                      /\ report.what = "installed" => Stored = report.settings
                      /\ Readable(Stored) /\ Precheck(Stored, Configured)
                      /\ Running(m) => m.program = m.binary /\ (os = "linux" => m.using = m.env)
    BY DEF InstalledWorks
  <2>1. Works(m, report.version) /\ (report.what = "installed" => Stored = report.settings)
    BY DEF Installing
  <2>2. Serves(m) => Readable(Stored) /\ Precheck(Stored, Configured)
    BY DEF Serves, Stored, Configured
  <2>3. Up(m) => /\ m.service # "stopped"
                 /\ Running(m) => m.program = m.binary /\ (os = "linux" => m.using = m.env)
    BY DEF Up
  <2> QED
    BY <2>1, <2>2, <2>3 DEF Works
<1> QED
  BY <1>1, <1>2, <1>3, PTL DEF Spec
=============================================================================
