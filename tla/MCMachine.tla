----------------------------- MODULE MCMachine -----------------------------
(***************************************************************************)
(* Instances of Machine: a pre-release, its release and a later one; a     *)
(* plain token, one with every character the settings file escapes and one *)
(* it cannot hold.                                                         *)
(***************************************************************************)
EXTENDS Machine

RC == Version(<<1, 0, 0>>, <<Word(1), Num(9)>>)
One == Version(<<1, 0, 0>>, <<>>)
Two == Version(<<1, 1, 0>>, <<>>)
MCVersions == {RC, One, Two}
MCPrecedence == <<RC, One, Two>>

Plain == <<"x">>
Quoted == <<"apos", "backslash", "dollar", "quot">>
Broken == <<"x", "nl">>

Give(token, project) == [n \in Names |-> IF n = "token" THEN token ELSE project]

(* A first install; an update; one that asks for a new token; one that     *)
(* gives a token the file cannot hold.                                     *)
MCRequests ==
  {[given |-> Give(Quoted, Plain), typed |-> NoSettings, replace |-> FALSE],
   [given |-> NoSettings, typed |-> NoSettings, replace |-> FALSE],
   [given |-> NoSettings, typed |-> Give(Plain, Plain), replace |-> TRUE],
   [given |-> Give(Broken, None), typed |-> Give(None, Plain), replace |-> FALSE]}

(* Installed and running, with its settings stored as its system stores    *)
(* them; the first as Linux does.                                          *)
Installed(version, env, loose) ==
  [Fresh EXCEPT !.binary = version, !.unit = "own", !.env = env, !.dir = TRUE,
     !.conf = "starter", !.loose = loose, !.loaded = TRUE, !.enabled = TRUE,
     !.service = "running", !.program = version, !.using = env]

Quoting == [n \in Names |-> FormatValue(IF n = "token" THEN Quoted ELSE Plain)]

MCHosts ==
  {Fresh, [Fresh EXCEPT !.unit = "foreign"],
   [Fresh EXCEPT !.dir = TRUE, !.conf = "admin", !.loose = {"dir", "conf"}],
   Installed(One, Quoting, {"conf"})}

JustInstalled == {Installed(One, Quoting, {})}

Archive(v, platform, hash, holds) ==
  [version |-> v, platform |-> platform, listed |-> 1, hash |-> hash, holds |-> holds]

(* Both platforms' archives, good or not, and documents that name none or  *)
(* more than one for the host.                                             *)
Both(v, hash, holds) == {Archive(v, p, hash, holds) : p \in {"linux", "windows"}}
MCSites ==
  {Both(Two, 1, {Two}), Both(RC, 1, {RC}), Both(Two, 2, {Two}), Both(Two, 1, {One}),
   Both(One, 1, {One}), Both(Two, 1, {}), Both(One, 1, {One}) \cup Both(Two, 1, {Two}), {}}
GoodSite == {Both(Two, 1, {Two})}
MCWants == {{}, {RC}}
NoWants == {{}}

(* What is written reads back, for every short value that can be written.  *)
Characters == {"x", "space", "apos", "quot", "backslash", "dollar", "backquote"}
ASSUME RoundTrip ==
  \A n \in 0 .. 4 : \A v \in [1 .. n -> Characters] : ParseValue(FormatValue(v)) = v

(* What the theorems of MachineProofs suppose holds of this instance.      *)
MCValues == {Plain, Quoted, Broken, FormatValue(Plain), FormatValue(Quoted)}
MCTexts == {FormatValue(v) : v \in MCValues \ {Broken}}
ASSUME Hypotheses == PrecedenceIsCompare /\ ReadsBack(MCValues, MCTexts)
=============================================================================
