------------------------------ MODULE MCDaemon ------------------------------
(* Instances of Daemon for TLC: a source that collects every tick and one   *)
(* that does so every second tick and whose failures are not counted.       *)
EXTENDS Daemon

CONSTANTS fast, slow

TickAndTwo == [s \in Sources |-> IF s = fast THEN 1 ELSE 2]
CountedForOne == [s \in Sources |-> IF s = fast THEN 2 ELSE 0]
=============================================================================
