------------------------------- MODULE EnvFile -------------------------------
(***************************************************************************)
(* One line of the settings file of the Linux service                      *)
(* (src/internal/systemd/envfile.go): a value as install writes it and as  *)
(* install, the upgrade and systemd read it.  A value is a sequence of      *)
(* characters; only those with a meaning are told apart.                   *)
(***************************************************************************)
EXTENDS Integers, Sequences
LOCAL INSTANCE SequencesExt

(* Characters by their names; any other is itself.                        *)
Blank == {"space", "tab"}
LineBreak == {"nl", "cr", "nul"}
Escaped == {"backslash", "quot", "dollar", "backquote"}

Unreadable == <<"unreadable">>   \* FormatEnv and ParseEnv return an error

(* Single quotes, or double quotes with \ " $ ` escaped when the value has *)
(* a single quote; a value with a line break is refused.                   *)
FormatValue(v) ==
  IF \E i \in DOMAIN v : v[i] \in LineBreak THEN Unreadable
  ELSE IF \E i \in DOMAIN v : v[i] = "apos"
    THEN <<"quot">> \o FlattenSeq([i \in DOMAIN v |->
            IF v[i] \in Escaped THEN <<"backslash", v[i]>> ELSE <<v[i]>>]) \o <<"quot">>
    ELSE <<"apos">> \o v \o <<"apos">>

(* The parser's state: what it has put out, how much of it trailing blanks *)
(* must not cut, and where it is.  A quote opens a part only at "start".   *)
Closed(p) == [p EXCEPT !.in = "start", !.keep = Len(p.out)]
Take(p, c, in) == [p EXCEPT !.out = Append(@, c), !.in = in]
Kept(p) == [p EXCEPT !.keep = Len(p.out)]

ReadChar(p, c) ==
  CASE p.in = "single" -> IF c = "apos" THEN Closed(p) ELSE Take(p, c, "single")
    [] p.in = "double" -> (CASE c = "quot" -> Closed(p)
                             [] c = "backslash" -> [p EXCEPT !.in = "escape"]
                             [] OTHER -> Take(p, c, "double"))
    [] p.in = "escape" -> IF c \in Escaped THEN Take(p, c, "double")
                          ELSE Take(Take(p, "backslash", "double"), c, "double")
    [] p.in = "literal" -> Kept(Take(p, c, "plain"))
    [] p.in = "start" /\ c \in Blank -> p
    [] p.in = "start" /\ c = "apos" -> [p EXCEPT !.in = "single"]
    [] p.in = "start" /\ c = "quot" -> [p EXCEPT !.in = "double"]
    [] OTHER -> (CASE c = "backslash" -> [p EXCEPT !.in = "literal"]
                   [] c \in Blank -> Take(p, c, "plain")
                   [] OTHER -> Kept(Take(p, c, "plain")))

ParseValue(text) ==
  LET end == FoldLeft(ReadChar, [out |-> <<>>, keep |-> 0, in |-> "start"], text)
  IN IF end.in \in {"start", "plain"} THEN SubSeq(end.out, 1, end.keep) ELSE Unreadable
=============================================================================
