---------------------------- MODULE MCInvocation ----------------------------
(* Checkouts, environments and arguments for TLC. *)
EXTENDS Invocation

CONSTANTS i1, i2

Nobody == [i \in Invocations |-> {}]
One(argvs) == [Nobody EXCEPT ![i1] = argvs]

Plain ==
    [argvs |-> One({<<"--tui">>}), stdin |-> TRUE, stdout |-> TRUE, keyboard |-> DOMAIN BytesOf, maxKeys |-> 8,
     directories |-> {".", "app"},
     package |-> "expo", app |-> "read", owner |-> "me", eas |-> "read", profiles |-> <<>>,
     keystores |-> {"path"}, envToken |-> "none",
     config |-> "absent", defaultToken |-> "", ownerTokens |-> [o \in {} |-> ""],
     readOnly |-> FALSE, ignoreReadOnly |-> FALSE,
     gitignore |-> [lines |-> << <<"node_modules">> >>, ended |-> FALSE]]

Wizard == [Plain EXCEPT !.envToken = "t", !.profiles = <<"dev", "preview">>, !.maxKeys = 10,
                        !.keyboard = {"path", "enter", "down"},
                        !.argvs = One({<<"--tui">>, <<"--release", "--tui", "--prod", "app">>,
                                         <<"--release", "--keystore", "", "--tui">>})]

\* Two invocations in one checkout, neither of which is given a token.
Both == [Plain EXCEPT !.maxKeys = 4, !.keyboard = {"path", "enter", "ctrlC"},
                      !.argvs = [i \in Invocations |-> IF i = i1 THEN {<<>>} ELSE {<<>>, <<"--json">>}]]

Files ==
    <<Both,
      [Both EXCEPT !.gitignore = [lines |-> <<>>, ended |-> TRUE]],
      [Both EXCEPT !.gitignore = [lines |-> << <<"node_modules">> >>, ended |-> TRUE]],
      [Both EXCEPT !.gitignore = [lines |-> <<Entry>>, ended |-> FALSE]],
      [Both EXCEPT !.ignoreReadOnly = TRUE],
      [Both EXCEPT !.readOnly = TRUE]>>

\* Nobody sits there; what is asked for is read from a pipe.
Piped == [Plain EXCEPT !.stdin = FALSE, !.stdout = FALSE, !.argvs = One(
    {<<>>, <<"--json">>, <<"--tui">>, <<"--help", "--bogus">>, <<"--bogus">>, <<"--json", "--artifact">>,
     <<"app", "app">>, <<"nowhere", "--json">>, <<"-a", "ipa">>, <<"-e", "xcode", "--json">>, <<"--release">>,
     <<"--keystore", "gone">>, <<"--release", "--keystore", "path", "-e", "gradle", "--key-alias", "k">>,
     <<"--release", "--keystore", "path", "-e", "gradle">>,
     <<"--status", "--logs", "-e", "auto", "-p", "dev">>, <<"--expo-token", "t", "--prod">>, <<"--expo-token", "">>})]

\* One end of the two is a terminal.
HalfPiped == LET half == [Plain EXCEPT !.keyboard = {"path", "enter"}, !.maxKeys = 4,
                                       !.argvs = One({<<>>, <<"--tui">>})]
             IN  <<[half EXCEPT !.stdout = FALSE], [half EXCEPT !.stdin = FALSE]>>

Elsewhere ==
    [n \in 1..11 |-> [[Piped EXCEPT !.argvs = One({<<"--json">>, <<"-e", "auto">>, <<"--tui", "--json">>})] EXCEPT
        !.package = CASE n = 1 -> "absent" [] n = 2 -> "malformed" [] n = 3 -> "other" [] n = 4 -> "overflowing" [] OTHER -> "expo",
        !.app = CASE n = 5 -> "overflowing" [] n = 6 -> "absent" [] OTHER -> "read",
        !.eas = CASE n = 7 -> "overflowing" [] n \in {6, 8} -> "absent" [] OTHER -> "read",
        !.profiles = IF n = 9 THEN <<"dev">> ELSE <<>>,
        !.config = CASE n = 10 -> "malformed" [] n \in {6, 8, 9, 11} -> "saved" [] OTHER -> "absent",
        !.defaultToken = IF n = 6 THEN "d" ELSE "",
        !.ownerTokens = IF n = 9 THEN [o \in {"me"} |-> "mine"] ELSE [o \in {} |-> ""],
        !.envToken = IF n = 11 THEN "" ELSE "none"]]

MCWorlds == <<Plain, Wizard, Piped>> \o HalfPiped \o Files \o Elsewhere
=============================================================================
