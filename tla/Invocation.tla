----------------------------- MODULE Invocation -----------------------------
(***************************************************************************)
(* What `ebl build` does before it talks to Docker (commands/build.cpp,    *)
(* detect.cpp, tui_menu.cpp): its arguments, the project, the wizard of    *)
(* --tui, the validation, the Expo token and the project's token file.     *)
(* Several invocations work on one checkout, each on its own terminal.     *)
(*                                                                         *)
(* A word that is typed or given as an argument is a model value; the      *)
(* passwords, the image, the cache volumes and the socket are read and     *)
(* passed on: which of them were given is not kept.                        *)
(***************************************************************************)
EXTENDS Terminal, SequencesExt

CONSTANTS
    Worlds,    \* a sequence of checkouts and environments, and of the arguments that
               \* each invocation may be given there; stdin and stdout say which
               \* of the two are terminals, keyboard has the keys that are used,
               \* maxKeys bounds how many are pressed
    Unknown    \* arguments that begin with - and mean nothing

\* "none" is no profile: it stands for the option that was not given.
ASSUME WorldsAssumption == \A w \in DOMAIN Worlds :
    /\ Worlds[w].keyboard \subseteq DOMAIN BytesOf
    /\ Worlds[w].profiles \in Seq(STRING) /\ "none" \notin Range(Worlds[w].profiles)
    /\ Worlds[w].gitignore \in [lines : Seq(Seq(STRING)), ended : BOOLEAN]
    /\ \A i \in Invocations : Worlds[w].argvs[i] \subseteq Seq(STRING)

VARIABLES
    place,      \* which of the Worlds it is
    tokenFile,  \* .ebl-token
    gitignore,  \* its lines, and whether the last one is ended
    main,       \* where runBuild is
    opts,       \* Options
    selected,   \* of the menu that is shown
    token,      \* params.expoToken
    append,     \* what ensureGitignored is going to append
    exit,       \* of the process; "signal" is a death by SIGINT, "134" std::terminate
    answered    \* invocations that printed their JSON object

files == <<tokenFile, gitignore>>
own   == <<place, opts, selected, token, append>>
vars  == <<terminalVars, files, main, own, exit, answered>>

world == Worlds[place]

-----------------------------------------------------------------------------
(* parseArgs.                                                              *)

Defaults ==
    [path |-> ".", prod |-> FALSE, artifact |-> "none", profile |-> "none", engine |-> "eas",
     release |-> FALSE, keystore |-> "none", keyAlias |-> "none", expoToken |-> "none",
     other |-> "none", json |-> FALSE, logs |-> FALSE, tui |-> FALSE]

WithValue ==
    [artifact |-> {"-a", "--artifact"}, profile |-> {"-p", "--profile"}, engine |-> {"-e", "--engine"},
     keystore |-> {"--keystore"}, keyAlias |-> {"--key-alias"}, expoToken |-> {"--expo-token"},
     other |-> {"--store-password", "--key-password", "--runner-image",
                "--gradle-cache-volume", "--npm-cache-volume", "--docker-socket"}]

Switches == [prod |-> "--prod", release |-> "--release", json |-> "--json", logs |-> "--logs", tui |-> "--tui"]

ParseArg(arg, s) ==
    CASE s.end # "none" -> s
      [] s.end = "none" /\ s.wants # "none" -> [s EXCEPT !.opts[s.wants] = arg, !.wants = "none"]
      [] OTHER ->
           CASE arg \in {"-h", "--help"} -> [s EXCEPT !.end = "help"]
             [] \E o \in DOMAIN WithValue : arg \in WithValue[o] ->
                  [s EXCEPT !.wants = CHOOSE o \in DOMAIN WithValue : arg \in WithValue[o]]
             [] \E o \in DOMAIN Switches : arg = Switches[o] ->
                  [s EXCEPT !.opts[CHOOSE o \in DOMAIN Switches : arg = Switches[o]] = TRUE]
             [] arg = "--status" -> s
             [] arg \in Unknown -> [s EXCEPT !.end = "usage"]
             [] OTHER -> IF s.positional THEN [s EXCEPT !.end = "usage"]
                                         ELSE [s EXCEPT !.opts.path = arg, !.positional = TRUE]

NothingParsed == [opts |-> Defaults, end |-> "none", wants |-> "none", positional |-> FALSE]

ParsedUpTo(argv) ==
    LET parsed[n \in 0..Len(argv)] == IF n = 0 THEN NothingParsed ELSE ParseArg(argv[n], parsed[n - 1])
    IN  parsed

\* A flag without its value is a usage error.
ParseArgs(argv) ==
    LET s == ParsedUpTo(argv)[Len(argv)] IN
    IF s.end = "none" /\ s.wants # "none" THEN [s EXCEPT !.end = "usage"] ELSE s

-----------------------------------------------------------------------------
(* detectExpoProject: what package.json, app.json and eas.json say.        *)
(* "malformed" is what Json::parse refuses with a JsonError, "overflowing" *)
(* a number that makes it throw something else, which nobody catches.      *)

Read(file, fallback, content) == IF file = "read" THEN content ELSE fallback

Detect ==
    [isExpo   |-> world.package = "expo",
     owner    |-> Read(world.app, "none", world.owner),
     profiles |-> Read(world.eas, <<>>, world.profiles),
     throws   |-> \/ world.package = "overflowing"
                  \/ world.package = "expo" /\ "overflowing" \in {world.app, world.eas}]

-----------------------------------------------------------------------------
(* Where runBuild goes.                                                    *)

Menus   == {"artifact", "profile", "engine", "signing"}
Hidden  == {"store password", "key password", "token"}
Prompts == Hidden \cup {"profile name", "keystore path", "key alias", "confirm", "save"}

Runs(i) == exit[i] = "none" /\ main[i] \notin {"idle", "started"}

Goes(i, to) == main' = [main EXCEPT ![i] = to]

\* The process ends; main keeps the place.
Exits(i, code) ==
    /\ exit' = [exit EXCEPT ![i] = code]
    /\ UNCHANGED <<main, answered>>

\* fail(): one JSON object on stdout, or a line on stderr.
Fails(i, o) ==
    /\ exit' = [exit EXCEPT ![i] = "2"]
    /\ answered' = IF o.json THEN answered \cup {i} ELSE answered
    /\ UNCHANGED main

\* promptHidden turns the echo off.
Asks(i, question) ==
    /\ Goes(i, question)
    /\ mode' = IF question \in Hidden /\ world.stdin THEN [mode EXCEPT ![i] = "hidden"]
                                                   ELSE [mode EXCEPT ![i] = "cooked"]

-----------------------------------------------------------------------------
(* runBuildWizard.                                                         *)

ArtifactOf(o)     == IF o.artifact # "none" THEN o.artifact ELSE IF o.prod THEN "aab" ELSE "apk"
DefaultProfile(o) == IF o.profile # "none" THEN o.profile ELSE IF o.prod THEN "production" ELSE "preview"

Options(menu) ==
    CASE menu = "artifact" -> <<"apk", "aab">>
      [] menu = "profile"  -> Detect.profiles
      [] menu = "engine"   -> <<"auto", "gradle", "eas">>
      [] menu = "signing"  -> <<FALSE, TRUE>>

Preferred(menu, o) ==
    CASE menu = "artifact" -> ArtifactOf(o)
      [] menu = "profile"  -> DefaultProfile(o)
      [] menu = "engine"   -> o.engine
      [] menu = "signing"  -> o.release

DefaultChoice(menu, o) ==
    LET at == {n \in DOMAIN Options(menu) : Options(menu)[n] = Preferred(menu, o)} IN
    IF at = {} THEN 1 ELSE Max(at)

Choose(menu, o, n) ==
    LET value == Options(menu)[n] IN
    CASE menu = "artifact" -> [o EXCEPT !.artifact = value]
      [] menu = "profile"  -> [o EXCEPT !.profile = value]
      [] menu = "engine"   -> [o EXCEPT !.engine = value]
      [] menu = "signing"  -> [o EXCEPT !.release = value]

\* The next question, with what has been chosen so far.
NextQuestion(last, o) ==
    CASE last = "begin"    -> "artifact"
      [] last = "artifact" -> IF Detect.profiles = <<>> THEN "profile name" ELSE "profile"
      [] last \in {"profile", "profile name"} -> "engine"
      [] last = "engine"   -> "signing"
      [] last = "signing"  -> IF o.release THEN "keystore path" ELSE "confirm"
      [] last = "keystore path"  -> "store password"
      [] last = "store password" -> "key alias"
      [] last = "key alias"      -> "key password"
      [] last = "key password"   -> "confirm"

Proceeds(i, from, o) ==
    LET next == NextQuestion(from, o) IN
    /\ opts' = [opts EXCEPT ![i] = o]
    /\ Goes(i, next)
    /\ selected' = [selected EXCEPT ![i] = IF next \in Menus THEN DefaultChoice(next, o) ELSE 1]
    /\ UNCHANGED <<exit, answered>>

-----------------------------------------------------------------------------
(* selectFromMenu: one round of its loop.                                  *)

MenuWaits(i) ==
    /\ main[i] \in Menus
    /\ EnterRaw(i)
    /\ UNCHANGED <<files, main, own, exit, answered>>

MenuReads(i) ==
    /\ main[i] \in Menus
    /\ ReadMore(i)
    /\ UNCHANGED <<files, main, own, exit, answered>>

Moves(i, to) ==
    /\ selected' = [selected EXCEPT ![i] = to]
    /\ UNCHANGED <<main, opts, exit, answered>>

Key(i, key) ==
    LET n == Len(Options(main[i])) IN
    \/ key = "up"    /\ Moves(i, IF selected[i] = 1 THEN n ELSE selected[i] - 1)
    \/ key = "down"  /\ Moves(i, (selected[i] % n) + 1)
    \/ key = "other" /\ Moves(i, selected[i])
    \/ key = "enter" /\ Proceeds(i, main[i], Choose(main[i], opts[i], selected[i]))
    \/ key = "escape" /\ Exits(i, "130") /\ UNCHANGED <<opts, selected>>

MenuKey(i) ==
    /\ main[i] \in Menus
    /\ \E key \in {"up", "down", "other", "enter", "escape"} : ReadKey(i, key) /\ Key(i, key)
    /\ UNCHANGED <<place, files, token, append>>

-----------------------------------------------------------------------------
(* The prompts.                                                            *)

FillsStdin(i) ==
    /\ main[i] \in Prompts
    /\ FillStdin(i)
    /\ UNCHANGED <<files, main, own, exit, answered>>

\* What the next line may be.  A pipe gives any line, and an empty one at its end.
Lines(i) == IF world.stdin THEN {SubSeq(stdio[i], 1, n) : n \in 0..Len(stdio[i])}
                           ELSE {<<>>} \cup {<<word>> : word \in Words}

Line(i, line) ==
    IF world.stdin THEN GetLine(i, line)
                   ELSE UNCHANGED <<typedVars, together, stdio, reading, split>>

Text(line, default) == CASE line = <<>> -> default [] Len(line) = 1 -> line[1] [] OTHER -> "junk"
Yes(line) == Head(Append(line, "y")) = "y"

\* The questions that the wizard asks in words; nothing is built unless the
\* last one is answered with yes.
WizardPrompt(i, line) ==
    LET keystore == Text(line, opts[i].keystore)
        keyAlias == Text(line, opts[i].keyAlias) IN
    \/ /\ main[i] = "profile name"
       /\ Proceeds(i, main[i], [opts[i] EXCEPT !.profile = Text(line, DefaultProfile(opts[i]))])
    \/ /\ main[i] = "keystore path" /\ keystore \notin {"none", ""}
       /\ Proceeds(i, main[i], [opts[i] EXCEPT !.keystore = keystore])
    \/ /\ main[i] = "key alias"
       /\ Proceeds(i, main[i], [opts[i] EXCEPT !.keyAlias = keyAlias])
    \/ /\ main[i] \in {"store password", "key password"}
       /\ Proceeds(i, main[i], opts[i])
    \/ /\ main[i] = "confirm" /\ Yes(line)
       /\ Goes(i, "validate")
       /\ UNCHANGED <<opts, selected, exit, answered>>
    \/ /\ \/ main[i] = "confirm" /\ ~Yes(line)
          \/ main[i] = "keystore path" /\ keystore \in {"none", ""}
       /\ Exits(i, "130")
       /\ UNCHANGED <<opts, selected>>

AnswerWizard(i) ==
    /\ \E line \in Lines(i) : Line(i, line) /\ WizardPrompt(i, line)
    /\ mode' = [mode EXCEPT ![i] = IF main'[i] \in Hidden THEN "hidden" ELSE "cooked"]
    /\ UNCHANGED <<place, files, token, append>>

-----------------------------------------------------------------------------
(* runBuild.                                                               *)

\* --tui excludes --json and needs a terminal on both ends; the path must be a directory.
Refused(o) ==
    \/ o.tui /\ o.json
    \/ o.tui /\ ~(world.stdout /\ world.stdin)
    \/ o.path \notin world.directories

Remembers(i, o) ==
    /\ opts' = [opts EXCEPT ![i] = o]
    /\ UNCHANGED selected

\* From the arguments to the wizard, or past it.
Invoke(i, argv) ==
    LET s == ParseArgs(argv)
        o == s.opts IN
    /\ exit[i] = "none" /\ main[i] = "idle"
    /\ \/ /\ s.end # "none"
          /\ Exits(i, IF s.end = "help" THEN "0" ELSE "2")
          /\ UNCHANGED <<opts, selected>>
       \/ /\ s.end = "none" /\ (Refused(o) \/ ~(Detect.throws \/ Detect.isExpo))
          /\ Remembers(i, o) /\ Fails(i, o)
       \/ /\ s.end = "none" /\ ~Refused(o) /\ Detect.throws
          /\ Remembers(i, o) /\ Exits(i, "134")
       \/ /\ s.end = "none" /\ ~Refused(o) /\ Detect.isExpo /\ ~Detect.throws /\ o.tui
          /\ Proceeds(i, "begin", o)
       \/ /\ s.end = "none" /\ ~Refused(o) /\ Detect.isExpo /\ ~Detect.throws /\ ~o.tui
          /\ Remembers(i, o)
          /\ Goes(i, "validate")
          /\ UNCHANGED <<exit, answered>>
    /\ UNCHANGED <<terminalVars, place, files, token, append>>

\* Mutant: the keystore is looked for in the container only.
InvalidWithoutLooking(o) ==
    \/ ArtifactOf(o) \notin {"apk", "aab"}
    \/ o.engine \notin {"auto", "gradle", "eas"}
    \/ o.release /\ o.keystore = "none"

\* What the flags and the wizard have left is refused.
Invalid(o) ==
    \/ ArtifactOf(o) \notin {"apk", "aab"}
    \/ o.engine \notin {"auto", "gradle", "eas"}
    \/ o.release /\ o.keystore = "none"
    \/ o.keystore # "none" /\ o.keystore \notin world.keystores

Profile(o) ==
    IF o.profile # "none" \/ o.prod \/ Detect.profiles = <<>> \/ "preview" \in Range(Detect.profiles)
      THEN DefaultProfile(o) ELSE Detect.profiles[1]

\* expoTokenFor; "" is no token.
SavedToken ==
    IF Detect.owner \in DOMAIN world.ownerTokens THEN world.ownerTokens[Detect.owner] ELSE world.defaultToken

FindToken(o) ==
    CASE o.expoToken # "none" -> o.expoToken
      [] o.expoToken = "none" /\ world.envToken # "none" -> world.envToken
      [] OTHER -> IF tokenFile \notin {"absent", ""} THEN tokenFile
                  ELSE IF world.config = "absent" THEN "" ELSE SavedToken

NeedsToken(o) == o.engine = "eas" \/ (o.engine = "auto" /\ world.eas # "absent")

\* Mutant: there is a terminal, so somebody can be asked.
MayAskOnTerminal(o) == ~o.json \/ world.stdin

\* --json never prompts.
MayAsk(o) == ~o.json

\* Nothing is asked any more: BuildParams goes on to Docker, with ArtifactOf and
\* Profile of the options.
Starts(i) ==
    /\ Goes(i, "started")
    /\ UNCHANGED <<opts, exit, answered>>

\* loadConfig throws and nobody catches it.
Validate(i) ==
    LET o == opts[i]
        found == FindToken(o) IN
    /\ Runs(i) /\ main[i] = "validate"
    /\ token' = [token EXCEPT ![i] = found]
    /\ \/ /\ Invalid(o)
          /\ Fails(i, o) /\ UNCHANGED <<opts, mode>>
       \/ /\ ~Invalid(o) /\ world.config = "malformed"
          /\ Exits(i, "134") /\ UNCHANGED <<opts, mode>>
       \/ /\ ~Invalid(o) /\ world.config # "malformed" /\ (found # "" \/ ~NeedsToken(o))
          /\ Starts(i) /\ UNCHANGED mode
       \/ /\ ~Invalid(o) /\ world.config # "malformed" /\ found = "" /\ NeedsToken(o) /\ ~MayAsk(o)
          /\ Fails(i, o) /\ UNCHANGED <<opts, mode>>
       \/ /\ ~Invalid(o) /\ world.config # "malformed" /\ found = "" /\ NeedsToken(o) /\ MayAsk(o)
          /\ Asks(i, "token") /\ UNCHANGED <<opts, exit, answered>>
    /\ UNCHANGED <<typedVars, together, stdio, reading, split, place, files, selected, append>>

-----------------------------------------------------------------------------
(* The token: asked, and saved in the project.                             *)

AnswerToken(i, line) ==
    /\ main[i] = "token"
    /\ token' = [token EXCEPT ![i] = Text(line, "")]
    /\ IF line = <<>> THEN Exits(i, "2") ELSE Goes(i, "save") /\ UNCHANGED <<exit, answered>>
    /\ UNCHANGED opts

AnswerSave(i, line) ==
    /\ main[i] = "save"
    /\ IF Yes(line) THEN Goes(i, "opening") /\ UNCHANGED <<opts, exit, answered>> ELSE Starts(i)
    /\ UNCHANGED token

AnswerAboutToken(i) ==
    /\ \E line \in Lines(i) : Line(i, line) /\ (AnswerToken(i, line) \/ AnswerSave(i, line))
    /\ mode' = [mode EXCEPT ![i] = "cooked"]
    /\ UNCHANGED <<place, files, selected, append>>

Saving == {"opening", "writing", "ignoring", "appending"}

Saves(i, from, to) ==
    /\ Runs(i) /\ main[i] = from
    /\ IF to = "started" THEN Starts(i) ELSE Goes(i, to) /\ UNCHANGED <<opts, exit, answered>>
    /\ UNCHANGED <<terminalVars, place, selected, token>>

\* saveProjectTokenFile: the file is emptied when it is opened and written when
\* it is closed.
OpenTokenFile(i) ==
    \/ /\ Saves(i, "opening", "writing")
       /\ ~world.readOnly
       /\ tokenFile' = ""
       /\ UNCHANGED <<gitignore, append>>
    \/ /\ Saves(i, "opening", "started")
       /\ world.readOnly
       /\ UNCHANGED <<files, append>>

WriteTokenFile(i) ==
    /\ Saves(i, "writing", "ignoring")
    /\ tokenFile' = token[i]
    /\ UNCHANGED <<gitignore, append>>

\* ensureGitignored reads, and decides.
Entry == <<".ebl-token">>

\* Mutant: the file is taken to end with a newline.
NeverNeedsNewline == FALSE

NeedsNewline == gitignore.lines # <<>> /\ ~gitignore.ended

ReadGitignore(i) ==
    \/ /\ Saves(i, "ignoring", "started")
       /\ Entry \in Range(gitignore.lines)
       /\ UNCHANGED <<files, append>>
    \/ /\ Saves(i, "ignoring", "appending")
       /\ Entry \notin Range(gitignore.lines)
       /\ append' = [append EXCEPT ![i] = IF NeedsNewline THEN "newline and entry" ELSE "entry"]
       /\ UNCHANGED files

Appended(file, text) ==
    LET lines == IF text = "newline and entry" /\ file.ended THEN Append(file.lines, <<>>) ELSE file.lines
        fresh == file.ended \/ text = "newline and entry" \/ lines = <<>> IN
    [lines |-> IF fresh THEN Append(lines, Entry) ELSE Append(Front(lines), Last(lines) \o Entry),
     ended |-> TRUE]

\* An ofstream that could not be opened swallows what it is given.
AppendGitignore(i) ==
    /\ Saves(i, "appending", "started")
    /\ gitignore' = IF world.ignoreReadOnly THEN gitignore ELSE Appended(gitignore, append[i])
    /\ UNCHANGED <<tokenFile, append>>

-----------------------------------------------------------------------------
Init ==
    /\ TerminalInit
    /\ place \in DOMAIN Worlds
    /\ tokenFile = "absent"
    /\ gitignore = world.gitignore
    /\ main = [i \in Invocations |-> "idle"]
    /\ opts = [i \in Invocations |-> Defaults]
    /\ selected = [i \in Invocations |-> 1]
    /\ token = [i \in Invocations |-> ""]
    /\ append = [i \in Invocations |-> "nothing"]
    /\ exit = [i \in Invocations |-> "none"]
    /\ answered = {}

\* What the program does by itself.
Step(i) ==
    \/ Runs(i) /\ (MenuWaits(i) \/ MenuReads(i) \/ MenuKey(i))
    \/ Runs(i) /\ (FillsStdin(i) \/ AnswerWizard(i) \/ AnswerAboutToken(i))
    \/ Validate(i)
    \/ OpenTokenFile(i) \/ WriteTokenFile(i) \/ ReadGitignore(i) \/ AppendGitignore(i)

\* Keys may be pressed long before they are asked for.
Type(i) ==
    /\ Runs(i) /\ world.stdin
    /\ \/ keys[i] < world.maxKeys /\ \E key \in world.keyboard : Press(i, key)
       \/ ByteArrives(i)
    /\ UNCHANGED <<files, main, own, exit, answered>>

\* No handler is installed yet.
Interrupt(i) ==
    /\ Runs(i)
    /\ InterruptArrives(i)
    /\ Exits(i, "signal")
    /\ UNCHANGED <<files, own>>

Next ==
    \/ \E i \in Invocations : \E argv \in world.argvs[i] : Invoke(i, argv)
    \/ \E i \in Invocations : Step(i) \/ Type(i) \/ Interrupt(i)

Spec == Init /\ [][Next]_vars

-----------------------------------------------------------------------------
(* Properties.                                                             *)

\* What goes on to Docker, whatever mixture of flags, menus and typed answers it
\* came from: a known artifact and engine; a profile that the project declares, if
\* it declares any, chosen in the wizard or where neither --profile nor --prod is
\* given (build.cpp:547-558); a keystore that exists for a release; and a token for
\* an engine that needs one.  The alias and the passwords are not checked: see
\* ReleaseHasAlias.
StartsWellFormed ==
    \A i \in Invocations : main[i] = "started" =>
        LET o == opts[i] IN
        /\ ArtifactOf(o) \in {"apk", "aab"}
        /\ o.engine \in {"auto", "gradle", "eas"}
        /\ o.release => o.keystore \in world.keystores
        /\ NeedsToken(o) => token[i] # ""
        /\ (o.tui \/ (o.profile = "none" /\ ~o.prod)) /\ Detect.profiles # <<>> =>
              Profile(o) \in Range(Detect.profiles)

\* A token that was saved in the project is ignored by git, whoever saved it and
\* whatever .gitignore looked like, unless its saver is not done yet, or was
\* killed before it was, or .gitignore could not be written; and the lines that
\* .gitignore had are still its lines.
TokenFileIsIgnored ==
    /\ tokenFile # "absent" =>
          \/ Entry \in Range(gitignore.lines)
          \/ world.ignoreReadOnly
          \/ \E i \in Invocations : main[i] \in Saving
    /\ Range(world.gitignore.lines) \subseteq Range(gitignore.lines)

\* A menu is cancelled only on a terminal on which Escape was pressed or the
\* bytes of a key came too slowly: no arrow and no other key is taken for Escape.
CancelledByEscape ==
    \A i \in Invocations :
        (exit[i] = "130" /\ main[i] \in Menus) => i \in escaped \cup split

\* --json never asks, whatever was not found and whoever sits there, and an
\* invocation that gives up before Docker says so in one JSON object on stdout.
JsonIsAnswered ==
    \A i \in Invocations : opts[i].json =>
        /\ main[i] \notin Menus \cup Prompts
        /\ exit[i] = "2" => i \in answered

\* Not so: readByte (tui_input.cpp:77-85) reads the descriptor because a getchar()
\* may take every byte there is into stdio's buffer, where readKey does not look.
\* While readKey waits for a key, stdin's buffer is empty.
NothingHeldBack ==
    \A i \in Invocations : reading[i] # "no" => stdio[i] = <<>>

\* Not so either: build.cpp:123 "Key alias (required with --release)".  Only the
\* keystore is looked for (:540-545): without an alias, a release goes on to Docker.
ReleaseHasAlias ==
    \A i \in Invocations : main[i] = "started" /\ opts[i].release =>
        opts[i].keyAlias \notin {"none", ""}

=============================================================================
