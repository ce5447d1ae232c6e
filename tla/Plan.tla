-------------------------------- MODULE Plan --------------------------------
(***************************************************************************)
(* autonet-core/src/project.rs: from what a project's files say to how     *)
(* `dev` runs it and which files it keeps, or why it will not.             *)
(*                                                                         *)
(* Words, flags and ports are strings, as they are in a script.  A token   *)
(* of a script is a word with what follows its "=", None without one.      *)
(* Ports are compared and passed on, never computed with.                  *)
(***************************************************************************)
EXTENDS Option, Filter, Naturals, SequencesExt

CONSTANTS
    Shell,      \* a script that uses the shell's syntax
    PortTexts   \* the texts that are a port number

\* The words that start with a dash.
Dashed == {"--port", "-p", "--host", "-H", "--hostname", "--lan", "--strictPort"}

ASSUME PortTextsAreTexts == PortTexts \subseteq STRING \ Dashed

Word(w) == [word |-> w, value |-> None]

\* Option::or
Or(a, b) == IF a # None THEN a ELSE b

\* The second of the first pair that holds.
FirstHolding(pairs) ==
    LET i == SelectInSeq(pairs, LAMBDA pair : pair[1])
    IN IF i = 0 THEN None ELSE pairs[i][2]

----------------------------------------------------------------------------
\* Detection.

Has(facts, dependency) ==
    facts.package # None /\ dependency \in facts.package.dependencies

\* Without a package.json only its directory tells Tauri, before the rest.
Detect(facts) ==
    FirstHolding(
      << <<facts.pubspec, "Flutter">>,
         <<Has(facts, "expo"), "Expo">>,
         <<Has(facts, "react-native"), "ReactNative">>,
         <<facts.src_tauri \/ Has(facts, "@tauri-apps/cli"), "Tauri">>,
         <<Has(facts, "electron"), "Electron">>,
         <<Has(facts, "next"), "Next">>,
         <<Has(facts, "nuxt"), "Nuxt">>,
         <<Has(facts, "astro"), "Astro">>,
         <<Has(facts, "@sveltejs/kit"), "SvelteKit">>,
         <<Has(facts, "@angular/core"), "Angular">>,
         <<Has(facts, "react-scripts"), "CreateReactApp">>,
         <<Has(facts, "vite"), "Vite">>,
         <<facts.manage_py, "Django">>,
         <<facts.gradle /\ facts.xcodeproj, "NativeMobile">>,
         <<facts.gradle, "Android">>,
         <<facts.xcodeproj, "Ios">> >>)

Env(path, prefix) == [format |-> "env", path |-> path, prefix |-> prefix]
File(format, path) == [format |-> format, path |-> path, prefix |-> None]

\* The files a kind of project reads.
DefaultOutputs(kind, facts) ==
    LET module(js, ts) ==
            IF facts.typescript THEN File("ts", ts) ELSE File("js", js)
        env(prefix) == Env(".env.development.local", prefix)
    IN CASE kind = "Vite" -> <<env("VITE_")>>
         [] kind \in {"SvelteKit", "Astro"} -> <<env("PUBLIC_")>>
         [] kind = "Next" -> <<env("NEXT_PUBLIC_")>>
         [] kind = "Nuxt" -> <<File("ts", "autonet.generated.ts")>>
         [] kind = "Angular" -> <<File("ts", "src/autonet.generated.ts")>>
         [] kind = "CreateReactApp" ->
                <<module("src/autonet.generated.js", "src/autonet.generated.ts")>>
         [] kind \in {"Expo", "ReactNative"} ->
                <<module("autonet.generated.js", "autonet.generated.ts")>>
         [] kind \in {"Electron", "Tauri"} -> <<File("json", "autonet.generated.json")>>
         [] kind = "Flutter" -> <<File("dart", "lib/autonet.g.dart")>>
         [] kind = "Android" -> <<File("properties", "autonet.properties")>>
         [] kind = "Ios" -> <<File("xcconfig", "Autonet.xcconfig")>>
         [] kind = "NativeMobile" -> <<File("properties", "autonet.properties"),
                                       File("xcconfig", "Autonet.xcconfig")>>
         [] kind = "Django" -> <<Env(".env.autonet", None)>>

----------------------------------------------------------------------------
\* Scripts.

\* A flag that is given without a value.
Bare == "bare"

\* What the flag at i is given: what follows "=", or the next word.
ValueAt(tokens, i) ==
    IF tokens[i].value # None THEN tokens[i].value
    ELSE IF i < Len(tokens) /\ tokens[i + 1].word \notin Dashed
      THEN tokens[i + 1].word
      ELSE Bare

\* The value of the first of these flags, None without one.
Flag(tokens, names) ==
    LET i == SelectInSeq(tokens, LAMBDA token : token.word \in names)
    IN IF i = 0 THEN None ELSE ValueAt(tokens, i)

\* NAME=value
IsAssignment(token) == token.value # None /\ token.word \notin Dashed

\* Where the program stands, 0 without one.
Program(script) ==
    SelectInSeq(script, LAMBDA token : ~(IsAssignment(token) \/ token = Word("cross-env")))

From(script, i) == IF i = 0 THEN None ELSE SubSeq(script, i, Len(script))

\* A script from its program on; None if there is none or more than one.
Tokenize(script) == IF script = Shell THEN None ELSE From(script, Program(script))

\* A bare `vite` is the dev server, `vite build` is not.
MatchesProgram(tokens, pattern) ==
    /\ Len(tokens) >= Len(pattern)
    /\ \A i \in 1..Len(pattern) : tokens[i] = Word(pattern[i])
    /\ Len(pattern) = 1 /\ Len(tokens) > 1 => tokens[2].word \in Dashed

Runs(tokens, programs) == tokens # None /\ \E p \in programs : MatchesProgram(tokens, p)

\* The first of the usual scripts that plainly runs one of these programs.
FindScript(package, programs) ==
    FirstHolding([i \in 1..3 |->
        LET name == <<"dev", "start", "serve">>[i]
        IN << /\ name \in DOMAIN package.scripts
              /\ Runs(Tokenize(package.scripts[name]), programs), name >>])

----------------------------------------------------------------------------
\* How the frameworks are told where to listen.

RecipeOf(programs, default_port, port_flags, host_flags) ==
    [programs |-> programs, default_port |-> default_port,
     port_flags |-> port_flags, host_flags |-> host_flags]

Vite == RecipeOf({<<"vite", "dev">>, <<"vite", "serve">>, <<"vite">>}, "5173",
                 {"--port"}, {"--host"})

Recipe ==
    [Vite      |-> Vite,
     SvelteKit |-> Vite,
     Astro     |-> RecipeOf({<<"astro", "dev">>}, "4321", {"--port"}, {"--host"}),
     Nuxt      |-> RecipeOf({<<"nuxt", "dev">>, <<"nuxi", "dev">>}, "3000",
                            {"--port"}, {"--host"}),
     Next      |-> RecipeOf({<<"next", "dev">>}, "3000",
                            {"-p", "--port"}, {"-H", "--hostname"}),
     Angular   |-> RecipeOf({<<"ng", "serve">>}, "4200", {"--port"}, {"--host"}),
     CreateReactApp |-> RecipeOf({<<"react-scripts", "start">>}, "3000", {}, {}),
     Expo      |-> RecipeOf({<<"expo", "start">>}, "8081", {"--port"}, {"--lan", "--host"}),
     ReactNative |-> RecipeOf({<<"react-native", "start">>}, "8081", {"--port"}, {"--host"})]

\* The flags of a framework; without a port, one the script gives itself.
Flags(kind, bind, port) ==
    LET at(flag) == IF port = None THEN <<>> ELSE <<flag, port>>
    IN CASE kind \in {"Vite", "SvelteKit"} ->
                <<"--host", bind>> \o at("--port") \o <<"--strictPort">>
         [] kind = "Next" -> <<"-H", bind>> \o at("-p")
         [] kind = "CreateReactApp" -> <<>>
         [] kind = "Expo" -> <<"--lan">> \o at("--port")
         [] OTHER -> <<"--host", bind>> \o at("--port")

\* A list of flags without these and their values.
StripFlag(flags, names) ==
    LET gone(i) == \/ flags[i] \in names
                   \/ i > 1 /\ flags[i - 1] \in names /\ flags[i] \notin Dashed
    IN Picked(flags, {i \in 1..Len(flags) : ~gone(i)})

\* A host that stands for every interface.
IsWildcard(host) == host \in {Bare, "0.0.0.0", "::", "[::]", "true", "lan"}

\* What the framework finds in its environment.
EnvFor(kind) ==
    CASE kind = "CreateReactApp" -> [HOST |-> "Bind", PORT |-> "Port"]
      [] kind \in {"Expo", "ReactNative"} -> [REACT_NATIVE_PACKAGER_HOSTNAME |-> "Ip"]
      [] kind = "Tauri" -> [TAURI_DEV_HOST |-> "Ip"]
      [] OTHER -> [x \in {} |-> x]

\* npm alone needs the separator.
RunScript(manager, script, flags) ==
    <<manager, "run", script>>
        \o (IF manager = "npm" /\ flags # <<>> THEN <<"--">> ELSE <<>>) \o flags

----------------------------------------------------------------------------
\* The plan.

Refused(reason) == [refused |-> reason]
IsRefused(result) == "refused" \in DOMAIN result

Launching(command, port, binds) == [command |-> command, port |-> port, binds |-> binds]

\* A mistake: the flags the script gives itself given again.
AgreedTwice(kind, manager, name, fixed, host, wanted, bind) ==
    LET port == Or(wanted, Recipe[kind].default_port)
    IN Launching(RunScript(manager, name, Flags(kind, bind, port)), port, TRUE)

\* What becomes of a script that fixes this port and host, or neither: refused
\* unless it agrees with what is wanted, and given the flags it has not.
Agreed(kind, manager, name, fixed, host, wanted, bind) ==
    LET port  == Or(wanted, Or(fixed, Recipe[kind].default_port))
        flags == Flags(kind, bind, IF fixed = None THEN port ELSE None)
    IN IF fixed # None /\ wanted # None /\ fixed # wanted THEN Refused("port")
       ELSE IF host # None /\ ~IsWildcard(host) THEN Refused("host")
       ELSE Launching(RunScript(manager, name,
                              IF host = None THEN flags
                              ELSE StripFlag(flags, Recipe[kind].host_flags)),
                    port, TRUE)

NumberIn(text) == IF text \in PortTexts THEN text ELSE None

WithTokens(kind, manager, name, tokens, wanted, bind) ==
    Agreed(kind, manager, name, NumberIn(Flag(tokens, Recipe[kind].port_flags)),
           Flag(tokens, Recipe[kind].host_flags), wanted, bind)

WithScript(kind, facts, name, wanted, bind) ==
    IF name = None THEN Refused("script")
    ELSE WithTokens(kind, facts.manager, name, Tokenize(facts.package.scripts[name]),
                    wanted, bind)

\* Through a script of package.json, if one is plainly the framework's.
ScriptedCommand(kind, facts, wanted, bind) ==
    IF facts.package = None THEN Refused("package")
    ELSE WithScript(kind, facts, FindScript(facts.package, Recipe[kind].programs),
                    wanted, bind)

\* A kind without flags; there may be nothing to launch.
UnflaggedCommand(kind, facts, wanted, bind) ==
    LET scripts == IF facts.package = None THEN {} ELSE DOMAIN facts.package.scripts
        name == IF "dev" \in scripts THEN "dev" ELSE "start"
        run(command) == Launching(command, wanted, FALSE)
    IN CASE kind = "Flutter" -> run(<<"flutter", "run">>)
         [] kind \in {"Android", "Ios", "NativeMobile"} -> run(None)
         [] kind = "Electron" ->
                IF name \in scripts THEN run(RunScript(facts.manager, name, <<>>))
                ELSE Refused("script")
         [] kind = "Tauri" ->
                run(IF "tauri" \in scripts
                      THEN RunScript(facts.manager, "tauri", <<"dev">>)
                      ELSE <<"cargo", "tauri", "dev">>)
         [] kind = "Django" ->
                IF facts.python = None THEN Refused("python")
                ELSE Launching(<<facts.python, "manage.py", "runserver",
                               <<bind, Or(wanted, "8000")>> >>, Or(wanted, "8000"), TRUE)

NoManifest == [command |-> None, port |-> None, background |-> <<>>, output |-> <<>>]

\* A path that leaves the project.
Outside == "../outside"

\* What autonet.toml must satisfy to be read at all.
ValidManifest(manifest) ==
    /\ manifest.command # <<>>
    /\ \A i \in 1..Len(manifest.background) : manifest.background[i] # <<>>
    /\ manifest.port # "0"
    /\ \A i \in 1..Len(manifest.output) :
          LET output == manifest.output[i]
          IN output.path # Outside /\ (output.prefix # None => output.format = "env")

\* What is run, and where it listens; a declared command is taken literally.
Command(kind, facts, declared, wanted, bind) ==
    IF declared.command # None THEN Launching(declared.command, wanted, FALSE)
    ELSE IF kind = None
      THEN IF declared.output = <<>> THEN Refused("kind") ELSE Launching(None, wanted, FALSE)
    ELSE IF kind \in DOMAIN Recipe THEN ScriptedCommand(kind, facts, wanted, bind)
    ELSE UnflaggedCommand(kind, facts, wanted, bind)

\* The address files: those declared, or else those the kind reads.
OutputsOf(kind, facts, declared) ==
    IF declared.output # <<>> THEN declared.output
    ELSE IF kind = None THEN <<Env(".env.autonet", None)>>
    ELSE DefaultOutputs(kind, facts)

PlanOf(kind, facts, declared, running) ==
    IF IsRefused(running) THEN running
    ELSE [kind |-> kind, command |-> running.command, port |-> running.port,
          binds_wildcard |-> running.binds, background |-> declared.background,
          env |-> EnvFor(kind), outputs |-> OutputsOf(kind, facts, declared)]

\* What `dev` would do, or why nothing can be made of the project.
MakePlan(facts, declared, requested, bind) ==
    PlanOf(Detect(facts), facts, declared,
           Command(Detect(facts), facts, declared, Or(requested, declared.port), bind))

============================================================================
