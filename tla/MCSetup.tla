------------------------------ MODULE MCSetup -------------------------------
(***************************************************************************)
(* Small projects for `autonet init`: every framework with the scripts its *)
(* developers write, and three of them set up again and again, in          *)
(* repositories in every state.                                            *)
(***************************************************************************)
EXTENDS Setup, FiniteSets

Texts == {"0", "3000", "3100", "4000", "4200", "4321", "5173", "8000", "8081", "half"}

\* A project without files.
Nothing ==
    [package |-> None, manager |-> "npm", typescript |-> FALSE, pubspec |-> FALSE,
     src_tauri |-> FALSE, manage_py |-> FALSE, gradle |-> FALSE, xcodeproj |-> FALSE,
     python |-> None]

Package(dependency, scripts) ==
    [Nothing EXCEPT !.package = [dependencies |-> {dependency}, scripts |-> scripts]]

----------------------------------------------------------------------------
\* Scripts: what comes before the program, the program, and its arguments.

With(word, value) == [word |-> word, value |-> value]

Environments     == {<<>>, <<Word("cross-env"), With("NODE_ENV", "development")>>}
PortEnvironments == {<<With("PORT", "4000")>>}

\* The ways to give a flag a value, or none.
Giving(flag, given) ==
    {<<>>} \cup {<<Word(flag), Word(v)>> : v \in given} \cup {<<With(flag, v)>> : v \in given}

Dependency ==
    [Vite |-> "vite", SvelteKit |-> "@sveltejs/kit", Astro |-> "astro", Nuxt |-> "nuxt",
     Next |-> "next", Angular |-> "@angular/core", CreateReactApp |-> "react-scripts",
     Expo |-> "expo", ReactNative |-> "react-native"]

PortArguments(kind) ==
    UNION {Giving(flag, {"4000"}) : flag \in Recipe[kind].port_flags} \cup {<<>>}

HostArguments(kind) ==
    CASE kind = "Expo" -> {<<>>, <<Word("--lan")>>, <<Word("--host"), Word("lan")>>,
                           <<Word("--host"), Word("localhost")>>}
      [] kind = "CreateReactApp" -> {<<>>}
      [] OTHER -> UNION {Giving(flag, {"0.0.0.0", "localhost"}) \cup {<<Word(flag)>>}
                           : flag \in Recipe[kind].host_flags}

ArgumentLists(kind) ==
    UNION {{p \o h, h \o p} : p \in PortArguments(kind), h \in HostArguments(kind)}

\* A script that builds first, one that runs something else, one with shell
\* syntax, and the program said plainly.
Scripts(kind, environments) ==
    {environment \o [i \in 1..Len(program) |-> Word(program[i])] \o arguments :
        environment \in environments, program \in Recipe[kind].programs,
        arguments \in ArgumentLists(kind)}

ScriptTables(kind, environments) ==
    {[dev |-> s] : s \in Scripts(kind, environments)}
      \cup {[dev |-> Shell, start |-> s] : s \in Scripts(kind, {<<>>})}

Scripted(environments) ==
    UNION {{[Package(Dependency[kind], scripts) EXCEPT !.manager = manager] :
                      scripts \in ScriptTables(kind, environments),
                      manager \in {"npm", "pnpm"}} : kind \in DOMAIN Recipe}

\* The kinds without flags, and projects that are refused.
Others ==
    {Nothing, Package("lodash", [test |-> Shell]), Package("vite", [dev |-> Shell]),
     Package("vite", [dev |-> <<Word("vite"), Word("build")>>]),
     Package("vite", [dev |-> <<Word("vite"), Word("--port"), Word("0")>>]),
     [Nothing EXCEPT !.pubspec = TRUE], [Nothing EXCEPT !.src_tauri = TRUE],
     [Nothing EXCEPT !.gradle = TRUE], [Nothing EXCEPT !.xcodeproj = TRUE],
     [Nothing EXCEPT !.gradle = TRUE, !.xcodeproj = TRUE],
     [Nothing EXCEPT !.manage_py = TRUE], [Nothing EXCEPT !.manage_py = TRUE, !.python = "python3"],
     Package("electron", [start |-> <<Word("electron")>>]), Package("electron", [test |-> Shell]),
     Package("@tauri-apps/cli", [tauri |-> <<Word("tauri")>>])}

----------------------------------------------------------------------------
\* Repositories.

PlainVite == Package("vite", [dev |-> <<Word("vite")>>])
FixedNext == Package("next", [dev |-> <<Word("next"), Word("dev"), Word("-p"), Word("4000")>>])
Mobile    == [Nothing EXCEPT !.gradle = TRUE, !.xcodeproj = TRUE]
Worked    == {PlainVite, FixedNext, Mobile}

\* Where these three write, and where any project's files may be.
WorkedPaths == {".env.development.local", "autonet.properties", "Autonet.xcconfig", "mine.env"}
AnyPath == WorkedPaths \cup
    {"src/autonet.generated.js", "autonet.generated.js", "autonet.generated.ts",
     "src/autonet.generated.ts", "autonet.generated.json", "lib/autonet.g.dart",
     ".env.autonet"}

\* The one without a shebang is one Git does not run.
Disk(manifest, gitignore, hook, paths) ==
    [manifest |-> manifest, gitignore |-> gitignore, hook |-> hook,
     executable |-> hook \notin {Absent, <<"theirs">>},
     file |-> [p \in paths |-> Absent]]

Fresh == Disk(Absent, Absent, Absent, AnyPath)

Manifests ==
    {Absent, Broken, [NoManifest EXCEPT !.port = "0"], [NoManifest EXCEPT !.port = "3000"],
     [NoManifest EXCEPT !.command = <<"make">>, !.output = <<Env("mine.env", "MY_")>>],
     [NoManifest EXCEPT !.output = <<Env(Outside, None)>>]}

Gitignores == {Absent, <<"Autonet.xcconfig", "theirs">>}
Hooks == {Absent, <<"theirs">>, <<"#!sh", "theirs", "exit">>, <<"#!python", "theirs">>}

At(projects, gits, disks, n) ==
    [facts : projects, git : gits, disk : disks, chances : {n}]

InFresh(projects) == At(projects, {"none"}, {Fresh}, 0)

Repositories ==
    At(Worked, {"plain"},
       {Disk(m, g, h, WorkedPaths) : m \in Manifests, g \in Gitignores, h \in Hooks}, 2)

Managed == At(Worked, {"managed"}, {Disk(Absent, g, <<"#!sh", "theirs">>, WorkedPaths) : g \in Gitignores}, 1)

Everywhere == InFresh(Scripted(Environments) \cup Others) \cup Repositories \cup Managed
Ported     == InFresh(Scripted(PortEnvironments))

ASSUME DevelopersAreCoherent ==
    \A f \in {s.facts : s \in Everywhere} \cup Worked : Coherent(f)

Ports   == {None, "0", "3100"}
Answers == {"192.168.1.20", None}

=============================================================================
