---------------------------- MODULE SetupProofs -----------------------------
(***************************************************************************)
(* What `autonet init` guarantees for every project, network and way to be *)
(* interrupted: a refusal, or a dry run, leaves every file as it was; what *)
(* the developer wrote is kept; "set up" means set up; and a second run,   *)
(* or `dev`, finds the plan the first one made.                            *)
(***************************************************************************)
EXTENDS Setup, SelectProofs, SequenceTheorems

----------------------------------------------------------------------------
\* A set of positions that is not empty has a first.
LEMMA FirstPosition ==
  ASSUME NEW n \in Nat, NEW S \in SUBSET (1..n), S # {}
  PROVE  Min(S) \in S
<1>1. S \subseteq Nat
  OBVIOUS
<1> QED BY <1>1, MinIsLeast

----------------------------------------------------------------------------
(***************************************************************************)
(* The plan.  A project is of one of sixteen kinds, or none.               *)
(***************************************************************************)
Kinds == DOMAIN Recipe \cup
    {"Flutter", "Tauri", "Electron", "Android", "Ios", "NativeMobile", "Django"}

LEMMA FirstHoldingIs ==
  ASSUME NEW pairs, Len(pairs) \in Nat
  PROVE  FirstHolding(pairs) \in {None} \cup {pairs[i][2] : i \in 1..Len(pairs)}
<1> DEFINE I == {i \in 1..Len(pairs) : pairs[i][1]}
<1>1. I \in SUBSET (1..Len(pairs))
  OBVIOUS
<1>2. CASE I = {}
  <2>1. SelectInSeq(pairs, LAMBDA pair : pair[1]) = 0
    BY <1>2 DEF SelectInSeq
  <2> QED BY <2>1 DEF FirstHolding
<1>3. CASE I # {}
  <2>1. Min(I) \in I
    BY <1>1, <1>3, FirstPosition
  <2>2. SelectInSeq(pairs, LAMBDA pair : pair[1]) = Min(I)
    BY <1>3 DEF SelectInSeq
  <2>3. Min(I) # 0 /\ Min(I) \in 1..Len(pairs)
    BY <2>1
  <2> QED BY <2>2, <2>3 DEF FirstHolding
<1> QED BY <1>2, <1>3

LEMMA DetectKinds == ASSUME NEW f PROVE Detect(f) \in {None} \cup Kinds
<1>1. PICK pairs : pairs =
      << <<f.pubspec, "Flutter">>,
         <<Has(f, "expo"), "Expo">>,
         <<Has(f, "react-native"), "ReactNative">>,
         <<f.src_tauri \/ Has(f, "@tauri-apps/cli"), "Tauri">>,
         <<Has(f, "electron"), "Electron">>,
         <<Has(f, "next"), "Next">>,
         <<Has(f, "nuxt"), "Nuxt">>,
         <<Has(f, "astro"), "Astro">>,
         <<Has(f, "@sveltejs/kit"), "SvelteKit">>,
         <<Has(f, "@angular/core"), "Angular">>,
         <<Has(f, "react-scripts"), "CreateReactApp">>,
         <<Has(f, "vite"), "Vite">>,
         <<f.manage_py, "Django">>,
         <<f.gradle /\ f.xcodeproj, "NativeMobile">>,
         <<f.gradle, "Android">>,
         <<f.xcodeproj, "Ios">> >>
  OBVIOUS
<1>2. Len(pairs) = 16 /\ Len(pairs) \in Nat
  BY <1>1
<1>3. \A i \in 1..16 : pairs[i][2] \in Kinds
  BY <1>1 DEF Kinds, Recipe
<1>4. Detect(f) = FirstHolding(pairs)
  BY <1>1 DEF Detect
<1>5. FirstHolding(pairs) \in {None} \cup {pairs[i][2] : i \in 1..Len(pairs)}
  BY <1>2, FirstHoldingIs, Zenon
<1>6. \A i \in 1..Len(pairs) : pairs[i][2] \in Kinds
  BY <1>2, <1>3
<1> QED BY <1>4, <1>5, <1>6, Zenon

(***************************************************************************)
(* What is read of its own accord could stand in a manifest.               *)
(***************************************************************************)
WellMade(o) == o \in Output /\ o.path # Outside /\ (o.prefix # None => o.format = "env")

Declarable(outputs) ==
    outputs \in Seq(Output) /\ outputs # <<>> /\ \A i \in 1..Len(outputs) : WellMade(outputs[i])

LEMMA EnvMade ==
  ASSUME NEW path \in STRING, path # Outside, NEW prefix \in {None} \cup STRING
  PROVE  WellMade(Env(path, prefix))
<1>1. Env(path, prefix) \in Output
  BY LiteralsAreTexts DEF Env, Output
<1>2. Env(path, prefix).path = path /\ Env(path, prefix).format = "env"
  BY DEF Env
<1> QED BY <1>1, <1>2 DEF WellMade

LEMMA FileMade ==
  ASSUME NEW path \in STRING, path # Outside, NEW format \in STRING
  PROVE  WellMade(File(format, path))
  BY DEF WellMade, File, Output

LEMMA OneDeclared == ASSUME NEW o, WellMade(o) PROVE Declarable(<<o>>)
  BY DEF Declarable, WellMade

LEMMA TwoDeclared == ASSUME NEW o, NEW q, WellMade(o), WellMade(q) PROVE Declarable(<<o, q>>)
  BY DEF Declarable, WellMade

LEMMA DefaultsDeclarable ==
  ASSUME NEW kind \in Kinds, NEW f
  PROVE  Declarable(DefaultOutputs(kind, f))
<1> USE LiteralsAreTexts
<1>0. /\ \A path \in STRING \ {Outside}, prefix \in {None} \cup STRING : Declarable(<<Env(path, prefix)>>)
      /\ \A path \in STRING \ {Outside}, format \in STRING : Declarable(<<File(format, path)>>)
  BY EnvMade, FileMade, OneDeclared
<1>e. ".env.development.local" # Outside /\ ".env.autonet" # Outside
  BY DEF Outside
<1>1. CASE kind = "Vite"
  <2>1. DefaultOutputs(kind, f) = <<Env(".env.development.local", "VITE_")>>
    BY <1>1 DEF DefaultOutputs
  <2> QED BY <2>1, <1>0, <1>e DEF Outside
<1>2. CASE kind \in {"SvelteKit", "Astro"}
  <2>1. DefaultOutputs(kind, f) = <<Env(".env.development.local", "PUBLIC_")>>
    BY <1>2 DEF DefaultOutputs
  <2> QED BY <2>1, <1>0, <1>e DEF Outside
<1>3. CASE kind = "Next"
  <2>1. DefaultOutputs(kind, f) = <<Env(".env.development.local", "NEXT_PUBLIC_")>>
    BY <1>3 DEF DefaultOutputs
  <2> QED BY <2>1, <1>0, <1>e DEF Outside
<1>4. CASE kind = "Nuxt"
  <2>1. DefaultOutputs(kind, f) = <<File("ts", "autonet.generated.ts")>>
    BY <1>4 DEF DefaultOutputs
  <2> QED BY <2>1, <1>0, <1>e DEF Outside
<1>5. CASE kind = "Angular"
  <2>1. DefaultOutputs(kind, f) = <<File("ts", "src/autonet.generated.ts")>>
    BY <1>5 DEF DefaultOutputs
  <2> QED BY <2>1, <1>0, <1>e DEF Outside
<1>6. CASE kind = "CreateReactApp"
  <2>1. DefaultOutputs(kind, f) \in {<<File("ts", "src/autonet.generated.ts")>>,
                                  <<File("js", "src/autonet.generated.js")>>}
    BY <1>6 DEF DefaultOutputs
  <2> QED BY <2>1, <1>0, <1>e DEF Outside
<1>7. CASE kind \in {"Expo", "ReactNative"}
  <2>1. DefaultOutputs(kind, f) \in {<<File("ts", "autonet.generated.ts")>>,
                                  <<File("js", "autonet.generated.js")>>}
    BY <1>7 DEF DefaultOutputs
  <2> QED BY <2>1, <1>0, <1>e DEF Outside
<1>8. CASE kind \in {"Electron", "Tauri"}
  <2>1. DefaultOutputs(kind, f) = <<File("json", "autonet.generated.json")>>
    BY <1>8 DEF DefaultOutputs
  <2> QED BY <2>1, <1>0, <1>e DEF Outside
<1>9. CASE kind = "Flutter"
  <2>1. DefaultOutputs(kind, f) = <<File("dart", "lib/autonet.g.dart")>>
    BY <1>9 DEF DefaultOutputs
  <2> QED BY <2>1, <1>0, <1>e DEF Outside
<1>10. CASE kind = "Android"
  <2>1. DefaultOutputs(kind, f) = <<File("properties", "autonet.properties")>>
    BY <1>10 DEF DefaultOutputs
  <2> QED BY <2>1, <1>0, <1>e DEF Outside
<1>11. CASE kind = "Ios"
  <2>1. DefaultOutputs(kind, f) = <<File("xcconfig", "Autonet.xcconfig")>>
    BY <1>11 DEF DefaultOutputs
  <2> QED BY <2>1, <1>0, <1>e DEF Outside
<1>12. CASE kind = "Django"
  <2>1. DefaultOutputs(kind, f) = <<Env(".env.autonet", None)>>
    BY <1>12 DEF DefaultOutputs
  <2> QED BY <2>1, <1>0, <1>e DEF Outside
<1>13. CASE kind = "NativeMobile"
  <2>1. DefaultOutputs(kind, f) = <<File("properties", "autonet.properties"),
                                    File("xcconfig", "Autonet.xcconfig")>>
    BY <1>13 DEF DefaultOutputs
  <2>2. WellMade(File("properties", "autonet.properties"))
        /\ WellMade(File("xcconfig", "Autonet.xcconfig"))
    BY FileMade, LiteralsAreTexts DEF Outside
  <2> QED BY <2>1, <2>2, TwoDeclared
<1> QED BY <1>1, <1>2, <1>3, <1>4, <1>5, <1>6, <1>7, <1>8, <1>9, <1>10, <1>11, <1>12, <1>13 DEF Kinds, Recipe

LEMMA OutputsDeclared ==
  ASSUME NEW f, NEW m, m.output \in Seq(Output)
  PROVE  /\ OutputsOf(Detect(f), f, m) \in Seq(Output)
         /\ OutputsOf(Detect(f), f, m) # <<>>
         /\ m.output # <<>> => OutputsOf(Detect(f), f, m) = m.output
         /\ m.output = <<>> => Declarable(OutputsOf(Detect(f), f, m))
<1>1. CASE m.output # <<>>
  BY <1>1 DEF OutputsOf
<1>2. CASE m.output = <<>> /\ Detect(f) = None
  <2>1. ".env.autonet" # Outside
    BY DEF Outside
  <2>2. Declarable(<<Env(".env.autonet", None)>>)
    BY <2>1, EnvMade, OneDeclared, LiteralsAreTexts
  <2> QED BY <1>2, <2>2 DEF OutputsOf, Declarable
<1>3. CASE m.output = <<>> /\ Detect(f) # None
  <2>1. Declarable(DefaultOutputs(Detect(f), f))
    BY <1>3, DetectKinds, DefaultsDeclarable
  <2> QED BY <1>3, <2>1 DEF OutputsOf, Declarable
<1> QED BY <1>1, <1>2, <1>3

(***************************************************************************)
(* A plan that is made says what the command says.                         *)
(***************************************************************************)
Commanded(f, m, w, b) == Command(Detect(f), f, m, Or(w, m.port), b)

LEMMA PlanMade ==
  ASSUME NEW f, NEW m, NEW w, NEW b
  PROVE  /\ IsRefused(MakePlan(f, m, w, b)) <=> IsRefused(Commanded(f, m, w, b))
         /\ ~IsRefused(MakePlan(f, m, w, b)) =>
               MakePlan(f, m, w, b) =
                  [kind |-> Detect(f), command |-> Commanded(f, m, w, b).command,
                   port |-> Commanded(f, m, w, b).port,
                   binds_wildcard |-> Commanded(f, m, w, b).binds,
                   background |-> m.background, env |-> EnvFor(Detect(f)),
                   outputs |-> OutputsOf(Detect(f), f, m)]
<1>1. PICK r : r = Commanded(f, m, w, b)
  OBVIOUS
<1>2. PICK k, e, o : k = Detect(f) /\ e = EnvFor(Detect(f)) /\ o = OutputsOf(Detect(f), f, m)
  OBVIOUS
<1>3. PICK p : p = [kind |-> k, command |-> r.command, port |-> r.port,
                    binds_wildcard |-> r.binds, background |-> m.background,
                    env |-> e, outputs |-> o]
  OBVIOUS
<1>4. MakePlan(f, m, w, b) = IF IsRefused(r) THEN r ELSE p
  BY <1>1, <1>2, <1>3, Zenon DEF MakePlan, PlanOf, Commanded
<1>5. ~IsRefused(p)
  BY <1>3 DEF IsRefused
<1> QED BY <1>1, <1>2, <1>3, <1>4, <1>5

\* A script is agreed to, or not, whichever family is bound, and again with the
\* port it was given.
LEMMA AgreedAgain ==
  ASSUME NEW kind, NEW manager, NEW name, NEW fixed, NEW host, NEW w, NEW b, NEW c,
         ~IsRefused(Agreed(kind, manager, name, fixed, host, w, b))
  PROVE  LET r == Agreed(kind, manager, name, fixed, host, w, b)
         IN /\ r.port = Or(w, Or(fixed, Recipe[kind].default_port))
            /\ Agreed(kind, manager, name, fixed, host, r.port, b) = r
            /\ ~IsRefused(Agreed(kind, manager, name, fixed, host, w, c))
            /\ Agreed(kind, manager, name, fixed, host, w, c).port = r.port
<1> DEFINE port == Or(w, Or(fixed, Recipe[kind].default_port))
           Given2(x, bind) == Flags(kind, bind, IF fixed = None THEN x ELSE None)
           Full(x, bind) ==
              Launching(RunScript(manager, name,
                                IF host = None THEN Given2(x, bind)
                                ELSE StripFlag(Given2(x, bind), Recipe[kind].host_flags)),
                      x, TRUE)
<1>1. \A why : IsRefused(Refused(why))
  BY DEF IsRefused, Refused
<1>2. \A x, bind : ~IsRefused(Full(x, bind)) /\ Full(x, bind).port = x
  BY DEF IsRefused, Launching
<1>3. \A x, bind : Agreed(kind, manager, name, fixed, host, x, bind) =
         IF fixed # None /\ x # None /\ fixed # x THEN Refused("port")
         ELSE IF host # None /\ ~IsWildcard(host) THEN Refused("host")
         ELSE Full(Or(x, Or(fixed, Recipe[kind].default_port)), bind)
  BY DEF Agreed
<1> HIDE DEF Full
<1>4. ~(fixed # None /\ w # None /\ fixed # w) /\ ~(host # None /\ ~IsWildcard(host))
  BY <1>1, <1>3
<1>5. Agreed(kind, manager, name, fixed, host, w, b) = Full(port, b)
      /\ Agreed(kind, manager, name, fixed, host, w, c) = Full(port, c)
  BY <1>3, <1>4
<1>6. Or(port, Or(fixed, Recipe[kind].default_port)) = port
      /\ ~(fixed # None /\ port # None /\ fixed # port)
  BY <1>4 DEF Or
<1>7. Agreed(kind, manager, name, fixed, host, port, b) = Full(port, b)
  BY <1>3, <1>4, <1>6
<1> QED BY <1>2, <1>5, <1>7

\* What holds of an agreement holds of whatever a project is run by.
SameAgain(r, again, other) ==
    ~IsRefused(r) =>
        /\ again = r
        /\ ~IsRefused(other)
        /\ other.port = r.port

\* What is simply run is run again with its port.
LEMMA RunAgain ==
  /\ \A line, x : ~IsRefused(Launching(line, x, TRUE)) /\ Launching(line, x, TRUE).port = x
  /\ \A line, x : ~IsRefused(Launching(line, x, FALSE)) /\ Launching(line, x, FALSE).port = x
  BY DEF IsRefused, Launching

LEMMA ScriptAgain ==
  ASSUME NEW kind, NEW f, NEW w, NEW b, NEW c
  PROVE  LET r == ScriptedCommand(kind, f, w, b)
         IN SameAgain(r, ScriptedCommand(kind, f, r.port, b), ScriptedCommand(kind, f, w, c))
<1>1. \A why : IsRefused(Refused(why))
  BY DEF IsRefused, Refused
<1>2. PICK name : name = FindScript(f.package, Recipe[kind].programs)
  OBVIOUS
<1>3. PICK fixed, host :
         /\ fixed = NumberIn(Flag(Tokenize(f.package.scripts[name]), Recipe[kind].port_flags))
         /\ host = Flag(Tokenize(f.package.scripts[name]), Recipe[kind].host_flags)
  OBVIOUS
<1>4. \A x, bind : ScriptedCommand(kind, f, x, bind) =
         IF f.package = None THEN Refused("package")
         ELSE IF name = None THEN Refused("script")
         ELSE Agreed(kind, f.manager, name, fixed, host, x, bind)
  BY <1>2, <1>3, Zenon DEF ScriptedCommand, WithScript, WithTokens
<1>5. CASE f.package = None \/ name = None
  BY <1>1, <1>4, <1>5 DEF SameAgain
<1>6. CASE f.package # None /\ name # None
  <2>1. \A x, bind : ScriptedCommand(kind, f, x, bind) = Agreed(kind, f.manager, name, fixed, host, x, bind)
    BY <1>4, <1>6
  <2> QED BY <2>1, AgreedAgain DEF SameAgain
<1> QED BY <1>5, <1>6

LEMMA UnflaggedAgain ==
  ASSUME NEW kind \in Kinds \ DOMAIN Recipe, NEW f, NEW w, NEW b, NEW c
  PROVE  LET r == UnflaggedCommand(kind, f, w, b)
         IN SameAgain(r, UnflaggedCommand(kind, f, r.port, b), UnflaggedCommand(kind, f, w, c))
<1>1. \A why : IsRefused(Refused(why))
  BY DEF IsRefused, Refused
<1>3. CASE kind = "Django"
  <2>1. \A x, bind : UnflaggedCommand(kind, f, x, bind) =
           IF f.python = None THEN Refused("python")
           ELSE Launching(<<f.python, "manage.py", "runserver", <<bind, Or(x, "8000")>> >>,
                        Or(x, "8000"), TRUE)
    BY <1>3 DEF UnflaggedCommand
  <2>2. Or(Or(w, "8000"), "8000") = Or(w, "8000")
    BY DEF Or
  <2>3. CASE f.python = None
    BY <2>1, <2>3, <1>1 DEF SameAgain
  <2>4. CASE f.python # None
    <3> DEFINE line(bind) == <<f.python, "manage.py", "runserver", <<bind, Or(w, "8000")>> >>
    <3>1. /\ UnflaggedCommand(kind, f, w, b) = Launching(line(b), Or(w, "8000"), TRUE)
          /\ UnflaggedCommand(kind, f, Or(w, "8000"), b) = Launching(line(b), Or(w, "8000"), TRUE)
          /\ UnflaggedCommand(kind, f, w, c) = Launching(line(c), Or(w, "8000"), TRUE)
      BY <2>1, <2>2, <2>4
    <3> HIDE DEF line
    <3>2. UnflaggedCommand(kind, f, w, b).port = Or(w, "8000")
      BY <3>1, RunAgain DEF SameAgain
    <3>3. PICK r, s : r = UnflaggedCommand(kind, f, w, b) /\ s = UnflaggedCommand(kind, f, w, c)
      OBVIOUS
    <3>4. UnflaggedCommand(kind, f, r.port, b) = r
      BY <3>1, <3>2, <3>3, Zenon
    <3>5. ~IsRefused(s) /\ s.port = r.port
      <4>1. ~IsRefused(s)
        BY <3>1, <3>3, RunAgain, Zenon
      <4>2. s.port = Or(w, "8000") /\ r.port = Or(w, "8000")
        BY <3>1, <3>3, RunAgain, Zenon
      <4> QED BY <4>1, <4>2, Zenon
    <3>6. SameAgain(r, UnflaggedCommand(kind, f, r.port, b), s)
      BY <3>4, <3>5, Zenon DEF SameAgain
    <3> QED BY <3>3, <3>6, Zenon
  <2> QED BY <2>3, <2>4
<1>4. CASE kind \in {"Flutter", "Android", "Ios", "NativeMobile", "Tauri"}
  <2>1. \E line : \A x, bind : UnflaggedCommand(kind, f, x, bind) = Launching(line, x, FALSE)
    BY <1>4 DEF UnflaggedCommand
  <2>2. PICK line : \A x, bind : UnflaggedCommand(kind, f, x, bind) = Launching(line, x, FALSE)
    BY <2>1
  <2>3. UnflaggedCommand(kind, f, w, b).port = w
    BY <2>2 DEF SameAgain, Launching, IsRefused
  <2> QED BY <2>2, <2>3 DEF SameAgain, Launching, IsRefused
<1>5. CASE kind = "Electron"
  <2>1. \/ \A x, bind : UnflaggedCommand(kind, f, x, bind) = Refused("script")
        \/ \E line : \A x, bind : UnflaggedCommand(kind, f, x, bind) = Launching(line, x, FALSE)
    BY <1>5 DEF UnflaggedCommand
  <2>2. CASE \A x, bind : UnflaggedCommand(kind, f, x, bind) = Refused("script")
    BY <2>2, <1>1 DEF SameAgain
  <2>3. CASE \E line : \A x, bind : UnflaggedCommand(kind, f, x, bind) = Launching(line, x, FALSE)
    <3>1. PICK line : \A x, bind : UnflaggedCommand(kind, f, x, bind) = Launching(line, x, FALSE)
      BY <2>3
    <3>2. UnflaggedCommand(kind, f, w, b).port = w
      BY <3>1 DEF SameAgain, Launching, IsRefused
    <3> QED BY <3>1, <3>2 DEF SameAgain, Launching, IsRefused
  <2> QED BY <2>1, <2>2, <2>3
<1> QED BY <1>3, <1>4, <1>5 DEF Kinds

\* Without a command of its own a project is run as before, whatever else a
\* manifest declares, if it was run at all.
LEMMA CommandAgain ==
  ASSUME NEW kind \in {None} \cup Kinds, NEW f, NEW m, m.command = None, NEW n, n.command = None,
         kind = None => m.output = n.output,
         NEW w, NEW b, NEW c
  PROVE  LET r == Command(kind, f, m, w, b)
         IN SameAgain(r, Command(kind, f, n, r.port, b), Command(kind, f, n, w, c))
<1>1. \A why : IsRefused(Refused(why))
  BY DEF IsRefused, Refused
<1>3. CASE kind = None
  <2>1. \A x, bind : /\ Command(kind, f, m, x, bind) = IF m.output = <<>> THEN Refused("kind")
                                                       ELSE Launching(None, x, FALSE)
                     /\ Command(kind, f, n, x, bind) = Command(kind, f, m, x, bind)
    BY <1>3 DEF Command
  <2>2. CASE m.output = <<>>
    BY <2>1, <2>2, <1>1 DEF SameAgain
  <2>3. CASE m.output # <<>>
    <3>1. \A x, bind : /\ Command(kind, f, m, x, bind) = Launching(None, x, FALSE)
                       /\ Command(kind, f, n, x, bind) = Launching(None, x, FALSE)
      BY <2>1, <2>3
    <3>2. Command(kind, f, m, w, b).port = w
      BY <3>1 DEF SameAgain, Launching, IsRefused
    <3> QED BY <3>1, <3>2 DEF SameAgain, Launching, IsRefused
  <2> QED BY <2>2, <2>3
<1>4. CASE kind # None /\ kind \in DOMAIN Recipe
  <2>1. \A x, bind : /\ Command(kind, f, m, x, bind) = ScriptedCommand(kind, f, x, bind)
                     /\ Command(kind, f, n, x, bind) = ScriptedCommand(kind, f, x, bind)
    BY <1>4 DEF Command
  <2> QED BY <2>1, ScriptAgain
<1>5. CASE kind # None /\ kind \notin DOMAIN Recipe
  <2>1. \A x, bind : /\ Command(kind, f, m, x, bind) = UnflaggedCommand(kind, f, x, bind)
                     /\ Command(kind, f, n, x, bind) = UnflaggedCommand(kind, f, x, bind)
    BY <1>5 DEF Command
  <2>2. kind \in Kinds \ DOMAIN Recipe
    BY <1>5
  <2> QED BY <2>1, <2>2, UnflaggedAgain
<1> QED BY <1>3, <1>4, <1>5

\* A port is asked for, or the script's own, or the framework's.
LEMMA CommandPort ==
  ASSUME NEW kind \in {None} \cup Kinds, NEW f, NEW m, NEW w \in Port, NEW b,
         ~IsRefused(Command(kind, f, m, w, b))
  PROVE  Command(kind, f, m, w, b).port \in Port
<1> DEFINE r == Command(kind, f, m, w, b)
<1>1. CASE m.command # None \/ kind = None
  <2>1. \/ r = Launching(m.command, w, FALSE)
        \/ r = Launching(None, w, FALSE)
        \/ r = Refused("kind")
    BY <1>1 DEF Command
  <2> QED BY <2>1 DEF Launching, Refused, IsRefused
<1>2. CASE m.command = None /\ kind # None /\ kind \in DOMAIN Recipe
  <2>1. r = ScriptedCommand(kind, f, w, b)
    BY <1>2 DEF Command
  <2>2. \A why : IsRefused(Refused(why))
    BY DEF IsRefused, Refused
  <2>3. \E manager, name, host : \E fixed \in {None} \cup PortTexts :
           r = Agreed(kind, manager, name, fixed, host, w, b)
    BY <2>1, <2>2 DEF ScriptedCommand, WithScript, WithTokens, NumberIn
  <2>4. PICK manager, name, host : \E fixed \in {None} \cup PortTexts :
           r = Agreed(kind, manager, name, fixed, host, w, b)
    BY <2>3
  <2>5. PICK fixed \in {None} \cup PortTexts : r = Agreed(kind, manager, name, fixed, host, w, b)
    BY <2>4
  <2>6. r.port = Or(w, Or(fixed, Recipe[kind].default_port))
    BY <2>5, AgreedAgain
  <2>7. Recipe[kind].default_port \in {"3000", "4200", "4321", "5173", "8081"}
    BY <1>2 DEF Recipe, RecipeOf, Vite
  <2>8. {"3000", "4200", "4321", "5173", "8081"} \subseteq PortTexts
    BY NumbersArePorts
  <2> QED BY <2>6, <2>7, <2>8 DEF Or, Port
<1>3. CASE m.command = None /\ kind # None /\ kind \notin DOMAIN Recipe
  <2>1. r = UnflaggedCommand(kind, f, w, b) /\ kind \in Kinds
    BY <1>3 DEF Command
  <2>2. CASE kind = "Django"
    <3>1. \/ r = Refused("python")
          \/ \E line : r = Launching(line, Or(w, "8000"), TRUE)
      BY <2>1, <2>2 DEF UnflaggedCommand
    <3>2. r = Refused("python") \/ r.port = Or(w, "8000")
      BY <3>1 DEF Launching
    <3>3. "8000" \in PortTexts
      BY NumbersArePorts
    <3>4. Or(w, "8000") \in Port
      BY <3>3 DEF Or, Port
    <3>5. IsRefused(Refused("python"))
      BY DEF Refused, IsRefused
    <3> QED BY <3>2, <3>4, <3>5
  <2>3. CASE kind # "Django"
    <3>1. \/ r = Refused("script")
          \/ \E line : r = Launching(line, w, FALSE)
      BY <2>1, <2>3, <1>3 DEF UnflaggedCommand, Kinds
    <3> QED BY <3>1 DEF Launching, Refused, IsRefused
  <2> QED BY <2>2, <2>3
<1> QED BY <1>1, <1>2, <1>3

\* The family that is bound decides nothing else.
LEMMA OtherFamily ==
  ASSUME NEW f, NEW m, NEW w, NEW b, NEW c, ~IsRefused(MakePlan(f, m, w, b))
  PROVE  /\ ~IsRefused(MakePlan(f, m, w, c))
         /\ MakePlan(f, m, w, c).port = MakePlan(f, m, w, b).port
         /\ MakePlan(f, m, w, c).outputs = MakePlan(f, m, w, b).outputs
<1>1. ~IsRefused(Commanded(f, m, w, b))
  BY PlanMade
<1>2. CASE m.command # None
  <2>1. Commanded(f, m, w, c) = Commanded(f, m, w, b)
    BY <1>2 DEF Commanded, Command
  <2> QED BY <1>1, <2>1, PlanMade
<1>3. CASE m.command = None
  <2>1. SameAgain(Commanded(f, m, w, b), Command(Detect(f), f, m, Commanded(f, m, w, b).port, b),
                  Commanded(f, m, w, c))
    BY <1>3, DetectKinds, CommandAgain DEF Commanded
  <2>2. ~IsRefused(Commanded(f, m, w, c)) /\ Commanded(f, m, w, c).port = Commanded(f, m, w, b).port
    BY <1>1, <2>1 DEF SameAgain
  <2> QED BY <1>1, <2>2, PlanMade
<1> QED BY <1>2, <1>3

\* Neither a text nor a manifest is one of the marks.
LEMMA MarksApart ==
  /\ \A t \in Text : t # Absent /\ t # None
  /\ \A m \in Manifest : m # Absent /\ m # Broken /\ m # None
  /\ None # <<>>
<1>1. /\ \A t \in Text : t # Absent /\ t # None
      /\ \A m \in Manifest : m # Absent /\ m # Broken /\ m # None
  BY MarksAreNoData
<1>2. <<>> \in Text
  BY DEF Text
<1> QED BY <1>1, <1>2

\* What a plan that is made says.
LEMMA PlanSays ==
  ASSUME NEW f, NEW m, m.output \in Seq(Output), NEW w \in Port,
         m.port \in Port, NEW b, ~IsRefused(MakePlan(f, m, w, b))
  PROVE  LET p == MakePlan(f, m, w, b)
         IN /\ p.outputs \in Seq(Output) /\ p.outputs # <<>>
            /\ p.port \in Port
            /\ p.outputs = OutputsOf(Detect(f), f, m)
<1>1. ~IsRefused(Commanded(f, m, w, b))
  BY PlanMade
<1>2. Or(w, m.port) \in Port
  BY DEF Or
<1>3. Commanded(f, m, w, b).port \in Port
  BY <1>1, <1>2, DetectKinds, CommandPort DEF Commanded
<1>4. /\ MakePlan(f, m, w, b).outputs = OutputsOf(Detect(f), f, m)
      /\ MakePlan(f, m, w, b).port = Commanded(f, m, w, b).port
  BY PlanMade
<1> QED BY <1>3, <1>4, OutputsDeclared

LEMMA Defaults ==
  NoManifest \in Manifest /\ NoManifest.output = <<>> /\ NoManifest.output \in Seq(Output)
  /\ NoManifest.port = None /\ NoManifest.command = None /\ NoManifest.background = <<>>
  BY DEF NoManifest, Port, Manifest

\* With no command declared it does not matter what else is.
LEMMA CommandAlike ==
  ASSUME NEW kind, kind # None, NEW f, NEW m, m.command = None, NEW n, n.command = None,
         NEW w, NEW b
  PROVE  Command(kind, f, m, w, b) = Command(kind, f, n, w, b)
  BY DEF Command

(***************************************************************************)
(* A plan made without a manifest, written down in one, is made of it      *)
(* again: with the same request, and, the request left out, with the same  *)
(* port and files, whichever family is bound.                              *)
(***************************************************************************)
LEMMA WrittenDown ==
  ASSUME NEW f, NEW w \in Port, NEW b, NEW c,
         ~IsRefused(MakePlan(f, NoManifest, w, b))
  PROVE  LET p == MakePlan(f, NoManifest, w, b)
             m == ManifestOf(p)
         IN /\ m \in Manifest /\ m.output = p.outputs /\ m.port = p.port
            /\ p.port # "0" => ValidManifest(m)
            /\ MakePlan(f, m, w, b) = p
            /\ ~IsRefused(MakePlan(f, m, None, c))
            /\ MakePlan(f, m, None, c).port = p.port
            /\ MakePlan(f, m, None, c).outputs = p.outputs
<1>1. PICK p : p = MakePlan(f, NoManifest, w, b)
  OBVIOUS
<1>2. PICK m : m = ManifestOf(p)
  OBVIOUS
<1>3. /\ p.outputs \in Seq(Output) /\ p.outputs # <<>>
      /\ p.port \in Port
      /\ p.outputs = OutputsOf(Detect(f), f, NoManifest)
  BY <1>1, Defaults, PlanSays DEF Port
<1>4. /\ m = [command |-> None, port |-> p.port, background |-> <<>>, output |-> p.outputs]
  BY <1>2 DEF ManifestOf, NoManifest
<1>5. m \in Manifest
  BY <1>3, <1>4 DEF Manifest
<1>6. ASSUME p.port # "0" PROVE ValidManifest(m)
  <2>1. Declarable(p.outputs)
    BY <1>3, Defaults, OutputsDeclared
  <2>2. m.command # <<>>
    BY <1>4, MarksApart
  <2> QED BY <1>4, <1>6, <2>1, <2>2 DEF ValidManifest, Declarable, WellMade
<1>7. PICK kind \in {None} \cup Kinds : kind = Detect(f)
  BY DetectKinds
<1>8. PICK r : r = Commanded(f, NoManifest, w, b)
  OBVIOUS
<1>9. /\ ~IsRefused(r) /\ r = Command(kind, f, NoManifest, w, b)
      /\ p.port = r.port
      /\ p = [kind |-> kind, command |-> r.command, port |-> r.port,
              binds_wildcard |-> r.binds, background |-> <<>>, env |-> EnvFor(kind),
              outputs |-> OutputsOf(kind, f, NoManifest)]
  <2>1. Or(w, None) = w
    BY DEF Or
  <2>2. ~IsRefused(r) /\ r = Command(kind, f, NoManifest, w, b)
    BY <1>1, <1>7, <1>8, <2>1, Defaults, PlanMade DEF Commanded
  <2>3. p = [kind |-> Detect(f), command |-> r.command, port |-> r.port,
             binds_wildcard |-> r.binds, background |-> NoManifest.background,
             env |-> EnvFor(Detect(f)), outputs |-> OutputsOf(Detect(f), f, NoManifest)]
    BY <1>1, <1>8, PlanMade
  <2>4. p.port = r.port
    BY <2>3
  <2> QED BY <1>7, <2>2, <2>3, <2>4, Defaults
<1>10. kind # None
  <2>1. Command(None, f, NoManifest, w, b) = Refused("kind")
    BY Defaults DEF Command
  <2> QED BY <1>9, <2>1 DEF IsRefused, Refused
<1>11. SameAgain(r, Command(kind, f, NoManifest, r.port, b), Command(kind, f, NoManifest, w, c))
  BY <1>9, Defaults, CommandAgain
<1>12. Command(kind, f, m, w, b) = r /\ Command(kind, f, m, r.port, b) = r
  BY <1>4, <1>9, <1>10, <1>11, Defaults, CommandAlike DEF SameAgain
<1>13. m.output # <<>> /\ OutputsOf(kind, f, m) = p.outputs
  BY <1>3, <1>4 DEF OutputsOf
<1>14. MakePlan(f, m, w, b) = p
  <2>1. Or(w, m.port) \in {w, r.port}
    BY <1>4, <1>9 DEF Or
  <2>2. Commanded(f, m, w, b) = r
    BY <1>7, <1>12, <2>1 DEF Commanded
  <2>3. OutputsOf(Detect(f), f, m) = OutputsOf(kind, f, NoManifest) /\ m.background = <<>>
    BY <1>3, <1>4, <1>7, <1>13
  <2>4. /\ ~IsRefused(MakePlan(f, m, w, b))
        /\ MakePlan(f, m, w, b) =
              [kind |-> Detect(f), command |-> r.command, port |-> r.port,
               binds_wildcard |-> r.binds, background |-> m.background,
               env |-> EnvFor(Detect(f)), outputs |-> OutputsOf(Detect(f), f, m)]
    BY <1>9, <2>2, PlanMade
  <2> QED BY <1>7, <1>9, <2>3, <2>4
<1>15. /\ ~IsRefused(MakePlan(f, m, None, b))
       /\ MakePlan(f, m, None, b).port = p.port
       /\ MakePlan(f, m, None, b).outputs = p.outputs
  <2>1. Or(None, m.port) = r.port
    BY <1>4, <1>9 DEF Or
  <2>2. Commanded(f, m, None, b) = r
    BY <1>7, <1>12, <2>1 DEF Commanded
  <2> QED BY <1>7, <1>9, <1>13, <2>2, PlanMade
<1>16. /\ ~IsRefused(MakePlan(f, m, None, c))
       /\ MakePlan(f, m, None, c).port = p.port
       /\ MakePlan(f, m, None, c).outputs = p.outputs
  BY <1>15, OtherFamily
<1> QED BY <1>1, <1>2, <1>4, <1>5, <1>6, <1>14, <1>16

----------------------------------------------------------------------------
(***************************************************************************)
(* The texts.  What is written keeps the lines there were and needs no     *)
(* writing again.                                                          *)
(***************************************************************************)
LEMMA LinesAreText ==
  ASSUME NEW t \in {Absent} \cup Text
  PROVE  Lines(t) \in Text /\ (t # Absent => Lines(t) = t)
<1>1. <<>> \in Text
  BY DEF Text
<1> QED BY <1>1 DEF Lines

LEMMA OneOf == ASSUME NEW S, NEW a \in S PROVE <<a>> \in Seq(S) /\ Len(<<a>>) = 1
  OBVIOUS

LEMMA OneLine == ASSUME NEW line \in STRING PROVE <<line>> \in Text /\ Len(<<line>>) = 1
  BY OneOf, Zenon DEF Text

\* A text and more after it.
LEMMA AppendedTo ==
  ASSUME NEW a \in Text, NEW b \in Text
  PROVE  /\ a \o b \in Text /\ Len(a \o b) = Len(a) + Len(b)
         /\ \A i \in 1..Len(a) : (a \o b)[i] = a[i]
         /\ \A i \in 1..Len(b) : (a \o b)[Len(a) + i] = b[i]
  BY DEF Text

LEMMA ContainsAppended ==
  ASSUME NEW a \in Text, NEW b \in Text, NEW line, Contains(a, line) \/ Contains(b, line)
  PROVE  Contains(a \o b, line)
<1>1. /\ Len(a) \in Nat /\ Len(b) \in Nat /\ Len(a \o b) = Len(a) + Len(b)
      /\ \A i \in 1..Len(a) : (a \o b)[i] = a[i]
      /\ \A i \in 1..Len(b) : (a \o b)[Len(a) + i] = b[i]
  BY AppendedTo DEF Text
<1>2. CASE Contains(a, line)
  <2>1. PICK i \in 1..Len(a) : a[i] = line
    BY <1>2 DEF Contains
  <2>2. i \in 1..Len(a \o b) /\ (a \o b)[i] = line
    BY <1>1, <2>1
  <2> QED BY <2>2 DEF Contains
<1>3. CASE Contains(b, line)
  <2>1. PICK i \in 1..Len(b) : b[i] = line
    BY <1>3 DEF Contains
  <2>2. Len(a) + i \in 1..Len(a \o b) /\ (a \o b)[Len(a) + i] = line
    BY <1>1, <2>1
  <2> QED BY <2>2 DEF Contains
<1> QED BY <1>2, <1>3

\* What is added after, or before, leaves the lines there were in their order.
LEMMA KeepsBefore ==
  ASSUME NEW old \in {Absent} \cup Text, NEW b \in Text, NEW t \in Text, t = Lines(old) \o b
  PROVE  Keeps(old, t)
<1>1. PICK a \in Text : a = Lines(old)
  BY LinesAreText
<1>2. Lines(t) = t
  BY LinesAreText, MarksApart
<1>3. /\ Len(a) \in Nat /\ Len(b) \in Nat /\ Len(t) = Len(a) + Len(b)
      /\ DOMAIN a = 1..Len(a) /\ DOMAIN t = 1..Len(t)
      /\ \A i \in 1..Len(a) : t[i] = a[i]
  BY <1>1, AppendedTo DEF Text
<1> DEFINE at == [i \in DOMAIN a |-> i]
<1>4. at \in [DOMAIN a -> DOMAIN t] /\ Placed(at, a, t)
  BY <1>3 DEF Placed
<1> QED BY <1>1, <1>2, <1>4 DEF Keeps

LEMMA KeepsAfter ==
  ASSUME NEW old \in Text, NEW b \in Text, NEW t \in Text, t = b \o old
  PROVE  Keeps(old, t)
<1>1. Lines(t) = t /\ Lines(old) = old
  BY LinesAreText, MarksApart
<1>2. /\ Len(old) \in Nat /\ Len(b) \in Nat /\ Len(t) = Len(b) + Len(old)
      /\ DOMAIN old = 1..Len(old) /\ DOMAIN t = 1..Len(t)
      /\ \A i \in 1..Len(old) : t[Len(b) + i] = old[i]
  BY AppendedTo DEF Text
<1> DEFINE at == [i \in DOMAIN old |-> Len(b) + i]
<1>3. at \in [DOMAIN old -> DOMAIN t] /\ Placed(at, old, t)
  BY <1>2 DEF Placed
<1> QED BY <1>1, <1>3 DEF Keeps

\* The paths .gitignore has not.
MissingFrom(gitignore, outputs) ==
    {i \in 1..Len(Paths(outputs)) : ~Contains(Lines(gitignore), Paths(outputs)[i])}

LEMMA PathsAre ==
  ASSUME NEW outputs \in Seq(Output)
  PROVE  /\ Len(outputs) \in Nat /\ Len(Paths(outputs)) = Len(outputs)
         /\ \A i \in 1..Len(outputs) : Paths(outputs)[i] = outputs[i].path /\ outputs[i].path \in STRING
<1>1. Len(outputs) \in Nat /\ \A i \in 1..Len(outputs) : outputs[i] \in Output
  OBVIOUS
<1>2. \A i \in 1..Len(outputs) : outputs[i].path \in STRING
  BY <1>1 DEF Output
<1>3. PICK paths : paths = Paths(outputs)
  OBVIOUS
<1>4. paths = [i \in 1..Len(outputs) |-> outputs[i].path]
  BY <1>3 DEF Paths
<1>5. paths \in [1..Len(outputs) -> STRING]
  BY <1>2, <1>4
<1>6. Len(paths) = Len(outputs)
  BY <1>1, <1>5
<1> QED BY <1>1, <1>2, <1>3, <1>4, <1>6

LEMMA IgnoredOrAdded ==
  ASSUME NEW g \in {Absent} \cup Text, NEW outputs \in Seq(Output)
  PROVE  \/ /\ MissingFrom(g, outputs) = {}
            /\ GitignoreWith(g, outputs) = None
         \/ /\ MissingFrom(g, outputs) # {}
            /\ \E more \in Text :
                  /\ GitignoreWith(g, outputs) = Lines(g) \o more
                  /\ \A i \in MissingFrom(g, outputs) : Contains(more, Paths(outputs)[i])
<1> DEFINE S == MissingFrom(g, outputs)
<1>1. CASE S = {}
  BY <1>1 DEF GitignoreWith, MissingFrom
<1>2. CASE S # {}
  <2>1. PICK extra : extra = Picked(Paths(outputs), S)
    OBVIOUS
  <2>2. S \in SUBSET (1..Len(outputs)) /\ Len(outputs) \in Nat
    BY PathsAre DEF MissingFrom
  <2>3. /\ Cardinality(S) \in Nat /\ DOMAIN extra = 1..Cardinality(S)
        /\ \A i \in S : \E k \in 1..Cardinality(S) : extra[k] = Paths(outputs)[i]
        /\ \A k \in 1..Cardinality(S) : \E i \in S : extra[k] = Paths(outputs)[i]
    <3>1. IsFiniteSet(1..Len(outputs))
      BY <2>2, FS_Interval
    <3>2. IsFiniteSet(S) /\ S \subseteq Nat
      BY <2>2, <3>1, FS_Subset
    <3>3. DOMAIN extra = 1..Cardinality(S)
      BY <2>1 DEF Picked
    <3>4. Cardinality(S) \in Nat
      BY <3>2, FS_CardinalityType
    <3> HIDE DEF S
    <3>5. HoldsOf(extra, Paths(outputs), S)
      BY <2>1, <3>2, PickedKeeps
    <3> QED BY <3>3, <3>4, <3>5 DEF HoldsOf
  <2>4. extra = [k \in 1..Cardinality(S) |-> extra[k]]
    BY <2>1 DEF Picked
  <2>5. \A k \in 1..Cardinality(S) : extra[k] \in STRING
    BY <2>2, <2>3, PathsAre, SMTT(30)
  <2>6. extra \in Text /\ Len(extra) = Cardinality(S)
    BY <2>3, <2>4, <2>5, SMTT(30) DEF Text
  <2>7. PICK head : head = <<"# rewritten by dev">>
    OBVIOUS
  <2>8. head \in Text
    <3>1. "# rewritten by dev" \in STRING
      BY LiteralsAreTexts
    <3> QED BY <2>7, <3>1, OneLine
  <2>9. head \o extra \in Text /\ \A i \in S : Contains(head \o extra, Paths(outputs)[i])
    <3>1. \A i \in S : Contains(extra, Paths(outputs)[i])
      BY <2>3, <2>6 DEF Contains
    <3> QED BY <3>1, <2>6, <2>8, AppendedTo, ContainsAppended
  <2>10. GitignoreWith(g, outputs) = Lines(g) \o head \o extra
    BY <1>2, <2>1, <2>7 DEF GitignoreWith, MissingFrom
  <2>11. Lines(g) \o head \o extra = Lines(g) \o (head \o extra)
    BY <2>6, <2>8, LinesAreText, SMTT(30) DEF Text
  <2> QED BY <1>2, <2>9, <2>10, <2>11
<1> QED BY <1>1, <1>2

\* Nothing is added to a .gitignore that has every path, and once it is added
\* to it has.
LEMMA IgnoredAgain ==
  ASSUME NEW g \in {Absent} \cup Text, NEW outputs \in Seq(Output)
  PROVE  /\ GitignoreWith(g, outputs) = None =>
               \A i \in 1..Len(outputs) : Contains(Lines(g), outputs[i].path)
         /\ GitignoreWith(g, outputs) # None =>
               /\ GitignoreWith(g, outputs) \in Text
               /\ GitignoreWith(GitignoreWith(g, outputs), outputs) = None
               /\ Keeps(g, GitignoreWith(g, outputs))
<1>1. CASE MissingFrom(g, outputs) = {}
  BY <1>1, IgnoredOrAdded, PathsAre DEF MissingFrom
<1>2. CASE MissingFrom(g, outputs) # {}
  <2>1. PICK more \in Text :
           /\ GitignoreWith(g, outputs) = Lines(g) \o more
           /\ \A i \in MissingFrom(g, outputs) : Contains(more, Paths(outputs)[i])
    BY <1>2, IgnoredOrAdded
  <2>2. PICK t : t = GitignoreWith(g, outputs)
    OBVIOUS
  <2>3. t = Lines(g) \o more /\ t \in Text /\ t # None
    <3>1. PICK a \in Text : a = Lines(g)
      BY LinesAreText
    <3>2. a \o more \in Text
      BY AppendedTo
    <3> QED BY <2>1, <2>2, <3>1, <3>2, MarksApart
  <2>4. Keeps(g, t)
    BY <2>3, KeepsBefore
  <2>5. \A i \in 1..Len(Paths(outputs)) : Contains(t, Paths(outputs)[i])
    BY <2>1, <2>3, LinesAreText, ContainsAppended DEF MissingFrom
  <2>6. Lines(t) = t
    BY <2>3, LinesAreText, MarksApart
  <2>7. MissingFrom(t, outputs) = {}
    BY <2>5, <2>6 DEF MissingFrom
  <2>8. GitignoreWith(t, outputs) = None
    BY <2>3, <2>7, IgnoredOrAdded
  <2> QED BY <2>2, <2>3, <2>4, <2>8
<1> QED BY <1>1, <1>2

(***************************************************************************)
(* The hook.  The check is four lines, the second of which tells it.       *)
(***************************************************************************)
Check == <<"#!sh">> \o Block

LEMMA ThreeOf ==
  ASSUME NEW S, NEW a \in S, NEW b \in S, NEW c \in S
  PROVE  <<a, b, c>> \in Seq(S)
  OBVIOUS

LEMMA Within == ASSUME NEW s, NEW i \in 1..Len(s) PROVE Contains(s, s[i])
  BY DEF Contains

LEMMA ThreeLines ==
  ASSUME NEW a \in STRING, NEW b \in STRING, NEW c \in STRING
  PROVE  <<a, b, c>> \in Text /\ Len(<<a, b, c>>) = 3 /\ Contains(<<a, b, c>>, a)
<1>1. <<a, b, c>> \in Text
  BY ThreeOf, Zenon DEF Text
<1>2. Len(<<a, b, c>>) = 3 /\ <<a, b, c>>[1] = a
  OBVIOUS
<1>3. 1 \in 1..Len(<<a, b, c>>)
  BY <1>2
<1>4. Contains(<<a, b, c>>, <<a, b, c>>[1])
  BY <1>3, Within, Zenon
<1> QED BY <1>1, <1>2, <1>4

LEMMA LineThenBlock ==
  ASSUME NEW d \in STRING, NEW block \in Text, Len(block) = 3, NEW a, Contains(block, a)
  PROVE  /\ <<d>> \o block \in Text /\ Len(<<d>> \o block) = 4
         /\ Contains(<<d>> \o block, a) /\ (<<d>> \o block)[1] = d
<1>1. PICK first : first = <<d>>
  OBVIOUS
<1>2. first \in Text /\ Len(first) = 1 /\ first[1] = d
  BY <1>1, OneLine
<1>3. first \o block \in Text /\ Len(first \o block) = Len(first) + Len(block)
      /\ \A i \in 1..Len(first) : (first \o block)[i] = first[i]
  BY <1>2, AppendedTo
<1>4. Contains(first \o block, a)
  BY <1>2, ContainsAppended
<1>5. 1 \in 1..Len(first) /\ Len(first \o block) = 4
  BY <1>2, <1>3
<1> QED BY <1>1, <1>2, <1>3, <1>4, <1>5

LEMMA CheckIs ==
  /\ Check \in Text /\ Len(Check) = 4 /\ Contains(Check, "begin") /\ Check[1] = "#!sh"
  /\ Block \in Text /\ Len(Block) = 3 /\ Contains(Block, "begin")
<1>1. "begin" \in STRING /\ "body" \in STRING /\ "end" \in STRING /\ "#!sh" \in STRING
  BY LiteralsAreTexts
<1>2. Block \in Text /\ Len(Block) = 3 /\ Contains(Block, "begin")
  BY <1>1, ThreeLines DEF Block
<1> QED BY <1>1, <1>2, LineThenBlock DEF Check

\* A hook that starts with the check has it and runs it first.
LEMMA CheckThen ==
  ASSUME NEW rest \in Text, NEW t, t = Check \o rest
  PROVE  /\ t \in Text /\ Lines(t) = t /\ t # <<>>
         /\ Contains(t, "begin") /\ ChecksFirst(t) /\ HookWithCheck(t) = None
<1>1. PICK check \in Text : check = Check
  BY CheckIs
<1>2. /\ t = check \o rest /\ t \in Text /\ Len(t) = 4 + Len(rest) /\ Len(rest) \in Nat
      /\ Len(check) = 4
      /\ \A i \in 1..4 : t[i] = check[i]
  <2>1. Len(check) = 4
    BY <1>1, CheckIs
  <2>2. t = check \o rest
    BY <1>1
  <2>3. /\ check \o rest \in Text /\ Len(check \o rest) = Len(check) + Len(rest)
        /\ \A i \in 1..Len(check) : (check \o rest)[i] = check[i]
    BY AppendedTo
  <2>4. Len(rest) \in Nat
    BY DEF Text
  <2> QED BY <2>1, <2>2, <2>3, <2>4
<1>3. Lines(t) = t
  BY <1>2, LinesAreText, MarksApart
<1>4. Contains(t, "begin")
  BY <1>1, <1>2, CheckIs, ContainsAppended
<1>5. t # <<>>
  BY <1>2
<1>6. SubSeq(t, 1, 4) = check
  BY <1>2 DEF Text
<1>7. ChecksFirst(t)
  BY <1>1, <1>6 DEF ChecksFirst, Check
<1> QED BY <1>2, <1>3, <1>4, <1>5, <1>7 DEF HookWithCheck

LEMMA HookedOnce ==
  ASSUME NEW h \in {Absent} \cup Text
  PROVE  \/ /\ HookWithCheck(h) = None
            /\ h \in Text /\ h # <<>>
            /\ Contains(h, "begin") \/ h[1] = "#!python"
         \/ \E rest \in Text :
               /\ HookWithCheck(h) = Check \o rest
               /\ Keeps(h, Check \o rest)
<1>1. CASE Lines(h) = <<>>
  <2>1. <<>> \in Text /\ Check \o <<>> = Check
    BY CheckIs DEF Text
  <2>2. HookWithCheck(h) = Check
    BY <1>1 DEF HookWithCheck, Check
  <2>3. <<>> \o Check = Check
    BY CheckIs DEF Text
  <2>4. Keeps(h, Check)
    BY <1>1, <2>3, CheckIs, KeepsBefore
  <2> QED BY <2>1, <2>2, <2>4
<1>2. CASE Lines(h) # <<>> /\ (Contains(h, "begin") \/ (Head(h) \in Shebangs /\ Head(h) = "#!python"))
  <2>1. h \in Text /\ h # <<>> /\ Head(h) = h[1]
    BY <1>2 DEF Lines, Text
  <2>2. HookWithCheck(h) = None
    BY <1>2 DEF HookWithCheck
  <2> QED BY <1>2, <2>1, <2>2
<1>3. CASE Lines(h) # <<>> /\ ~Contains(h, "begin") /\ Head(h) \notin Shebangs
  <2>1. h \in Text
    BY <1>3 DEF Lines
  <2>2. HookWithCheck(h) = Check \o h
    BY <1>3 DEF HookWithCheck, Check
  <2>3. Check \o h \in Text
    BY <2>1, CheckThen
  <2>4. Keeps(h, Check \o h)
    BY <2>1, <2>3, CheckIs, KeepsAfter
  <2> QED BY <2>1, <2>2, <2>4
<1>4. CASE Lines(h) # <<>> /\ ~Contains(h, "begin") /\ Head(h) \in Shebangs /\ Head(h) # "#!python"
  <2>1. h \in Text /\ h # <<>>
    BY <1>4 DEF Lines
  <2>2. Head(h) = "#!sh" /\ HookWithCheck(h) = <<Head(h)>> \o Block \o Tail(h)
    BY <1>4 DEF HookWithCheck, Shebangs
  <2>3. PICK rest \in Text : rest = Tail(h)
    <3>1. h \in Seq(STRING) /\ h # <<>>
      BY <2>1 DEF Text
    <3>2. Tail(h) \in Seq(STRING)
      BY <3>1
    <3> QED BY <3>2 DEF Text
  <2>4. HookWithCheck(h) = Check \o rest
    BY <2>2, <2>3 DEF Check
  <2>5. PICK t : t = Check \o rest
    OBVIOUS
  <2>6. /\ t \in Text /\ Lines(t) = t /\ Lines(h) = h
        /\ Len(t) = 4 + Len(rest) /\ t[1] = "#!sh"
        /\ \A i \in 1..Len(rest) : t[4 + i] = rest[i]
    <3>1. PICK check \in Text : check = Check
      BY CheckIs
    <3>4. Len(check) = 4
      BY <3>1, CheckIs
    <3>5. /\ Len(check \o rest) = Len(check) + Len(rest)
          /\ \A i \in 1..Len(check) : (check \o rest)[i] = check[i]
          /\ \A i \in 1..Len(rest) : (check \o rest)[Len(check) + i] = rest[i]
      BY AppendedTo
    <3>2. /\ Len(check \o rest) = 4 + Len(rest)
          /\ \A i \in 1..4 : (check \o rest)[i] = check[i]
          /\ \A i \in 1..Len(rest) : (check \o rest)[4 + i] = rest[i]
      BY <3>4, <3>5
    <3>3. t \in Text /\ Lines(t) = t
      BY <2>5, CheckThen
    <3> QED BY <1>4, <2>1, <2>5, <3>1, <3>2, <3>3, CheckIs, LinesAreText, MarksApart
  <2>7. /\ Len(h) \in Nat /\ Len(rest) = Len(h) - 1 /\ h[1] = "#!sh"
        /\ \A i \in 2..Len(h) : rest[i - 1] = h[i]
        /\ DOMAIN h = 1..Len(h) /\ DOMAIN t = 1..Len(t)
    BY <2>1, <2>2, <2>3, <2>6 DEF Text
  <2> DEFINE at == [i \in DOMAIN h |-> IF i = 1 THEN 1 ELSE 3 + i]
  <2>8. \A i \in 2..Len(h) : t[3 + i] = h[i]
    <3>1. ASSUME NEW i \in 2..Len(h) PROVE t[3 + i] = h[i]
      <4>1. i - 1 \in 1..Len(rest) /\ 4 + (i - 1) = 3 + i
        BY <2>7
      <4> QED BY <2>6, <2>7, <4>1
    <3> QED BY <3>1
  <2>9. at \in [DOMAIN h -> DOMAIN t] /\ Placed(at, h, t)
    BY <2>6, <2>7, <2>8 DEF Placed
  <2>10. Keeps(h, t)
    BY <2>6, <2>9 DEF Keeps
  <2> QED BY <2>4, <2>5, <2>10
<1> QED BY <1>1, <1>2, <1>3, <1>4

\* A hook that need not be written has the check or is nobody's to write; once
\* written it starts with it and need not be written again.
LEMMA HookedAgain ==
  ASSUME NEW h \in {Absent} \cup Text
  PROVE  /\ HookWithCheck(h) = None =>
               /\ h \in Text
               /\ Contains(h, "begin") \/ h[1] = "#!python"
         /\ HookWithCheck(h) # None =>
               /\ HookWithCheck(h) \in Text
               /\ ChecksFirst(HookWithCheck(h))
               /\ HookWithCheck(HookWithCheck(h)) = None
               /\ Keeps(h, HookWithCheck(h))
<1>1. \A rest \in Text : Check \o rest # None
  BY CheckThen, MarksApart
<1> QED BY <1>1, HookedOnce, CheckThen

----------------------------------------------------------------------------
(***************************************************************************)
(* The disk.                                                               *)
(***************************************************************************)
LEMMA DiskIs ==
  ASSUME NEW D, NEW d \in DiskOn(D)
  PROVE  /\ d.manifest \in {Absent, Broken} \cup Manifest
         /\ d.gitignore \in {Absent} \cup Text
         /\ d.hook \in {Absent} \cup Text
         /\ d.file \in [D -> {Absent, Foreign} \cup Values] /\ DOMAIN d.file = D
  BY DEF DiskOn

\* There is room on a disk with the same paths, whose manifest is the same or
\* names some of them.
LEMMA RoomLeft ==
  ASSUME NEW d, NEW e, NEW f, HasRoom(d, f), DOMAIN e.file = DOMAIN d.file,
         \/ e.manifest \in {d.manifest, Absent, Broken}
         \/ PathsIn(e.manifest.output) \subseteq DOMAIN d.file
  PROVE  HasRoom(e, f)
  BY DEF HasRoom

(***************************************************************************)
(* What is left to change: the first change, made, leaves the others to be *)
(* made and keeps what the developer wrote.                                *)
(***************************************************************************)
Rest(d, p, e) ==
    /\ e \in DiskOn(DOMAIN d.file) /\ e.file = d.file
    /\ ChangesTo(e, p) = Tail(ChangesTo(d, p))
    /\ e.manifest \in {d.manifest, ManifestOf(p)}
    /\ d.manifest # Absent => e.manifest = d.manifest
    /\ Keeps(d.gitignore, e.gitignore)
    /\ Keeps(d.hook, e.hook)
    /\ e.executable = d.executable
    /\ IF Head(ChangesTo(d, p)).target = "hook" THEN ChecksFirst(e.hook) ELSE e.hook = d.hook

\* Three lists of one change or none.
Listed(a, b, c) == Change("manifest", a) \o Change("gitignore", b) \o Change("hook", c)

LEMMA FirstOfThree ==
  ASSUME NEW a, NEW b, NEW c
  PROVE  /\ a # None =>
               /\ Head(Listed(a, b, c)) = [target |-> "manifest", text |-> a]
               /\ Tail(Listed(a, b, c)) = Listed(None, b, c)
         /\ a = None /\ b # None =>
               /\ Head(Listed(a, b, c)) = [target |-> "gitignore", text |-> b]
               /\ Tail(Listed(a, b, c)) = Listed(a, None, c)
         /\ a = None /\ b = None /\ c # None =>
               /\ Head(Listed(a, b, c)) = [target |-> "hook", text |-> c]
               /\ Tail(Listed(a, b, c)) = Listed(a, b, None)
         /\ Listed(a, b, c) = <<>> <=> a = None /\ b = None /\ c = None
  BY DEF Change, Listed

\* The manifest init would write, and the hook.
NewManifest(d, p) == IF d.manifest = Absent THEN ManifestOf(p) ELSE None
NewHook(d) == IF git = "plain" THEN HookWithCheck(d.hook) ELSE None

LEMMA ChangesAre ==
  ASSUME NEW d, NEW p
  PROVE  ChangesTo(d, p) = Listed(NewManifest(d, p), GitignoreWith(d.gitignore, p.outputs), NewHook(d))
  BY Zenon DEF ChangesTo, Listed, NewManifest, NewHook

LEMMA WrittenManifest ==
  ASSUME NEW p, p.outputs \in Seq(Output), p.port \in Port
  PROVE  ManifestOf(p) \in Manifest /\ ManifestOf(p).output = p.outputs
         /\ ManifestOf(p) # Absent /\ ManifestOf(p) # None
<1>0. PICK m : m = ManifestOf(p)
  OBVIOUS
<1>1. m = [command |-> None, port |-> p.port, background |-> <<>>, output |-> p.outputs]
  BY <1>0 DEF ManifestOf, NoManifest
<1>2. m \in Manifest /\ m.output = p.outputs
  BY <1>1 DEF Manifest
<1> QED BY <1>0, <1>2, MarksApart

LEMMA KeepsItself == ASSUME NEW t PROVE Keeps(t, t)
  BY DEF Keeps

\* What the first of the changes is.
LEMMA FirstChange ==
  ASSUME NEW d, d \in DiskOn(DOMAIN d.file), NEW p, p.outputs \in Seq(Output),
         p.port \in Port, ChangesTo(d, p) # <<>>
  PROVE  LET first == Head(ChangesTo(d, p))
         IN \/ /\ d.manifest = Absent
               /\ first.target = "manifest" /\ first.text = ManifestOf(p)
               /\ Tail(ChangesTo(d, p)) =
                     Listed(None, GitignoreWith(d.gitignore, p.outputs), NewHook(d))
            \/ /\ d.manifest # Absent /\ GitignoreWith(d.gitignore, p.outputs) # None
               /\ first.target = "gitignore" /\ first.text = GitignoreWith(d.gitignore, p.outputs)
               /\ Tail(ChangesTo(d, p)) = Listed(NewManifest(d, p), None, NewHook(d))
            \/ /\ d.manifest # Absent /\ GitignoreWith(d.gitignore, p.outputs) = None
               /\ git = "plain" /\ HookWithCheck(d.hook) # None
               /\ first.target = "hook" /\ first.text = HookWithCheck(d.hook)
               /\ Tail(ChangesTo(d, p)) =
                     Listed(NewManifest(d, p), GitignoreWith(d.gitignore, p.outputs), None)
<1>1. PICK a, b, c : /\ a = NewManifest(d, p)
                     /\ b = GitignoreWith(d.gitignore, p.outputs)
                     /\ c = NewHook(d)
  OBVIOUS
<1>2. ChangesTo(d, p) = Listed(a, b, c)
  BY <1>1, ChangesAre
<1>3. \A t, x : [target |-> t, text |-> x].target = t /\ [target |-> t, text |-> x].text = x
  OBVIOUS
<1>4. CASE a # None
  <2>1. d.manifest = Absent /\ a = ManifestOf(p)
    BY <1>1, <1>4 DEF NewManifest
  <2>2. Head(ChangesTo(d, p)) = [target |-> "manifest", text |-> a]
        /\ Tail(ChangesTo(d, p)) = Listed(None, b, c)
    BY <1>2, <1>4, FirstOfThree
  <2> QED BY <1>1, <1>3, <2>1, <2>2
<1>5. CASE a = None /\ b # None
  <2>1. d.manifest # Absent
    BY <1>1, <1>5, WrittenManifest DEF NewManifest
  <2>2. Head(ChangesTo(d, p)) = [target |-> "gitignore", text |-> b]
        /\ Tail(ChangesTo(d, p)) = Listed(a, None, c)
    BY <1>2, <1>5, FirstOfThree
  <2> QED BY <1>1, <1>3, <1>5, <2>1, <2>2
<1>6. CASE a = None /\ b = None
  <2>1. d.manifest # Absent
    BY <1>1, <1>6, WrittenManifest DEF NewManifest
  <2>2. c # None
    BY <1>2, <1>6, FirstOfThree
  <2>3. git = "plain" /\ c = HookWithCheck(d.hook)
    BY <1>1, <2>2 DEF NewHook
  <2>4. Head(ChangesTo(d, p)) = [target |-> "hook", text |-> c]
        /\ Tail(ChangesTo(d, p)) = Listed(a, b, None)
    BY <1>2, <1>6, <2>2, FirstOfThree
  <2> QED BY <1>1, <1>3, <1>6, <2>1, <2>2, <2>3, <2>4
<1> QED BY <1>4, <1>5, <1>6

LEMMA Advances ==
  ASSUME NEW d, d \in DiskOn(DOMAIN d.file), NEW p, p.outputs \in Seq(Output),
         p.port \in Port, ChangesTo(d, p) # <<>>
  PROVE  Rest(d, p, [d EXCEPT ![Head(ChangesTo(d, p)).target] = Head(ChangesTo(d, p)).text])
<1>1. PICK D : D = DOMAIN d.file
  OBVIOUS
<1>2. PICK first : first = Head(ChangesTo(d, p))
  OBVIOUS
<1>3. PICK e : e = [d EXCEPT ![first.target] = first.text]
  OBVIOUS
<1>4. PICK g : g = GitignoreWith(d.gitignore, p.outputs)
  OBVIOUS
<1>5. /\ d.manifest \in {Absent, Broken} \cup Manifest
      /\ d.gitignore \in {Absent} \cup Text /\ d.hook \in {Absent} \cup Text
  BY DiskIs
<1>6. ChangesTo(e, p) = Listed(NewManifest(e, p), GitignoreWith(e.gitignore, p.outputs), NewHook(e))
  BY ChangesAre
<1>7. Keeps(d.gitignore, d.gitignore) /\ Keeps(d.hook, d.hook)
  BY KeepsItself
<1>8. CASE /\ d.manifest = Absent
           /\ first.target = "manifest" /\ first.text = ManifestOf(p)
           /\ Tail(ChangesTo(d, p)) = Listed(None, g, NewHook(d))
  <2>1. ManifestOf(p) \in Manifest /\ ManifestOf(p) # Absent
    BY WrittenManifest
  <2>5. e = [d EXCEPT !["manifest"] = ManifestOf(p)] /\ d \in DiskOn(D)
    BY <1>1, <1>3, <1>8
  <2>2. /\ e \in DiskOn(D) /\ e.manifest = ManifestOf(p) /\ e.gitignore = d.gitignore
        /\ e.hook = d.hook /\ e.file = d.file /\ e.executable = d.executable
    BY <2>1, <2>5 DEF DiskOn
  <2>3. NewManifest(e, p) = None /\ NewHook(e) = NewHook(d)
    BY <2>1, <2>2 DEF NewManifest, NewHook
  <2>4. ChangesTo(e, p) = Tail(ChangesTo(d, p))
    BY <1>4, <1>6, <1>8, <2>2, <2>3
  <2> QED BY <1>1, <1>2, <1>3, <1>7, <1>8, <2>2, <2>4 DEF Rest
<1>9. CASE /\ d.manifest # Absent /\ g # None
           /\ first.target = "gitignore" /\ first.text = g
           /\ Tail(ChangesTo(d, p)) = Listed(NewManifest(d, p), None, NewHook(d))
  <2>6. GitignoreWith(d.gitignore, p.outputs) # None
    BY <1>4, <1>9
  <2>7. /\ GitignoreWith(d.gitignore, p.outputs) \in Text
        /\ GitignoreWith(GitignoreWith(d.gitignore, p.outputs), p.outputs) = None
        /\ Keeps(d.gitignore, GitignoreWith(d.gitignore, p.outputs))
    BY <1>5, <2>6, IgnoredAgain, Zenon
  <2>1. g \in Text /\ GitignoreWith(g, p.outputs) = None /\ Keeps(d.gitignore, g)
    BY <1>4, <2>7, Zenon
  <2>2. /\ e \in DiskOn(D) /\ e.manifest = d.manifest /\ e.gitignore = g
        /\ e.hook = d.hook /\ e.file = d.file /\ e.executable = d.executable
    <3>1. e = [d EXCEPT !["gitignore"] = g] /\ d \in DiskOn(D)
      BY <1>1, <1>3, <1>9
    <3> QED BY <2>1, <3>1 DEF DiskOn
  <2>3. NewManifest(e, p) = NewManifest(d, p) /\ NewHook(e) = NewHook(d)
    BY <2>2 DEF NewManifest, NewHook
  <2>4. ChangesTo(e, p) = Tail(ChangesTo(d, p))
    BY <1>6, <1>9, <2>1, <2>2, <2>3
  <2> QED BY <1>1, <1>2, <1>3, <1>7, <1>9, <2>1, <2>2, <2>4 DEF Rest
<1>10. CASE /\ d.manifest # Absent /\ g = None
            /\ git = "plain" /\ HookWithCheck(d.hook) # None
            /\ first.target = "hook" /\ first.text = HookWithCheck(d.hook)
            /\ Tail(ChangesTo(d, p)) = Listed(NewManifest(d, p), g, None)
  <2>1. PICK h : h = HookWithCheck(d.hook)
    OBVIOUS
  <2>2. h \in Text /\ HookWithCheck(h) = None /\ Keeps(d.hook, h) /\ ChecksFirst(h)
    BY <1>5, <1>10, <2>1, HookedAgain
  <2>3. /\ e \in DiskOn(D) /\ e.manifest = d.manifest /\ e.gitignore = d.gitignore
        /\ e.hook = h /\ e.file = d.file /\ e.executable = d.executable
    <3>1. e = [d EXCEPT !["hook"] = h] /\ d \in DiskOn(D)
      BY <1>1, <1>3, <1>10, <2>1
    <3> QED BY <2>2, <3>1 DEF DiskOn
  <2>4. NewManifest(e, p) = NewManifest(d, p) /\ NewHook(e) = None
    BY <2>2, <2>3 DEF NewManifest, NewHook
  <2>5. ChangesTo(e, p) = Tail(ChangesTo(d, p))
    BY <1>4, <1>6, <1>10, <2>3, <2>4
  <2> QED BY <1>1, <1>2, <1>3, <1>7, <1>10, <2>2, <2>3, <2>5 DEF Rest
<1> QED BY <1>2, <1>4, <1>8, <1>9, <1>10, FirstChange

\* With nothing left to change the manifest is written, every path ignored and
\* the hook settled.
LEMMA NothingLeft ==
  ASSUME NEW d, d \in DiskOn(DOMAIN d.file), NEW p, p.outputs \in Seq(Output),
         p.port \in Port, ChangesTo(d, p) = <<>>
  PROVE  /\ d.manifest # Absent
         /\ \A i \in 1..Len(p.outputs) : Contains(Lines(d.gitignore), p.outputs[i].path)
         /\ git = "plain" => /\ d.hook \in Text
                             /\ Contains(d.hook, "begin") \/ d.hook[1] = "#!python"
<1>1. /\ d.gitignore \in {Absent} \cup Text /\ d.hook \in {Absent} \cup Text
  BY DiskIs
<1>2. /\ NewManifest(d, p) = None /\ GitignoreWith(d.gitignore, p.outputs) = None
      /\ NewHook(d) = None
  BY ChangesAre, FirstOfThree
<1>3. d.manifest # Absent
  BY <1>2, WrittenManifest DEF NewManifest
<1>4. git = "plain" => HookWithCheck(d.hook) = None
  BY <1>2 DEF NewHook
<1> QED BY <1>1, <1>2, <1>3, <1>4, IgnoredAgain, HookedAgain

----------------------------------------------------------------------------
(***************************************************************************)
(* Why: until it applies its changes init only reads, and once it applies  *)
(* them nothing refuses any more.                                          *)
(***************************************************************************)
Untouched ==
    /\ pc \in {"plan", "own", "collect", "snapshot"} => disk = before
    /\ RefusalChangesNothing

LEMMA UntouchedInit == SetupInit => Untouched
  BY DEF SetupInit, Untouched, RefusalChangesNothing, Idle

\* The steps that decide.
LEMMA UntouchedDeciding ==
  ASSUME Untouched,
         \/ \E port \in Requested, dry \in BOOLEAN : Begin(port, dry)
         \/ Unreadable \/ DecidePlan \/ CheckOwnership \/ Collect \/ Snapshot
  PROVE  Untouched'
<1> USE DEF Untouched, RefusalChangesNothing, Idle, Over
<1>1. CASE \E port \in Requested, dry \in BOOLEAN : Begin(port, dry)
  BY <1>1 DEF Begin
<1>2. CASE Unreadable
  BY <1>2 DEF Unreadable
<1>3. CASE DecidePlan
  <2>1. UNCHANGED <<disk, before>> /\ disk = before
    BY <1>3 DEF DecidePlan
  <2> QED
    BY <2>1
<1>4. CASE CheckOwnership
  <2>1. UNCHANGED <<disk, before>> /\ disk = before
    BY <1>4 DEF CheckOwnership
  <2> QED
    BY <2>1
<1>5. CASE Collect
  BY <1>5 DEF Collect
<1>6. CASE Snapshot
  <2>1. UNCHANGED <<disk, before>> /\ disk = before
    BY <1>6 DEF Snapshot
  <2> QED
    BY <2>1
<1> QED
  BY <1>1, <1>2, <1>3, <1>4, <1>5, <1>6

\* The steps that write, and those that are broken off.
LEMMA UntouchedWriting ==
  ASSUME Untouched,
         Apply \/ MakeExecutable \/ WriteOutput \/ Finish \/ Breaks("failed") \/ Breaks("killed")
  PROVE  Untouched'
<1> USE DEF Untouched, RefusalChangesNothing, Idle, Over
<1>1. CASE Apply \/ MakeExecutable
  BY <1>1 DEF Apply, MakeExecutable
<1>2. CASE WriteOutput
  BY <1>2 DEF WriteOutput
<1>3. CASE Finish
  BY <1>3 DEF Finish
<1>4. ASSUME NEW how \in {"failed", "killed"}, Breaks(how) PROVE Untouched'
  BY <1>4 DEF Breaks
<1> QED
  BY <1>1, <1>2, <1>3, <1>4

\* The developer works between two runs, and is not refused anything.
LEMMA UntouchedWorld ==
  ASSUME Untouched, Rework \/ Clone \/ Take \/ Moves
  PROVE  Untouched'
<1> USE DEF Untouched, RefusalChangesNothing, Idle
<1>1. CASE Rework \/ Clone \/ Take
  <2>1. Edited
    BY <1>1 DEF Rework, Clone, Take
  <2> QED
    BY <2>1 DEF Edited
<1>2. CASE Moves
  BY <1>2 DEF Moves
<1> QED
  BY <1>1, <1>2

LEMMA UntouchedNext == Untouched /\ [SetupNext]_vars => Untouched'
<1>1. Untouched /\ UNCHANGED vars => Untouched'
  BY DEF Untouched, RefusalChangesNothing, Idle, vars
<1> QED
  BY <1>1, UntouchedDeciding, UntouchedWriting, UntouchedWorld DEF SetupNext, InitSteps

----------------------------------------------------------------------------
(***************************************************************************)
(* What a framework is told.  A flag is said by a script or by what is     *)
(* passed behind it, and neither swallows the other.                       *)
(***************************************************************************)
LEMMA SaidOnce ==
  ASSUME NEW tokens \in Seq(Token), NEW names,
         \A u, v \in Given(tokens, names) : u = v
  PROVE  /\ Flag(tokens, names) = None => Given(tokens, names) = {}
         /\ Flag(tokens, names) # None => Given(tokens, names) = {Flag(tokens, names)}
<1> DEFINE I == {i \in 1..Len(tokens) : tokens[i].word \in names}
<1>1. I \in SUBSET (1..Len(tokens)) /\ Len(tokens) \in Nat
  OBVIOUS
<1>2. Given(tokens, names) = {ValueAt(tokens, i) : i \in I}
  BY DEF Given
<1>3. CASE I = {}
  <2>1. SelectInSeq(tokens, LAMBDA token : token.word \in names) = 0
    BY <1>3 DEF SelectInSeq
  <2>2. Flag(tokens, names) = None
    BY <2>1 DEF Flag
  <2> QED BY <1>2, <1>3, <2>2
<1>4. CASE I # {}
  <2>1. Min(I) \in I
    BY <1>1, <1>4, FirstPosition
  <2>2. SelectInSeq(tokens, LAMBDA token : token.word \in names) = Min(I)
    BY <1>4 DEF SelectInSeq
  <2>3. Min(I) # 0 /\ Min(I) \in 1..Len(tokens)
    BY <2>1
  <2>4. Flag(tokens, names) = ValueAt(tokens, Min(I))
    BY <2>2, <2>3 DEF Flag
  <2>5. ValueAt(tokens, Min(I)) # None
    <3>1. \A i \in 1..Len(tokens) : tokens[i].word \in STRING
      <4>1. \A i \in 1..Len(tokens) : tokens[i] \in Token
        OBVIOUS
      <4> QED BY <4>1 DEF Token
    <3>2. "bare" \in STRING
      BY LiteralsAreTexts
    <3> QED BY <2>3, <3>1, <3>2, MarksAreNoData DEF ValueAt, Bare
  <2> HIDE DEF I
  <2>6. ValueAt(tokens, Min(I)) \in Given(tokens, names)
    BY <1>2, <2>1
  <2> QED BY <2>4, <2>5, <2>6
<1> QED BY <1>3, <1>4

\* The words of what is passed.
Words(f) == [i \in 1..Len(f) |-> Word(f[i])]

LEMMA WordsOf ==
  ASSUME NEW S, NEW f \in Seq(S)
  PROVE  /\ Words(f) \in Seq({Word(x) : x \in S})
         /\ Len(Words(f)) = Len(f) /\ Len(f) \in Nat
         /\ \A i \in 1..Len(f) : Words(f)[i] = Word(f[i]) /\ f[i] \in S
<1>1. Len(f) \in Nat /\ \A i \in 1..Len(f) : f[i] \in S
  OBVIOUS
<1>2. \A i \in 1..Len(f) : Word(f[i]) \in {Word(x) : x \in S}
  BY <1>1
<1>3. Words(f) \in [1..Len(f) -> {Word(x) : x \in S}]
  BY <1>2 DEF Words
<1> QED BY <1>1, <1>3 DEF Words

\* Behind a script come words that start with a dash, so that its last flag
\* takes none of them for a value.
LEMMA SaidByEither ==
  ASSUME NEW tokens \in Seq(Token), NEW S, NEW f \in Seq(S), f = <<>> \/ f[1] \in Dashed,
         NEW names
  PROVE  /\ Given(tokens \o Words(f), names) = Given(tokens, names) \cup Given(Words(f), names)
         /\ \A token : Contains(Words(f), token) => Contains(tokens \o Words(f), token)
<1> DEFINE T == Token \cup {Word(x) : x \in S}
<1>1. PICK w : w = Words(f)
  OBVIOUS
<1>2. PICK n, m : n = Len(tokens) /\ m = Len(f)
  OBVIOUS
<1>3. /\ n \in Nat /\ m \in Nat /\ Len(w) = m
      /\ \A i \in 1..m : w[i] = Word(f[i])
      /\ tokens \in Seq(T) /\ w \in Seq(T)
  <2>1. tokens \in Seq(T) /\ n \in Nat
    BY <1>2, SeqMonotonic
  <2>2. w \in Seq({Word(x) : x \in S}) /\ Len(w) = m /\ m \in Nat /\ \A i \in 1..m : w[i] = Word(f[i])
    BY <1>1, <1>2, WordsOf
  <2>3. w \in Seq(T)
    BY <2>2, SeqMonotonic
  <2> QED BY <2>1, <2>2, <2>3
<1>4. PICK all : all = tokens \o w
  OBVIOUS
<1> HIDE DEF T
<1>5. /\ Len(all) = n + m
      /\ \A i \in 1..n : all[i] = tokens[i]
      /\ \A i \in 1..m : all[n + i] = w[i]
  <2>1. /\ Len(all) = n + m
        /\ \A i \in 1..(n + m) : all[i] = IF i <= n THEN tokens[i] ELSE w[i - n]
    <3>1. /\ Len(tokens \o w) = Len(tokens) + Len(w)
          /\ \A i \in 1..Len(tokens) + Len(w) : (tokens \o w)[i] =
                  IF i <= Len(tokens) THEN tokens[i] ELSE w[i - Len(tokens)]
      BY <1>3, ConcatProperties, Zenon
    <3> QED BY <1>2, <1>3, <1>4, <3>1
  <2>2. \A i \in 1..n : i \in 1..(n + m) /\ i <= n
    BY <1>3
  <2>3. \A i \in 1..m : n + i \in 1..(n + m) /\ ~(n + i <= n) /\ (n + i) - n = i
    BY <1>3
  <2> QED BY <2>1, <2>2, <2>3
<1>6. m > 0 => all[n + 1].word \in Dashed
  <2> SUFFICES ASSUME m > 0 PROVE all[n + 1].word \in Dashed
    OBVIOUS
  <2>1. 1 \in 1..m /\ f # <<>>
    BY <1>2, <1>3
  <2>2. all[n + 1] = w[1] /\ w[1] = Word(f[1])
    BY <1>3, <1>5, <2>1
  <2> QED BY <2>1, <2>2 DEF Word
<1>7. \A i \in 1..n : ValueAt(all, i) = ValueAt(tokens, i)
  <2> TAKE i \in 1..n
  <2>1. all[i] = tokens[i] /\ (i < n => all[i + 1] = tokens[i + 1])
    BY <1>3, <1>5
  <2>2. i < n => i < Len(all) /\ i < Len(tokens)
    BY <1>2, <1>3, <1>5
  <2>3. i = n => ~(i < Len(tokens)) /\ (i < Len(all) => m > 0)
    BY <1>2, <1>3, <1>5
  <2>4. i < n \/ i = n
    BY <1>3
  <2>5. CASE i < n
    BY <2>1, <2>2, <2>5 DEF ValueAt
  <2>6. CASE i = n
    BY <2>1, <2>3, <2>6, <1>6 DEF ValueAt
  <2> QED BY <2>4, <2>5, <2>6
<1>8. \A i \in 1..m : ValueAt(all, n + i) = ValueAt(w, i)
  <2> TAKE i \in 1..m
  <2>1. all[n + i] = w[i] /\ (i < m => all[n + i + 1] = w[i + 1])
    <3>1. i < m => i + 1 \in 1..m /\ n + (i + 1) = n + i + 1
      BY <1>3
    <3> QED BY <1>5, <3>1
  <2>2. n + i < Len(all) <=> i < Len(w)
    BY <1>3, <1>5
  <2>3. n + i + 1 = (n + i) + 1 /\ (i < Len(w) <=> i < m)
    BY <1>3
  <2> QED BY <2>1, <2>2, <2>3 DEF ValueAt
<1>9. \A i \in 1..(n + m) : i \in 1..n \/ (i - n \in 1..m /\ i = n + (i - n))
  BY <1>3
<1>10. \A i \in 1..n : i \in 1..(n + m)
  BY <1>3
<1>11. \A i \in 1..m : n + i \in 1..(n + m)
  BY <1>3
<1>12. Given(all, names) \subseteq Given(tokens, names) \cup Given(w, names)
  <2> SUFFICES ASSUME NEW i \in 1..(n + m), all[i].word \in names
               PROVE  ValueAt(all, i) \in Given(tokens, names) \cup Given(w, names)
    BY <1>5 DEF Given
  <2>1. CASE i \in 1..n
    <3>1. tokens[i].word \in names /\ ValueAt(all, i) = ValueAt(tokens, i)
      BY <1>5, <1>7, <2>1
    <3> QED BY <1>2, <2>1, <3>1 DEF Given
  <2>2. CASE i - n \in 1..m /\ i = n + (i - n)
    <3>1. PICK j : j = i - n
      OBVIOUS
    <3>2. j \in 1..m /\ w[j].word \in names /\ ValueAt(all, i) = ValueAt(w, j)
      BY <1>5, <1>8, <2>2, <3>1
    <3> QED BY <1>3, <3>2 DEF Given
  <2> QED BY <1>9, <2>1, <2>2
<1>13. Given(tokens, names) \subseteq Given(all, names)
  <2> SUFFICES ASSUME NEW i \in 1..n, tokens[i].word \in names
               PROVE  ValueAt(tokens, i) \in Given(all, names)
    BY <1>2 DEF Given
  <2>1. i \in 1..Len(all) /\ all[i].word \in names /\ ValueAt(all, i) = ValueAt(tokens, i)
    BY <1>5, <1>7, <1>10
  <2> QED BY <2>1 DEF Given
<1>14. Given(w, names) \subseteq Given(all, names)
  <2> SUFFICES ASSUME NEW i \in 1..m, w[i].word \in names
               PROVE  ValueAt(w, i) \in Given(all, names)
    BY <1>3 DEF Given
  <2>1. PICK j : j = n + i
    OBVIOUS
  <2>2. j \in 1..Len(all) /\ all[j].word \in names /\ ValueAt(all, j) = ValueAt(w, i)
    BY <1>5, <1>8, <1>11, <2>1
  <2> QED BY <2>2 DEF Given
<1>15. ASSUME NEW token, Contains(w, token) PROVE Contains(all, token)
  <2>1. PICK i \in 1..m : w[i] = token
    BY <1>3, <1>15 DEF Contains
  <2>2. n + i \in 1..Len(all) /\ all[n + i] = token
    BY <1>5, <1>11, <2>1
  <2> QED BY <2>2 DEF Contains
<1> QED BY <1>1, <1>4, <1>12, <1>13, <1>14, <1>15

\* What a framework's own parser makes of plain words.
After(f, i) == IF i < Len(f) /\ f[i + 1] \notin Dashed THEN f[i + 1] ELSE Bare

Says(f, names) == {After(f, i) : i \in {j \in 1..Len(f) : f[j] \in names}}

LEMMA GivenInWords ==
  ASSUME NEW S, NEW f \in Seq(S), NEW names
  PROVE  Given(Words(f), names) = Says(f, names)
<1>1. PICK w : w = Words(f)
  OBVIOUS
<1>2. /\ Len(w) = Len(f) /\ Len(f) \in Nat
      /\ \A i \in 1..Len(f) : w[i].word = f[i] /\ w[i].value = None
  <2>1. Len(w) = Len(f) /\ Len(f) \in Nat /\ \A i \in 1..Len(f) : w[i] = Word(f[i])
    BY <1>1, WordsOf
  <2>2. \A x : Word(x).word = x /\ Word(x).value = None
    BY DEF Word
  <2> QED BY <2>1, <2>2
<1>3. \A i \in 1..Len(f) : ValueAt(w, i) = After(f, i)
  <2> TAKE i \in 1..Len(f)
  <2>1. w[i].value = None
    BY <1>2
  <2>2. i < Len(f) => w[i + 1].word = f[i + 1]
    <3>1. i < Len(f) => i + 1 \in 1..Len(f)
      BY <1>2
    <3> QED BY <1>2, <3>1
  <2> QED BY <1>2, <2>1, <2>2 DEF ValueAt, After
<1>4. \A i \in 1..Len(f) : w[i].word = f[i]
  BY <1>2
<1> QED BY <1>1, <1>2, <1>3, <1>4 DEF Given, Says

\* Flags without the first of them.
LEMMA PickedTail ==
  ASSUME NEW S, NEW f \in Seq(S), NEW m \in 1..(Len(f) + 1)
  PROVE  Picked(f, m..Len(f)) = SubSeq(f, m, Len(f))
<1>1. PICK n \in Nat : n = Len(f)
  OBVIOUS
<1>0. \A a, b \in Int : Cardinality(a..b) = IF a > b THEN 0 ELSE b - a + 1
  BY FS_Interval
<1>2. Cardinality(m..n) = n - m + 1
  <2>1. m \in Int /\ n \in Int /\ (m > n => n - m + 1 = 0)
    BY <1>1
  <2> QED BY <1>0, <2>1
<1>3. ASSUME NEW i \in m..n
      PROVE  Cardinality({j \in m..n : j <= i}) = i - m + 1
  <2>1. {j \in m..n : j <= i} = m..i
    OBVIOUS
  <2>2. m \in Int /\ i \in Int /\ ~(m > i)
    BY <1>1
  <2> QED BY <1>0, <2>1, <2>2
<1>4. \A k \in 1..(n - m + 1) : (CHOOSE i \in m..n : Cardinality({j \in m..n : j <= i}) = k) = k + m - 1
  <2> TAKE k \in 1..(n - m + 1)
  <2>1. k + m - 1 \in m..n /\ (k + m - 1) - m + 1 = k
    BY <1>1
  <2>2. \A i \in m..n : Cardinality({j \in m..n : j <= i}) = k <=> i = k + m - 1
    BY <1>1, <1>3
  <2> QED BY <2>1, <2>2
<1>5. Picked(f, m..n) = [k \in 1..(n - m + 1) |-> f[k + m - 1]]
  <2>1. Picked(f, m..n) = [k \in 1..Cardinality(m..n) |->
             f[CHOOSE i \in m..n : Cardinality({j \in m..n : j <= i}) = k]]
    BY DEF Picked
  <2> QED BY <1>2, <1>4, <2>1
<1>6. SubSeq(f, m, n) = [k \in 1..(n - m + 1) |-> f[k + m - 1]]
  OBVIOUS
<1> QED BY <1>1, <1>5, <1>6

\* The command line of a script passes all of the flags on.
LEMMA PassedOn ==
  ASSUME NEW S, NEW f \in Seq(S), NEW manager, NEW name
  PROVE  LET command == RunScript(manager, name, f)
         IN /\ command[3] = name
            /\ SubSeq(command, IF manager = "npm" THEN 5 ELSE 4, Len(command)) = f
<1> DEFINE U == S \cup {manager, name, "run", "--"}
           sep == IF manager = "npm" /\ f # <<>> THEN <<"--">> ELSE <<>>
<1>1. PICK a, b, c : a = <<manager, "run", name>> /\ b = sep /\ c = RunScript(manager, name, f)
  OBVIOUS
<1>2. a \in Seq(U) /\ Len(a) = 3 /\ a[3] = name
  <2>1. manager \in U /\ "run" \in U /\ name \in U
    OBVIOUS
  <2> HIDE DEF U
  <2>2. <<manager, "run", name>> \in Seq(U)
    BY <2>1, ThreeOf
  <2> QED BY <1>1, <2>2
<1>3. b \in Seq(U) /\ Len(b) = IF manager = "npm" /\ f # <<>> THEN 1 ELSE 0
  <2>1. "--" \in U
    OBVIOUS
  <2> HIDE DEF U
  <2>2. <<"--">> \in Seq(U) /\ Len(<<"--">>) = 1 /\ <<>> \in Seq(U) /\ Len(<<>>) = 0
    BY <2>1, OneOf, EmptySeq
  <2> QED BY <1>1, <2>2
<1>4. f \in Seq(U) /\ Len(f) \in Nat
  BY SeqMonotonic
<1>5. c = a \o b \o f
  BY <1>1 DEF RunScript
<1> HIDE DEF U, sep
<1>6. PICK d : d = a \o b
  OBVIOUS
<1> HIDE DEF U, sep
<1>0. ASSUME NEW s \in Seq(U), NEW t \in Seq(U)
      PROVE  /\ s \o t \in Seq(U) /\ Len(s \o t) = Len(s) + Len(t)
             /\ \A i \in 1..Len(s) : (s \o t)[i] = s[i]
             /\ \A i \in 1..Len(t) : (s \o t)[Len(s) + i] = t[i]
  OBVIOUS
<1>7. d \in Seq(U) /\ Len(d) = 3 + Len(b) /\ d[3] = name
  <2>1. 3 \in 1..Len(a)
    BY <1>2
  <2>2. a \o b \in Seq(U) /\ Len(a \o b) = Len(a) + Len(b) /\ (a \o b)[3] = a[3]
    BY <1>0, <1>2, <1>3, <2>1
  <2> QED BY <1>2, <1>6, <2>2
<1>8. c \in Seq(U) /\ Len(c) = Len(d) + Len(f) /\ c[3] = name
      /\ \A i \in 1..Len(f) : c[Len(d) + i] = f[i]
  <2>1. 3 \in 1..Len(d)
    BY <1>3, <1>7
  <2> QED BY <1>0, <1>4, <1>5, <1>6, <1>7, <2>1
<1>9. PICK k : k = IF manager = "npm" THEN 5 ELSE 4
  OBVIOUS
<1>10. CASE f = <<>>
  <2>1. Len(c) = 3 /\ k > 3 /\ k \in Int
    BY <1>3, <1>7, <1>8, <1>9, <1>10
  <2>2. SubSeq(c, k, Len(c)) = <<>>
    BY <2>1, SubSeqEmpty
  <2> QED BY <1>1, <1>8, <1>9, <1>10, <2>2
<1>11. CASE f # <<>>
  <2>1. k = Len(d) + 1 /\ Len(c) = Len(d) + Len(f) /\ Len(d) \in Nat
    BY <1>3, <1>7, <1>8, <1>9, <1>11
  <2>2. /\ SubSeq(c, k, Len(c)) \in Seq(U)
        /\ Len(SubSeq(c, k, Len(c))) = Len(f)
        /\ \A i \in 1..Len(f) : SubSeq(c, k, Len(c))[i] = f[i]
    BY <1>4, <1>8, <2>1
  <2> QED BY <1>1, <1>4, <1>8, <1>9, <2>2, SeqEqual
<1> QED BY <1>10, <1>11

\* Tuples one after another.
LEMMA TwoAndTwo ==
  ASSUME NEW p, NEW q, NEW r, NEW s
  PROVE  <<p, q>> \o <<r, s>> = <<p, q, r, s>>
<1>1. PICK U : U = {p, q, r, s}
  OBVIOUS
<1>2. <<p, q>> \in Seq(U) /\ <<r, s>> \in Seq(U) /\ <<p, q, r, s>> \in Seq(U)
  BY <1>1
<1>3. <<p, q>> \o <<r, s>> \in Seq(U) /\ Len(<<p, q>> \o <<r, s>>) = 4
  BY <1>2
<1>4. \A i \in 1..4 : (<<p, q>> \o <<r, s>>)[i] = <<p, q, r, s>>[i]
  BY <1>2
<1> QED BY <1>2, <1>3, <1>4, SeqEqual

LEMMA OneAndTwo ==
  ASSUME NEW p, NEW r, NEW s
  PROVE  <<p>> \o <<r, s>> = <<p, r, s>>
<1>1. PICK U : U = {p, r, s}
  OBVIOUS
<1>2. <<p>> \in Seq(U) /\ <<r, s>> \in Seq(U) /\ <<p, r, s>> \in Seq(U)
  BY <1>1
<1>3. <<p>> \o <<r, s>> \in Seq(U) /\ Len(<<p>> \o <<r, s>>) = 3
  BY <1>2
<1>4. \A i \in 1..3 : (<<p>> \o <<r, s>>)[i] = <<p, r, s>>[i]
  BY <1>2
<1> QED BY <1>2, <1>3, <1>4, SeqEqual

LEMMA AndOne ==
  ASSUME NEW p, NEW q, NEW r, NEW s, NEW t
  PROVE  /\ <<p, q>> \o <<t>> = <<p, q, t>>
         /\ <<p, q, r, s>> \o <<t>> = <<p, q, r, s, t>>
<1>1. PICK U : U = {p, q, r, s, t}
  OBVIOUS
<1>2. <<p, q>> \in Seq(U) /\ <<t>> \in Seq(U) /\ <<p, q, t>> \in Seq(U)
      /\ <<p, q, r, s>> \in Seq(U) /\ <<p, q, r, s, t>> \in Seq(U)
  BY <1>1
<1>3. <<p, q>> \o <<t>> \in Seq(U) /\ Len(<<p, q>> \o <<t>>) = 3
      /\ <<p, q, r, s>> \o <<t>> \in Seq(U) /\ Len(<<p, q, r, s>> \o <<t>>) = 5
  BY <1>2
<1>4. \A i \in 1..3 : (<<p, q>> \o <<t>>)[i] = <<p, q, t>>[i]
  BY <1>2
<1>5. \A i \in 1..5 : (<<p, q, r, s>> \o <<t>>)[i] = <<p, q, r, s, t>>[i]
  BY <1>2
<1>6. <<p, q>> \o <<t>> = <<p, q, t>>
  BY <1>2, <1>3, <1>4, SeqEqual
<1>7. <<p, q, r, s>> \o <<t>> = <<p, q, r, s, t>>
  BY <1>2, <1>3, <1>5, SeqEqual, Zenon
<1> QED BY <1>6, <1>7

LEMMA AndNone ==
  ASSUME NEW p, NEW q
  PROVE  <<p, q>> \o <<>> = <<p, q>> /\ <<p>> \o <<>> = <<p>>
  OBVIOUS

\* The flags, by the framework's family of them.
Plainly == {"Astro", "Nuxt", "Angular", "ReactNative"}
Strictly == {"Vite", "SvelteKit"}

LEMMA FlagsAre ==
  ASSUME NEW kind, NEW b, NEW x
  PROVE  /\ kind \in Strictly =>
              Flags(kind, b, x) = IF x = None THEN <<"--host", b, "--strictPort">>
                                  ELSE <<"--host", b, "--port", x, "--strictPort">>
         /\ kind = "Next" =>
              Flags(kind, b, x) = IF x = None THEN <<"-H", b>> ELSE <<"-H", b, "-p", x>>
         /\ kind = "Expo" =>
              Flags(kind, b, x) = IF x = None THEN <<"--lan">> ELSE <<"--lan", "--port", x>>
         /\ kind \in Plainly =>
              Flags(kind, b, x) = IF x = None THEN <<"--host", b>> ELSE <<"--host", b, "--port", x>>
<1> DEFINE at(flag) == IF x = None THEN <<>> ELSE <<flag, x>>
<1>1. CASE kind \in Strictly
  <2>1. Flags(kind, b, x) = <<"--host", b>> \o at("--port") \o <<"--strictPort">>
    BY <1>1 DEF Flags, Strictly
  <2>2. <<"--host", b>> \o at("--port") = IF x = None THEN <<"--host", b>> ELSE <<"--host", b, "--port", x>>
    BY TwoAndTwo, AndNone
  <2> HIDE DEF at
  <2>3. Flags(kind, b, x) = (IF x = None THEN <<"--host", b>> ELSE <<"--host", b, "--port", x>>)
                               \o <<"--strictPort">>
    BY <2>1, <2>2
  <2>4. kind \notin Plainly /\ kind # "Next" /\ kind # "Expo"
    BY <1>1 DEF Plainly, Strictly
  <2> QED BY <1>1, <2>3, <2>4, AndOne
<1>2. CASE kind = "Next"
  <2>1. Flags(kind, b, x) = <<"-H", b>> \o at("-p")
    BY <1>2 DEF Flags
  <2>2. kind \notin Plainly /\ kind \notin Strictly /\ kind # "Expo"
    BY <1>2 DEF Plainly, Strictly
  <2> QED BY <1>2, <2>1, <2>2, TwoAndTwo, AndNone
<1>3. CASE kind = "Expo"
  <2>1. Flags(kind, b, x) = <<"--lan">> \o at("--port")
    BY <1>3 DEF Flags
  <2>2. kind \notin Plainly /\ kind \notin Strictly /\ kind # "Next"
    BY <1>3 DEF Plainly, Strictly
  <2> QED BY <1>3, <2>1, <2>2, OneAndTwo, AndNone
<1>4. CASE kind \in Plainly
  <2>1. Flags(kind, b, x) = <<"--host", b>> \o at("--port")
    BY <1>4 DEF Flags, Plainly
  <2>2. kind # "Expo" /\ kind \notin Strictly /\ kind # "Next"
    BY <1>4 DEF Plainly, Strictly
  <2> QED BY <1>4, <2>1, <2>2, TwoAndTwo, AndNone
<1> QED BY <1>1, <1>2, <1>3, <1>4

LEMMA FlagsWithPort ==
  ASSUME NEW kind, NEW b, NEW x, x # None
  PROVE  /\ kind \in Strictly => Flags(kind, b, x) = <<"--host", b, "--port", x, "--strictPort">>
         /\ kind = "Next" => Flags(kind, b, x) = <<"-H", b, "-p", x>>
         /\ kind = "Expo" => Flags(kind, b, x) = <<"--lan", "--port", x>>
         /\ kind \in Plainly => Flags(kind, b, x) = <<"--host", b, "--port", x>>
  BY FlagsAre

LEMMA FlagNames ==
  ASSUME NEW kind \in DOMAIN Recipe
  PROVE  /\ kind \in Strictly \cup Plainly \cup {"Next", "Expo", "CreateReactApp"}
         /\ kind \in Strictly \cup Plainly =>
               Recipe[kind].port_flags = {"--port"} /\ Recipe[kind].host_flags = {"--host"}
         /\ kind = "Next" => /\ Recipe[kind].port_flags = {"-p", "--port"}
                             /\ Recipe[kind].host_flags = {"-H", "--hostname"}
         /\ kind = "Expo" => /\ Recipe[kind].port_flags = {"--port"}
                             /\ Recipe[kind].host_flags = {"--lan", "--host"}
         /\ kind = "CreateReactApp" => Recipe[kind].port_flags = {} /\ Recipe[kind].host_flags = {}
<1>1. kind \in Strictly \cup Plainly \cup {"Next", "Expo", "CreateReactApp"}
  BY DEF Recipe, Strictly, Plainly
<1>2. CASE kind \in Strictly \cup Plainly
  <2>1. Recipe[kind].port_flags = {"--port"} /\ Recipe[kind].host_flags = {"--host"}
    BY <1>2 DEF Recipe, RecipeOf, Vite, Strictly, Plainly
  <2> QED BY <1>1, <1>2, <2>1 DEF Strictly, Plainly
<1>3. CASE kind = "Next"
  <2>1. /\ Recipe["Next"].port_flags = {"-p", "--port"}
        /\ Recipe["Next"].host_flags = {"-H", "--hostname"}
    BY DEF Recipe, RecipeOf
  <2> QED BY <1>1, <1>3, <2>1 DEF Strictly, Plainly
<1>4. CASE kind = "Expo"
  <2>1. /\ Recipe["Expo"].port_flags = {"--port"}
        /\ Recipe["Expo"].host_flags = {"--lan", "--host"}
    BY DEF Recipe, RecipeOf
  <2> QED BY <1>1, <1>4, <2>1 DEF Strictly, Plainly
<1>5. CASE kind = "CreateReactApp"
  <2>1. Recipe["CreateReactApp"].port_flags = {} /\ Recipe["CreateReactApp"].host_flags = {}
    BY DEF Recipe, RecipeOf
  <2> QED BY <1>1, <1>5, <2>1 DEF Strictly, Plainly
<1> QED BY <1>1, <1>2, <1>3, <1>4, <1>5

\* StripFlag takes off the front of them.
LEMMA StrippedTo ==
  ASSUME NEW S, NEW f \in Seq(S), NEW names, NEW t \in Seq(S), NEW m \in 1..(Len(f) + 1),
         \A i \in 1..Len(f) :
            (f[i] \in names \/ (i > 1 /\ f[i - 1] \in names /\ f[i] \notin Dashed)) <=> i < m,
         Len(t) = Len(f) - m + 1, \A i \in 1..Len(t) : t[i] = f[m + i - 1]
  PROVE  StripFlag(f, names) = t
<1> DEFINE gone(i) == f[i] \in names \/ (i > 1 /\ f[i - 1] \in names /\ f[i] \notin Dashed)
<1>1. \A i \in 1..Len(f) : gone(i) <=> i < m
  OBVIOUS
<1>2. StripFlag(f, names) = Picked(f, {i \in 1..Len(f) : ~gone(i)})
  BY DEF StripFlag
<1> HIDE DEF gone
<1>3. {i \in 1..Len(f) : ~gone(i)} = m..Len(f)
  BY <1>1
<1>4. StripFlag(f, names) = SubSeq(f, m, Len(f))
  BY <1>2, <1>3, PickedTail
<1>5. /\ SubSeq(f, m, Len(f)) \in Seq(S) /\ Len(SubSeq(f, m, Len(f))) = Len(t)
      /\ \A i \in 1..Len(t) : SubSeq(f, m, Len(f))[i] = t[i]
  OBVIOUS
<1> QED BY <1>4, <1>5, SeqEqual

LEMMA Strips ==
  ASSUME NEW b, b \notin Dashed, NEW x, x \notin Dashed
  PROVE  /\ StripFlag(<<"--host", b, "--strictPort">>, {"--host"}) = <<"--strictPort">>
         /\ StripFlag(<<"--host", b, "--port", x, "--strictPort">>, {"--host"})
               = <<"--port", x, "--strictPort">>
         /\ StripFlag(<<"--host", b>>, {"--host"}) = <<>>
         /\ StripFlag(<<"--host", b, "--port", x>>, {"--host"}) = <<"--port", x>>
         /\ StripFlag(<<"-H", b>>, {"-H", "--hostname"}) = <<>>
         /\ StripFlag(<<"-H", b, "-p", x>>, {"-H", "--hostname"}) = <<"-p", x>>
         /\ StripFlag(<<"--lan">>, {"--lan", "--host"}) = <<>>
         /\ StripFlag(<<"--lan", "--port", x>>, {"--lan", "--host"}) = <<"--port", x>>
<1> DEFINE S == Dashed \cup {b, x}
           Gone(f, names, i) ==
              f[i] \in names \/ (i > 1 /\ f[i - 1] \in names /\ f[i] \notin Dashed)
           Fronted(f, names, m, t) ==
              /\ f \in Seq(S) /\ t \in Seq(S) /\ m \in 1..(Len(f) + 1)
              /\ \A i \in 1..Len(f) : Gone(f, names, i) <=> i < m
              /\ Len(t) = Len(f) - m + 1 /\ \A i \in 1..Len(t) : t[i] = f[m + i - 1]
<1>0. ASSUME NEW f, NEW names, NEW m, NEW t, Fronted(f, names, m, t) PROVE StripFlag(f, names) = t
  <2>1. f \in Seq(S) /\ t \in Seq(S) /\ m \in 1..(Len(f) + 1)
    BY <1>0
  <2>2. \A i \in 1..Len(f) :
           (f[i] \in names \/ (i > 1 /\ f[i - 1] \in names /\ f[i] \notin Dashed)) <=> i < m
    BY <1>0
  <2>3. Len(t) = Len(f) - m + 1 /\ \A i \in 1..Len(t) : t[i] = f[m + i - 1]
    BY <1>0
  <2> HIDE DEF S
  <2> QED BY <2>1, <2>2, <2>3, StrippedTo, SMTT(30)
<1>1. Fronted(<<"--host", b, "--strictPort">>, {"--host"}, 3, <<"--strictPort">>)
  BY DEF Dashed
<1>2. Fronted(<<"--host", b, "--port", x, "--strictPort">>, {"--host"}, 3, <<"--port", x, "--strictPort">>)
  BY DEF Dashed
<1>3. Fronted(<<"--host", b>>, {"--host"}, 3, <<>>)
  BY DEF Dashed
<1>4. Fronted(<<"--host", b, "--port", x>>, {"--host"}, 3, <<"--port", x>>)
  BY DEF Dashed
<1>5. Fronted(<<"-H", b>>, {"-H", "--hostname"}, 3, <<>>)
  BY DEF Dashed
<1>6. Fronted(<<"-H", b, "-p", x>>, {"-H", "--hostname"}, 3, <<"-p", x>>)
  BY DEF Dashed
<1>7. Fronted(<<"--lan">>, {"--lan", "--host"}, 2, <<>>)
  BY DEF Dashed
<1>8. Fronted(<<"--lan", "--port", x>>, {"--lan", "--host"}, 2, <<"--port", x>>)
  BY DEF Dashed
<1> HIDE DEF Fronted
<1> QED BY <1>0, <1>1, <1>2, <1>3, <1>4, <1>5, <1>6, <1>7, <1>8

\* The ports and the hosts it is told by words it knows.
Tells(f, port_flags, host_flags, ports, hosts, b, x) ==
    /\ f \in Seq(Dashed \cup {b, x}) /\ (f = <<>> \/ f[1] \in Dashed)
    /\ Says(f, port_flags) = ports
    /\ Says(f, host_flags) = hosts

LEMMA WordsTell ==
  ASSUME NEW b, b \notin Dashed, NEW x, x \notin Dashed
  PROVE  /\ Tells(<<"--host", b, "--port", x, "--strictPort">>, {"--port"}, {"--host"}, {x}, {b}, b, x)
         /\ Tells(<<"--host", b, "--strictPort">>, {"--port"}, {"--host"}, {}, {b}, b, x)
         /\ Tells(<<"--port", x, "--strictPort">>, {"--port"}, {"--host"}, {x}, {}, b, x)
         /\ Tells(<<"--strictPort">>, {"--port"}, {"--host"}, {}, {}, b, x)
         /\ Tells(<<"--host", b, "--port", x>>, {"--port"}, {"--host"}, {x}, {b}, b, x)
         /\ Tells(<<"--host", b>>, {"--port"}, {"--host"}, {}, {b}, b, x)
         /\ Tells(<<"--port", x>>, {"--port"}, {"--host"}, {x}, {}, b, x)
         /\ Tells(<<"-H", b, "-p", x>>, {"-p", "--port"}, {"-H", "--hostname"}, {x}, {b}, b, x)
         /\ Tells(<<"-H", b>>, {"-p", "--port"}, {"-H", "--hostname"}, {}, {b}, b, x)
         /\ Tells(<<"-p", x>>, {"-p", "--port"}, {"-H", "--hostname"}, {x}, {}, b, x)
         /\ Tells(<<"--lan", "--port", x>>, {"--port"}, {"--lan", "--host"}, {x}, {Bare}, b, x)
         /\ Tells(<<"--lan">>, {"--port"}, {"--lan", "--host"}, {}, {Bare}, b, x)
         /\ Tells(<<"--port", x>>, {"--port"}, {"--lan", "--host"}, {x}, {}, b, x)
         /\ \A port_flags, host_flags : Tells(<<>>, port_flags, host_flags, {}, {}, b, x)
<1> USE DEF Tells, Says, After, Dashed
<1>1. Tells(<<"--host", b, "--port", x, "--strictPort">>, {"--port"}, {"--host"}, {x}, {b}, b, x)
  OBVIOUS
<1>2. Tells(<<"--host", b, "--strictPort">>, {"--port"}, {"--host"}, {}, {b}, b, x)
  OBVIOUS
<1>3. Tells(<<"--port", x, "--strictPort">>, {"--port"}, {"--host"}, {x}, {}, b, x)
  OBVIOUS
<1>4. Tells(<<"--strictPort">>, {"--port"}, {"--host"}, {}, {}, b, x)
  OBVIOUS
<1>5. Tells(<<"--host", b, "--port", x>>, {"--port"}, {"--host"}, {x}, {b}, b, x)
  OBVIOUS
<1>6. Tells(<<"--host", b>>, {"--port"}, {"--host"}, {}, {b}, b, x)
  OBVIOUS
<1>7. Tells(<<"--port", x>>, {"--port"}, {"--host"}, {x}, {}, b, x)
  OBVIOUS
<1>8. Tells(<<"-H", b, "-p", x>>, {"-p", "--port"}, {"-H", "--hostname"}, {x}, {b}, b, x)
  OBVIOUS
<1>9. Tells(<<"-H", b>>, {"-p", "--port"}, {"-H", "--hostname"}, {}, {b}, b, x)
  OBVIOUS
<1>10. Tells(<<"-p", x>>, {"-p", "--port"}, {"-H", "--hostname"}, {x}, {}, b, x)
  OBVIOUS
<1>11. Tells(<<"--lan", "--port", x>>, {"--port"}, {"--lan", "--host"}, {x}, {Bare}, b, x)
  OBVIOUS
<1>12. Tells(<<"--lan">>, {"--port"}, {"--lan", "--host"}, {}, {Bare}, b, x)
  OBVIOUS
<1>13. Tells(<<"--port", x>>, {"--port"}, {"--lan", "--host"}, {x}, {}, b, x)
  OBVIOUS
<1>14. \A port_flags, host_flags : Tells(<<>>, port_flags, host_flags, {}, {}, b, x)
  OBVIOUS
<1> HIDE DEF Tells
<1> QED BY <1>1, <1>2, <1>3, <1>4, <1>5, <1>6, <1>7, <1>8, <1>9, <1>10, <1>11, <1>12, <1>13, <1>14

\* What a script is passed: its flags, less those for a host it has itself.
Passed(kind, host, b, x) ==
    IF host = None THEN Flags(kind, b, x)
    ELSE StripFlag(Flags(kind, b, x), Recipe[kind].host_flags)

\* It tells the port, unless the script does, and a host, unless the script does.
TellsWhere(kind, host, b, x) ==
    Tells(Passed(kind, host, b, x), Recipe[kind].port_flags, Recipe[kind].host_flags,
          IF x = None THEN {} ELSE {x},
          IF host # None THEN {} ELSE IF kind = "Expo" THEN {Bare} ELSE {b}, b, x)

LEMMA EitherTells ==
  ASSUME NEW kind, NEW host, NEW b, NEW x, NEW full, NEW less,
         NEW port_flags, NEW host_flags, NEW ports, NEW hosts,
         Recipe[kind].port_flags = port_flags, Recipe[kind].host_flags = host_flags,
         ports = (IF x = None THEN {} ELSE {x}),
         hosts = (IF kind = "Expo" THEN {Bare} ELSE {b}),
         Flags(kind, b, x) = full, StripFlag(full, host_flags) = less,
         Tells(full, port_flags, host_flags, ports, hosts, b, x),
         Tells(less, port_flags, host_flags, ports, {}, b, x)
  PROVE  TellsWhere(kind, host, b, x) /\ Passed(kind, host, b, x) \in {full, less}
<1>1. Passed(kind, host, b, x) = IF host = None THEN full ELSE less
  BY DEF Passed
<1> QED BY <1>1 DEF TellsWhere

LEMMA PassedTells ==
  ASSUME NEW kind \in DOMAIN Recipe \ {"CreateReactApp"}, NEW host,
         NEW b, b \notin Dashed, NEW x, x \notin Dashed
  PROVE  /\ TellsWhere(kind, host, b, x)
         /\ kind \in Strictly => Contains(Passed(kind, host, b, x), "--strictPort")
<1>1. kind \in Strictly \cup Plainly \cup {"Next", "Expo"}
  BY FlagNames
<1>2. CASE kind \in Strictly
  <2>1. /\ Recipe[kind].port_flags = {"--port"} /\ Recipe[kind].host_flags = {"--host"}
        /\ kind # "Expo"
    BY <1>2, FlagNames DEF Strictly, Plainly
  <2>2. CASE x = None
    <3>1. PICK full, less : full = <<"--host", b, "--strictPort">> /\ less = <<"--strictPort">>
      OBVIOUS
    <3>2. Flags(kind, b, x) = full
      BY <1>2, <2>2, <3>1, FlagsAre, ZenonT(30)
    <3>3. StripFlag(full, {"--host"}) = less
      BY <3>1, Strips, Zenon
    <3>4. /\ Tells(full, {"--port"}, {"--host"}, {}, {b}, b, x)
          /\ Tells(less, {"--port"}, {"--host"}, {}, {}, b, x)
      BY <3>1, WordsTell, Zenon
    <3>5. Contains(full, "--strictPort") /\ Contains(less, "--strictPort")
      BY <3>1 DEF Contains
    <3>6. TellsWhere(kind, host, b, x) /\ Passed(kind, host, b, x) \in {full, less}
      BY <2>1, <2>2, <3>2, <3>3, <3>4, EitherTells
    <3> QED BY <3>5, <3>6
  <2>3. CASE x # None
    <3>1. PICK full, less : full = <<"--host", b, "--port", x, "--strictPort">> /\ less = <<"--port", x, "--strictPort">>
      OBVIOUS
    <3>2. Flags(kind, b, x) = full
      BY <1>2, <2>3, <3>1, FlagsWithPort, Zenon
    <3>3. StripFlag(full, {"--host"}) = less
      BY <3>1, Strips, Zenon
    <3>4. /\ Tells(full, {"--port"}, {"--host"}, {x}, {b}, b, x)
          /\ Tells(less, {"--port"}, {"--host"}, {x}, {}, b, x)
      BY <3>1, WordsTell, Zenon
    <3>5. Contains(full, "--strictPort") /\ Contains(less, "--strictPort")
      BY <3>1 DEF Contains
    <3>6. TellsWhere(kind, host, b, x) /\ Passed(kind, host, b, x) \in {full, less}
      BY <2>1, <2>3, <3>2, <3>3, <3>4, EitherTells
    <3> QED BY <3>5, <3>6
  <2> QED BY <2>2, <2>3
<1>3. CASE kind = "Next"
  <2>1. /\ Recipe[kind].port_flags = {"-p", "--port"} /\ Recipe[kind].host_flags = {"-H", "--hostname"}
        /\ kind # "Expo"
    BY <1>3, FlagNames DEF Strictly, Plainly
  <2>2. CASE x = None
    <3>1. PICK full, less : full = <<"-H", b>> /\ less = <<>>
      OBVIOUS
    <3>2. Flags(kind, b, x) = full
      BY <1>3, <2>2, <3>1, FlagsAre, Zenon
    <3>3. StripFlag(full, {"-H", "--hostname"}) = less
      BY <3>1, Strips, Zenon
    <3>4. /\ Tells(full, {"-p", "--port"}, {"-H", "--hostname"}, {}, {b}, b, x)
          /\ Tells(less, {"-p", "--port"}, {"-H", "--hostname"}, {}, {}, b, x)
      BY <3>1, WordsTell, Zenon
    <3> QED BY <1>3, <2>1, <2>2, <3>2, <3>3, <3>4, EitherTells DEF Strictly
  <2>3. CASE x # None
    <3>1. PICK full, less : full = <<"-H", b, "-p", x>> /\ less = <<"-p", x>>
      OBVIOUS
    <3>2. Flags(kind, b, x) = full
      <4>1. Flags(kind, b, x) = <<"-H", b, "-p", x>>
        BY <1>3, <2>3, FlagsWithPort, SMT
      <4> QED BY <3>1, <4>1
    <3>3. StripFlag(full, {"-H", "--hostname"}) = less
      BY <3>1, Strips, Zenon
    <3>4. /\ Tells(full, {"-p", "--port"}, {"-H", "--hostname"}, {x}, {b}, b, x)
          /\ Tells(less, {"-p", "--port"}, {"-H", "--hostname"}, {x}, {}, b, x)
      BY <3>1, WordsTell, Zenon
    <3> QED BY <1>3, <2>1, <2>3, <3>2, <3>3, <3>4, EitherTells DEF Strictly
  <2> QED BY <2>2, <2>3
<1>4. CASE kind = "Expo"
  <2>1. /\ Recipe[kind].port_flags = {"--port"} /\ Recipe[kind].host_flags = {"--lan", "--host"}
        /\ kind = "Expo"
    BY <1>4, FlagNames DEF Strictly, Plainly
  <2>2. CASE x = None
    <3>1. PICK full, less : full = <<"--lan">> /\ less = <<>>
      OBVIOUS
    <3>2. Flags(kind, b, x) = full
      BY <1>4, <2>2, <3>1, FlagsAre, Zenon
    <3>3. StripFlag(full, {"--lan", "--host"}) = less
      BY <3>1, Strips, Zenon
    <3>4. /\ Tells(full, {"--port"}, {"--lan", "--host"}, {}, {Bare}, b, x)
          /\ Tells(less, {"--port"}, {"--lan", "--host"}, {}, {}, b, x)
      BY <3>1, WordsTell, Zenon
    <3> QED BY <1>4, <2>1, <2>2, <3>2, <3>3, <3>4, EitherTells DEF Strictly
  <2>3. CASE x # None
    <3>1. PICK full, less : full = <<"--lan", "--port", x>> /\ less = <<"--port", x>>
      OBVIOUS
    <3>2. Flags(kind, b, x) = full
      BY <1>4, <2>3, <3>1, FlagsWithPort, Zenon
    <3>3. StripFlag(full, {"--lan", "--host"}) = less
      BY <3>1, Strips, Zenon
    <3>4. /\ Tells(full, {"--port"}, {"--lan", "--host"}, {x}, {Bare}, b, x)
          /\ Tells(less, {"--port"}, {"--lan", "--host"}, {x}, {}, b, x)
      BY <3>1, WordsTell, Zenon
    <3> QED BY <1>4, <2>1, <2>3, <3>2, <3>3, <3>4, EitherTells DEF Strictly
  <2> QED BY <2>2, <2>3
<1>5. CASE kind \in Plainly
  <2>1. /\ Recipe[kind].port_flags = {"--port"} /\ Recipe[kind].host_flags = {"--host"}
        /\ kind # "Expo"
    BY <1>5, FlagNames DEF Strictly, Plainly
  <2>2. CASE x = None
    <3>1. PICK full, less : full = <<"--host", b>> /\ less = <<>>
      OBVIOUS
    <3>2. Flags(kind, b, x) = full
      BY <1>5, <2>2, <3>1, FlagsAre, Zenon
    <3>3. StripFlag(full, {"--host"}) = less
      BY <3>1, Strips, Zenon
    <3>4. /\ Tells(full, {"--port"}, {"--host"}, {}, {b}, b, x)
          /\ Tells(less, {"--port"}, {"--host"}, {}, {}, b, x)
      BY <3>1, WordsTell, Zenon
    <3> QED BY <1>5, <2>1, <2>2, <3>2, <3>3, <3>4, EitherTells DEF Strictly, Plainly
  <2>3. CASE x # None
    <3>1. PICK full, less : full = <<"--host", b, "--port", x>> /\ less = <<"--port", x>>
      OBVIOUS
    <3>2. Flags(kind, b, x) = full
      BY <1>5, <2>3, <3>1, FlagsWithPort, Zenon
    <3>3. StripFlag(full, {"--host"}) = less
      BY <3>1, Strips, Zenon
    <3>4. /\ Tells(full, {"--port"}, {"--host"}, {x}, {b}, b, x)
          /\ Tells(less, {"--port"}, {"--host"}, {x}, {}, b, x)
      BY <3>1, WordsTell, Zenon
    <3> QED BY <1>5, <2>1, <2>3, <3>2, <3>3, <3>4, EitherTells DEF Strictly, Plainly
  <2> QED BY <2>2, <2>3
<1> QED BY <1>1, <1>2, <1>3, <1>4, <1>5

\* The script that is found is one of the package's, and its program is known.
LEMMA FoundScript ==
  ASSUME NEW package, NEW programs, FindScript(package, programs) # None
  PROVE  LET name == FindScript(package, programs)
         IN /\ name \in DOMAIN package.scripts
            /\ package.scripts[name] # Shell /\ Tokenize(package.scripts[name]) # None
<1> DEFINE Known(name) == /\ name \in DOMAIN package.scripts
                          /\ Runs(Tokenize(package.scripts[name]), programs)
           pairs == [i \in 1..3 |-> LET name == <<"dev", "start", "serve">>[i]
                                    IN <<Known(name), name>>]
           I == {i \in 1..Len(pairs) : pairs[i][1]}
<1>1. FindScript(package, programs) = FirstHolding(pairs)
  BY Zenon DEF FindScript
<1>2. DOMAIN pairs = 1..3 /\ Len(pairs) = 3
  OBVIOUS
<1>3. \A i \in 1..3 : pairs[i] = <<Known(<<"dev", "start", "serve">>[i]), <<"dev", "start", "serve">>[i]>>
  OBVIOUS
<1>4. I # {}
  <2> SUFFICES ASSUME I = {} PROVE FALSE
    OBVIOUS
  <2>1. SelectInSeq(pairs, LAMBDA pair : pair[1]) = 0
    BY DEF SelectInSeq
  <2> HIDE DEF pairs
  <2> QED BY <1>1, <2>1 DEF FirstHolding
<1>5. I \in SUBSET (1..3)
  BY <1>2
<1>6. Min(I) \in I
  BY <1>4, <1>5, FirstPosition
<1>7. SelectInSeq(pairs, LAMBDA pair : pair[1]) = Min(I)
  BY <1>4 DEF SelectInSeq
<1> HIDE DEF pairs
<1>8. PICK i \in 1..3 : i = Min(I) /\ pairs[i][1]
  BY <1>5, <1>6
<1>9. FirstHolding(pairs) = pairs[i][2]
  <2>1. i # 0
    OBVIOUS
  <2> QED BY <1>7, <1>8, <2>1 DEF FirstHolding
<1>10. PICK name : name = <<"dev", "start", "serve">>[i]
  OBVIOUS
<1> HIDE DEF Known
<1>11. pairs[i] = <<Known(name), name>>
  BY <1>3, <1>10
<1>12. Known(name) /\ FirstHolding(pairs) = name
  <2>1. pairs[i][2] = name
    BY <1>11
  <2>2. pairs[i][1] = Known(name)
    BY <1>11
  <2> QED BY <1>8, <1>9, <2>1, <2>2, Zenon
<1>13. name \in DOMAIN package.scripts /\ Tokenize(package.scripts[name]) # None
  BY <1>12 DEF Known, Runs
<1>14. package.scripts[name] # Shell
  BY <1>13 DEF Tokenize
<1> QED BY <1>1, <1>12, <1>13, <1>14

LEMMA TokensTyped ==
  ASSUME NEW script \in Seq(Token), script # Shell, Tokenize(script) # None
  PROVE  Tokenize(script) \in Seq(Token)
<1> DEFINE I == {i \in 1..Len(script) : ~(IsAssignment(script[i]) \/ script[i] = Word("cross-env"))}
<1>1. Tokenize(script) = From(script, Program(script)) /\ Program(script) # 0
  BY DEF Tokenize, From
<1>2. I \in SUBSET (1..Len(script)) /\ Len(script) \in Nat
  OBVIOUS
<1>3. I # {} /\ Program(script) = Min(I)
  BY <1>1 DEF Program, SelectInSeq
<1>4. Min(I) \in 1..Len(script)
  BY <1>2, <1>3, FirstPosition
<1>5. PICK i \in 1..Len(script) : i = Program(script)
  BY <1>3, <1>4
<1>6. Tokenize(script) = SubSeq(script, i, Len(script))
  BY <1>1, <1>5 DEF From
<1>7. SubSeq(script, i, Len(script)) \in Seq(Token)
  BY <1>2
<1> QED BY <1>6, <1>7

\* What is agreed to: the port, and what the script is passed.
LEMMA AgreedTo ==
  ASSUME NEW kind, NEW manager, NEW name, NEW fixed, NEW host, NEW w, NEW b,
         ~IsRefused(Agreed(kind, manager, name, fixed, host, w, b))
  PROVE  LET r == Agreed(kind, manager, name, fixed, host, w, b)
         IN /\ r.port = Or(w, Or(fixed, Recipe[kind].default_port))
            /\ fixed # None /\ w # None => fixed = w
            /\ host # None => IsWildcard(host)
            /\ r.command = RunScript(manager, name,
                              Passed(kind, host, b, IF fixed = None THEN r.port ELSE None))
<1>1. \A why : IsRefused(Refused(why))
  BY DEF IsRefused, Refused
<1>2. ~(fixed # None /\ w # None /\ fixed # w) /\ ~(host # None /\ ~IsWildcard(host))
  BY <1>1 DEF Agreed
<1>3. PICK port : port = Or(w, Or(fixed, Recipe[kind].default_port))
  OBVIOUS
<1>4. PICK x : x = IF fixed = None THEN port ELSE None
  OBVIOUS
<1>5. Agreed(kind, manager, name, fixed, host, w, b) =
         Launching(RunScript(manager, name, Passed(kind, host, b, x)), port, TRUE)
  BY <1>2, <1>3, <1>4, Zenon DEF Agreed, Passed
<1>6. \A line, y : Launching(line, y, TRUE).command = line /\ Launching(line, y, TRUE).port = y
  BY DEF Launching
<1>7. PICK r : r = Agreed(kind, manager, name, fixed, host, w, b)
  OBVIOUS
<1>8. r.port = port /\ r.command = RunScript(manager, name, Passed(kind, host, b, x))
  BY <1>5, <1>6, <1>7
<1>9. x = IF fixed = None THEN r.port ELSE None
  BY <1>4, <1>8
<1> QED BY <1>2, <1>3, <1>7, <1>8, <1>9, Zenon

\* It listens where it is said to.
Listens(f, p, b) ==
    /\ PortsOf(f, p) = {p.port}
    /\ \A host \in HostsOf(f, p, b) : IsWildcard(host)

AllAlike(given) == \A u, v \in given : u = v

\* A script is told the planned port, or has it, and any host, or has that.
LEMMA FlaggedListens ==
  ASSUME NEW kind \in DOMAIN Recipe \ {"CreateReactApp"}, NEW f, NEW p,
         NEW w \in Port, NEW b, b \notin Dashed, IsWildcard(b), NEW name, NEW tokens \in Seq(Token),
         tokens = Tokenize(f.package.scripts[name]),
         p.kind = kind, p.env = EnvFor(kind),
         AllAlike(Given(tokens, Recipe[kind].port_flags)),
         Given(tokens, Recipe[kind].port_flags) \subseteq PortTexts,
         AllAlike(Given(tokens, Recipe[kind].host_flags)),
         NEW r, r = WithTokens(kind, f.manager, name, tokens, w, b), ~IsRefused(r),
         p.command = r.command, p.port = r.port, p.port # "0"
  PROVE  Listens(f, p, b)
<1>1. PICK pf, hf, default : /\ pf = Recipe[kind].port_flags /\ hf = Recipe[kind].host_flags
                             /\ default = Recipe[kind].default_port
  OBVIOUS
<1>2. PICK given, host : given = Flag(tokens, pf) /\ host = Flag(tokens, hf)
  OBVIOUS
<1>3. PICK fixed : fixed = NumberIn(given)
  OBVIOUS
<1>4. r = Agreed(kind, f.manager, name, fixed, host, w, b)
  BY <1>1, <1>2, <1>3 DEF WithTokens
<1>5. PICK x : x = IF fixed = None THEN p.port ELSE None
  OBVIOUS
<1>6. PICK flags : flags = Passed(kind, host, b, x)
  OBVIOUS
<1>7. /\ p.port = Or(w, Or(fixed, default))
      /\ fixed # None /\ w # None => fixed = w
      /\ host # None => IsWildcard(host)
      /\ p.command = RunScript(f.manager, name, flags)
  <2>1. /\ r.port = Or(w, Or(fixed, Recipe[kind].default_port))
        /\ fixed # None /\ w # None => fixed = w
        /\ host # None => IsWildcard(host)
        /\ r.command = RunScript(f.manager, name,
                          Passed(kind, host, b, IF fixed = None THEN r.port ELSE None))
    BY <1>4, AgreedTo
  <2>2. (IF fixed = None THEN r.port ELSE None) = x
    BY <1>5
  <2> QED BY <1>1, <1>6, <2>1, <2>2
<1>8. None \notin PortTexts /\ None \notin Dashed /\ PortTexts \cap Dashed = {} /\ default \in PortTexts
  <2>1. None \notin PortTexts /\ PortTexts \cap Dashed = {}
    BY PortTextsAreTexts, MarksAreNoData
  <2>2. None \notin Dashed
    BY LiteralsAreTexts, MarksAreNoData
  <2>3. default \in {"3000", "4200", "4321", "5173", "8081"}
    BY <1>1 DEF Recipe, RecipeOf, Vite
  <2> QED BY <2>1, <2>2, <2>3, NumbersArePorts
<1>9. /\ given = None => Given(tokens, pf) = {} /\ fixed = None
      /\ given # None => Given(tokens, pf) = {given} /\ fixed = given /\ given \in PortTexts
  <2>1. /\ given = None => Given(tokens, pf) = {}
        /\ given # None => Given(tokens, pf) = {given}
    BY <1>1, <1>2, SaidOnce DEF AllAlike
  <2>2. given # None => given \in PortTexts
    BY <1>1, <2>1
  <2> QED BY <1>3, <1>8, <2>1, <2>2 DEF NumberIn
<1>10. /\ host = None => Given(tokens, hf) = {}
       /\ host # None => Given(tokens, hf) = {host}
  BY <1>1, <1>2, SaidOnce DEF AllAlike
<1>11. p.port \in PortTexts /\ x \notin Dashed
  BY <1>5, <1>7, <1>8, <1>9 DEF Or, Port
<1>12. /\ Tells(flags, pf, hf, IF x = None THEN {} ELSE {x},
                IF host # None THEN {} ELSE IF kind = "Expo" THEN {Bare} ELSE {b}, b, x)
       /\ kind \in Strictly => Contains(flags, "--strictPort")
  BY <1>1, <1>6, <1>11, PassedTells DEF TellsWhere
<1>13. PICK S : S = Dashed \cup {b, x}
  OBVIOUS
<1>14. flags \in Seq(S) /\ (flags = <<>> \/ flags[1] \in Dashed)
  BY <1>12, <1>13 DEF Tells
<1>15. /\ Given(Words(flags), pf) = IF x = None THEN {} ELSE {x}
       /\ Given(Words(flags), hf) = IF host # None THEN {} ELSE IF kind = "Expo" THEN {Bare} ELSE {b}
  <2>1. \A names : Given(Words(flags), names) = Says(flags, names)
    BY <1>14, GivenInWords
  <2> QED BY <1>12, <2>1 DEF Tells
<1>16. PICK arguments : arguments = tokens \o Words(flags)
  OBVIOUS
<1>17. Arguments(f, p) = arguments
  <2>1. PICK passed : passed = SubSeq(p.command, IF f.manager = "npm" THEN 5 ELSE 4, Len(p.command))
    OBVIOUS
  <2>2. p.command[3] = name /\ passed = flags
    BY <1>7, <1>14, <2>1, PassedOn
  <2>3. Arguments(f, p) = Tokenize(f.package.scripts[p.command[3]]) \o Words(passed)
    BY <2>1 DEF Arguments, Words
  <2> QED BY <1>16, <2>2, <2>3
<1>18. \A names : Given(arguments, names) = Given(tokens, names) \cup Given(Words(flags), names)
  BY <1>14, <1>16, SaidByEither
<1>19. kind \in Strictly => Contains(arguments, Word("--strictPort"))
  <2> SUFFICES ASSUME kind \in Strictly PROVE Contains(arguments, Word("--strictPort"))
    OBVIOUS
  <2>1. PICK i \in 1..Len(flags) : flags[i] = "--strictPort"
    BY <1>12 DEF Contains
  <2>2. Len(Words(flags)) = Len(flags) /\ Words(flags)[i] = Word("--strictPort")
    <3>1. \A j \in 1..Len(flags) : Words(flags)[j] = Word(flags[j])
      BY DEF Words
    <3>2. Len(Words(flags)) = Len(flags)
      BY <1>14, WordsOf
    <3> QED BY <2>1, <3>1, <3>2
  <2>3. Contains(Words(flags), Word("--strictPort"))
    BY <2>1, <2>2 DEF Contains
  <2> QED BY <1>14, <1>16, <2>3, SaidByEither
<1>20. "PORT" \notin DOMAIN p.env /\ "HOST" \notin DOMAIN p.env
  <2>1. \/ EnvFor(kind) = [REACT_NATIVE_PACKAGER_HOSTNAME |-> "Ip"]
        \/ EnvFor(kind) = [TAURI_DEV_HOST |-> "Ip"]
        \/ EnvFor(kind) = [y \in {} |-> y]
    BY DEF EnvFor
  <2> QED BY <2>1
<1>21. Given(arguments, pf) = {p.port}
  <2>1. CASE given = None
    BY <1>5, <1>8, <1>9, <1>11, <1>15, <1>18, <2>1
  <2>2. CASE given # None
    <3>1. x = None /\ p.port = given
      BY <1>5, <1>7, <1>8, <1>9, <2>2 DEF Or
    <3> QED BY <1>9, <1>15, <1>18, <2>2, <3>1
  <2> QED BY <2>1, <2>2
<1>22. PortsOf(f, p) = {p.port}
  <2>1. OrElse(Given(arguments, pf), default) = {p.port}
    BY <1>21 DEF OrElse
  <2>2. Listening(p.port) = p.port
    BY DEF Listening
  <2>3. ~(p.kind \in {"Vite", "SvelteKit"} /\ ~Contains(arguments, Word("--strictPort")))
    BY <1>19 DEF Strictly
  <2>4. PortsOf(f, p) = {Listening(port) : port \in OrElse(Given(arguments, pf), default)}
                          \cup (IF p.kind \in {"Vite", "SvelteKit"}
                                     /\ ~Contains(arguments, Word("--strictPort"))
                                  THEN {"another"} ELSE {})
    BY <1>1, <1>17, <1>20, Zenon DEF PortsOf
  <2> QED BY <2>1, <2>2, <2>3, <2>4
<1>23. HostsOf(f, p, b) = OrElse(Given(arguments, hf), "localhost")
  BY <1>1, <1>17, <1>20, Zenon DEF HostsOf
<1>24. \A other \in Given(arguments, hf) : IsWildcard(other)
  <2>1. IsWildcard(Bare)
    BY DEF IsWildcard
  <2> QED BY <1>7, <1>10, <1>15, <1>18, <2>1
<1>25. Given(arguments, hf) # {}
  BY <1>10, <1>15, <1>18
<1> QED BY <1>22, <1>23, <1>24, <1>25 DEF Listens, OrElse

\* A server without flags finds the port and the host in its environment.
LEMMA UnflaggedListens ==
  ASSUME NEW f, NEW p, NEW w, NEW b, IsWildcard(b), NEW name, NEW script \in Seq(Token),
         script = f.package.scripts[name],
         p.kind = "CreateReactApp", p.env = EnvFor(p.kind),
         \A i \in 1..(Program(script) - 1) : script[i].word \notin DOMAIN EnvFor(p.kind),
         NEW r, r = WithTokens(p.kind, f.manager, name, Tokenize(script), w, b), ~IsRefused(r),
         p.command = r.command
  PROVE  Listens(f, p, b)
<1>1. PICK fixed, host : /\ fixed = NumberIn(Flag(Tokenize(script), Recipe[p.kind].port_flags))
                         /\ host = Flag(Tokenize(script), Recipe[p.kind].host_flags)
  OBVIOUS
<1>2. r = Agreed(p.kind, f.manager, name, fixed, host, w, b)
  BY <1>1 DEF WithTokens
<1>3. host = None
  <2>1. Recipe[p.kind].host_flags = {}
    BY DEF Recipe, RecipeOf
  <2>2. SelectInSeq(Tokenize(script), LAMBDA token : token.word \in {}) = 0
    BY DEF SelectInSeq
  <2> QED BY <1>1, <2>1, <2>2 DEF Flag
<1>4. PICK x : p.command = RunScript(f.manager, name, Passed(p.kind, host, b, x))
  BY <1>2, AgreedTo
<1>5. Passed(p.kind, host, b, x) = <<>>
  BY <1>3 DEF Passed, Flags
<1>6. p.command[3] = name
  <2>1. PICK none : none = <<>>
    OBVIOUS
  <2>2. none \in Seq({name})
    BY <2>1, EmptySeq
  <2>3. p.command = RunScript(f.manager, name, none)
    BY <1>4, <1>5, <2>1
  <2> QED BY <2>2, <2>3, PassedOn
<1>7. DOMAIN p.env = {"HOST", "PORT"}
  BY DEF EnvFor
<1>8. Assigned(f, p, "PORT") = {} /\ Assigned(f, p, "HOST") = {}
  BY <1>6, <1>7 DEF Assigned
<1>9. PortsOf(f, p) = {p.port}
  BY <1>7, <1>8 DEF PortsOf, OrElse
<1>10. HostsOf(f, p, b) = {b}
  BY <1>7, <1>8 DEF HostsOf, OrElse
<1> QED BY <1>9, <1>10 DEF Listens

\* What a project is planned to listen on is what it listens on.
LEMMA PlanListens ==
  ASSUME NEW f, Coherent(f), NEW m, NEW w \in Port, m.port \in Port, NEW b, b \notin Dashed,
         IsWildcard(b), ~IsRefused(MakePlan(f, m, w, b)),
         NEW p, p = MakePlan(f, m, w, b), p.kind \in DOMAIN Recipe, p.binds_wildcard # FALSE, p.port # "0"
  PROVE  Listens(f, p, b)
<1>1. PICK kind, v, r : kind = Detect(f) /\ v = Or(w, m.port) /\ r = Commanded(f, m, w, b)
  OBVIOUS
<1>2. /\ ~IsRefused(r)
      /\ p.kind = kind /\ p.command = r.command /\ p.port = r.port
      /\ p.binds_wildcard = r.binds /\ p.env = EnvFor(kind)
  <2>1. PICK e, o : e = EnvFor(kind) /\ o = OutputsOf(kind, f, m)
    OBVIOUS
  <2>2. /\ ~IsRefused(r)
        /\ p = [kind |-> kind, command |-> r.command, port |-> r.port,
                binds_wildcard |-> r.binds, background |-> m.background, env |-> e, outputs |-> o]
    BY <1>1, <2>1, PlanMade, Zenon
  <2>3. /\ p.kind = kind /\ p.command = r.command /\ p.port = r.port
        /\ p.binds_wildcard = r.binds /\ p.env = e
    BY <2>2
  <2> QED BY <2>1, <2>2, <2>3
<1>4. kind \in DOMAIN Recipe
  BY <1>2
<1>3. v \in Port
  BY <1>1 DEF Or
<1>5. r = ScriptedCommand(kind, f, v, b)
  <2>1. r = Command(kind, f, m, v, b)
    BY <1>1 DEF Commanded
  <2>2. CASE m.command # None
    <3>1. r = Launching(m.command, v, FALSE)
      BY <2>1, <2>2 DEF Command
    <3> QED BY <1>2, <3>1 DEF Launching
  <2>3. CASE m.command = None /\ kind = None
    <3>1. r = Refused("kind") \/ r = Launching(None, v, FALSE)
      BY <2>1, <2>3 DEF Command
    <3>2. r # Refused("kind")
      BY <1>2 DEF Refused, IsRefused
    <3>3. r.binds = FALSE
      BY <3>1, <3>2 DEF Launching
    <3> QED BY <1>2, <3>3
  <2>4. CASE m.command = None /\ kind # None
    BY <1>4, <2>1, <2>4 DEF Command
  <2> QED BY <2>2, <2>3, <2>4
<1>6. PICK name : name = FindScript(f.package, Recipe[kind].programs)
  OBVIOUS
<1>7. PICK script : script = f.package.scripts[name]
  OBVIOUS
<1>8. /\ f.package # None /\ name # None
      /\ r = WithTokens(kind, f.manager, name, Tokenize(script), v, b)
  <2>1. \A why : IsRefused(Refused(why))
    BY DEF IsRefused, Refused
  <2> QED BY <1>2, <1>5, <1>6, <1>7, <2>1 DEF ScriptedCommand, WithScript
<1>9. name \in DOMAIN f.package.scripts /\ script # Shell /\ Tokenize(script) # None
  BY <1>6, <1>7, <1>8, FoundScript
<1>10. Consistent(kind, script)
  BY <1>1, <1>4, <1>7, <1>8, <1>9 DEF Coherent
<1>11. script \in Seq(Token) /\ Tokenize(script) \in Seq(Token)
  BY <1>9, <1>10, TokensTyped DEF Consistent
<1>12. CASE kind = "CreateReactApp"
  BY <1>2, <1>7, <1>8, <1>10, <1>11, <1>12, UnflaggedListens DEF Consistent, Listens
<1>13. CASE kind # "CreateReactApp"
  <2>1. PICK tokens : tokens = Tokenize(script)
    OBVIOUS
  <2>2. /\ AllAlike(Given(tokens, Recipe[kind].port_flags))
        /\ Given(tokens, Recipe[kind].port_flags) \subseteq PortTexts
        /\ AllAlike(Given(tokens, Recipe[kind].host_flags))
    BY <1>9, <1>10, <2>1 DEF Consistent, AllAlike
  <2>3. /\ kind \in DOMAIN Recipe \ {"CreateReactApp"} /\ v \in Port
        /\ tokens \in Seq(Token) /\ tokens = Tokenize(f.package.scripts[name])
        /\ r = WithTokens(kind, f.manager, name, tokens, v, b) /\ ~IsRefused(r)
        /\ p.kind = kind /\ p.env = EnvFor(kind) /\ p.command = r.command /\ p.port = r.port
    BY <1>2, <1>3, <1>4, <1>7, <1>8, <1>11, <1>13, <2>1
  <2> QED BY <2>2, <2>3, FlaggedListens
<1> QED BY <1>12, <1>13

----------------------------------------------------------------------------
(***************************************************************************)
(* What every step keeps.  The plan is the one the project, as the run     *)
(* found it, would make at any moment of the run: the manifest written     *)
(* down makes it again.  The changes still to make are at every moment     *)
(* those init would find to make.                                          *)
(***************************************************************************)
\* An output may be put at each of these paths.
Housed(outputs) == PathsIn(outputs) \subseteq DOMAIN disk.file

Typed ==
    /\ disk \in DiskOn(DOMAIN disk.file)
    /\ args.port \in Port \ {"0"}
    /\ answer \in Addresses
    /\ \A f \in {facts} \cup Reworked : HasRoom(disk, f)

\* There is a plan, and init has not stopped short of it.
Applying == pc \in {"apply", "mode"}
Planning == pc \in {"own", "collect", "snapshot"} \/ Applying \/ Idle("ok")

\* It is the plan of the project as the run found it, written down or not.
Planned ==
    Planning =>
        /\ ~IsRefused(plan)
        /\ plan = PlanWith(before.manifest, args.port, "0.0.0.0")
        /\ Housed(plan.outputs)
        /\ before.manifest # Absent => disk.manifest = before.manifest
        /\ before.manifest = Absent => disk.manifest \in {Absent, ManifestOf(plan)}

\* What is still to change is what init would change now.
Pending ==
    /\ pc = "snapshot" \/ Applying => changes = ChangesTo(disk, plan)
    /\ Idle("ok") => ChangesTo(disk, plan) = <<>>

\* An address file is written or still to write, and none is the developer's.
Ours ==
    pc \in {"collect", "snapshot"} \/ Applying =>
        \A path \in PathsIn(plan.outputs) : disk.file[path] # Foreign

Written ==
    /\ Applying =>
          /\ values \in Values
          /\ left \in Seq(Output) /\ PathsIn(left) \subseteq PathsIn(plan.outputs)
    /\ Applying \/ Idle("ok") =>
          \A path \in PathsIn(plan.outputs) :
              disk.file[path] = values \/ (Applying /\ path \in PathsIn(left))

\* A check in the hook is whole, and Git can run it or is about to be made to,
\* unless the run that wrote it died of it.
HookWhole ==
    \/ half /\ pc # "mode"
    \/ Contains(Lines(disk.hook), "begin") =>
           ChecksFirst(disk.hook) /\ (disk.executable \/ pc = "mode")

Kept == Typed /\ Planned /\ Pending /\ Ours /\ Written /\ HookWhole

\* The manifest a plan is made from.
Read(manifest) == IF manifest = Absent THEN NoManifest ELSE manifest

LEMMA PlanHolds ==
  ASSUME NEW m \in {Absent, Broken} \cup Manifest, NEW w \in Port, NEW b,
         ~IsRefused(PlanWith(m, w, b))
  PROVE  LET p == PlanWith(m, w, b)
         IN /\ m # Broken /\ (m # Absent => ValidManifest(m))
            /\ Read(m) \in Manifest
            /\ p = MakePlan(facts, Read(m), w, b)
            /\ p.outputs \in Seq(Output) /\ p.outputs # <<>>
            /\ p.port \in Port
            /\ p.outputs = OutputsOf(Detect(facts), facts, Read(m))
<1>1. m # Broken /\ (m # Absent => ValidManifest(m))
  BY DEF PlanWith, IsRefused, Refused
<1>2. PlanWith(m, w, b) = MakePlan(facts, Read(m), w, b)
  BY <1>1 DEF PlanWith, Read
<1>3. Read(m) \in Manifest
  BY <1>1, Defaults DEF Read
<1>4. Read(m).output \in Seq(Output) /\ Read(m).port \in Port
  BY <1>3 DEF Manifest
<1> QED BY <1>1, <1>2, <1>3, <1>4, PlanSays

\* There is room for the files of a plan.
LEMMA PlanHoused ==
  ASSUME HasRoom(disk, facts), disk.manifest \in {Absent, Broken} \cup Manifest,
         NEW w \in Port, NEW b, ~IsRefused(PlanWith(disk.manifest, w, b))
  PROVE  Housed(PlanWith(disk.manifest, w, b).outputs)
<1>1. PICK m : m = disk.manifest
  OBVIOUS
<1>2. PICK outputs : outputs = PlanWith(m, w, b).outputs
  OBVIOUS
<1>3. /\ m # Broken /\ (m # Absent => ValidManifest(m))
      /\ outputs = OutputsOf(Detect(facts), facts, Read(m))
  BY <1>1, <1>2, PlanHolds
<1>4. CASE Read(m).output = <<>>
  <2>1. outputs = OutputsOf(Detect(facts), facts, NoManifest)
    BY <1>3, <1>4, Defaults DEF OutputsOf
  <2> QED BY <1>1, <1>2, <2>1 DEF HasRoom, Housed
<1>5. CASE Read(m).output # <<>>
  <2>1. m # Absent /\ Read(m) = m
    BY <1>5, Defaults DEF Read
  <2>2. outputs = m.output
    BY <1>3, <1>5, <2>1 DEF OutputsOf
  <2> QED BY <1>1, <1>2, <1>3, <2>1, <2>2 DEF HasRoom, Housed
<1> QED BY <1>4, <1>5

\* What init knows of its plan while it has one.
LEMMA PlanKnown ==
  ASSUME Typed, Planned, Planning
  PROVE  /\ plan.outputs \in Seq(Output) /\ plan.outputs # <<>>
         /\ plan.port \in Port
         /\ ManifestOf(plan) \in Manifest /\ ManifestOf(plan).output = plan.outputs
         /\ plan = MakePlan(facts, Read(before.manifest), args.port, "0.0.0.0")
         /\ ~IsRefused(plan)
         /\ before.manifest # Absent => before.manifest \in Manifest /\ ValidManifest(before.manifest)
<1>1. disk.manifest \in {Absent, Broken} \cup Manifest /\ args.port \in Port
  BY DiskIs DEF Typed
<1>2. before.manifest \in {Absent, Broken} \cup Manifest
  BY <1>1 DEF Planned
<1>3. plan = PlanWith(before.manifest, args.port, "0.0.0.0") /\ ~IsRefused(plan)
  BY DEF Planned
<1>4. PICK m, w : m = before.manifest /\ w = args.port
  OBVIOUS
<1>5. /\ m # Broken /\ (m # Absent => ValidManifest(m))
      /\ plan = MakePlan(facts, Read(m), w, "0.0.0.0")
      /\ plan.outputs \in Seq(Output) /\ plan.outputs # <<>>
      /\ plan.port \in Port
  BY <1>1, <1>2, <1>3, <1>4, PlanHolds
<1>6. ManifestOf(plan) \in Manifest /\ ManifestOf(plan).output = plan.outputs
  BY <1>5, WrittenManifest
<1> QED BY <1>2, <1>3, <1>4, <1>5, <1>6

LEMMA TailOf ==
  ASSUME NEW S, NEW s \in Seq(S), s # <<>>
  PROVE  /\ Tail(s) \in Seq(S) /\ Len(s) = Len(Tail(s)) + 1 /\ Head(s) = s[1]
         /\ Len(Tail(s)) \in Nat /\ \A i \in 1..Len(Tail(s)) : Tail(s)[i] = s[i + 1]
  OBVIOUS

LEMMA PathsOf ==
  ASSUME NEW outputs \in Seq(Output)
  PROVE  /\ Len(outputs) \in Nat
         /\ \A i \in 1..Len(outputs) : outputs[i].path \in PathsIn(outputs)
         /\ \A path \in PathsIn(outputs) : \E i \in 1..Len(outputs) : outputs[i].path = path
         /\ outputs # <<>> =>
               /\ Head(outputs).path \in PathsIn(outputs)
               /\ Tail(outputs) \in Seq(Output)
               /\ PathsIn(Tail(outputs)) \subseteq PathsIn(outputs)
               /\ \A path \in PathsIn(outputs) :
                     path = Head(outputs).path \/ path \in PathsIn(Tail(outputs))
         /\ outputs = <<>> => PathsIn(outputs) = {}
<1>1. Len(outputs) \in Nat
  OBVIOUS
<1>2. ASSUME outputs # <<>>
      PROVE  /\ Head(outputs).path \in PathsIn(outputs)
             /\ Tail(outputs) \in Seq(Output)
             /\ PathsIn(Tail(outputs)) \subseteq PathsIn(outputs)
             /\ \A path \in PathsIn(outputs) :
                   path = Head(outputs).path \/ path \in PathsIn(Tail(outputs))
  <2>1. PICK rest : rest = Tail(outputs)
    OBVIOUS
  <2>2. /\ rest \in Seq(Output)
        /\ Len(rest) \in Nat /\ Len(outputs) = Len(rest) + 1 /\ Head(outputs) = outputs[1]
        /\ \A i \in 1..Len(rest) : rest[i] = outputs[i + 1]
    BY <1>2, <2>1, TailOf
  <2>3. 1 \in 1..Len(outputs) /\ \A i \in 1..Len(rest) : i + 1 \in 1..Len(outputs)
    BY <2>2
  <2>4. \A i \in 1..Len(outputs) : i = 1 \/ (i - 1 \in 1..Len(rest) /\ rest[i - 1] = outputs[i])
    BY <2>2
  <2> QED BY <2>1, <2>2, <2>3, <2>4, SMTT(30) DEF PathsIn
<1>3. outputs = <<>> => PathsIn(outputs) = {}
  BY DEF PathsIn
<1> QED BY <1>1, <1>2, <1>3 DEF PathsIn

LEMMA NoneIsNoPort == None # "0"
<1>1. "0" \in STRING
  BY NumbersArePorts, PortTextsAreTexts
<1> QED BY <1>1, MarksAreNoData

\* A run that is over, or has only begun, has nothing but the disk to keep.
LEMMA KeptWithout ==
  ASSUME Typed', HookWhole', pc' \notin {"own", "collect", "snapshot", "apply", "mode"},
         pc' # "idle" \/ outcome' # "ok"
  PROVE  Kept'
<1>1. ~Planning' /\ ~Idle("ok")'
  BY DEF Planning, Applying, Idle
<1> QED BY <1>1 DEF Kept, Planned, Pending, Ours, Written, Planning, Applying

LEMMA KeptInit == SetupInit => Kept
<1> SUFFICES ASSUME SetupInit PROVE Kept
  OBVIOUS
<1>1. PICK s \in Situations : facts = s.facts /\ git = s.git /\ disk = s.disk /\ chances = s.chances
  BY DEF SetupInit
<1>2. /\ s.disk \in DiskOn(DOMAIN s.disk.file)
      /\ \A f \in {s.facts} \cup Reworked : HasRoom(s.disk, f)
      /\ Contains(Lines(s.disk.hook), "begin") => ChecksFirst(s.disk.hook) /\ s.disk.executable
  BY SituationsArePossible
<1>3. answer \in Addresses /\ args = NoArgs /\ pc = "idle" /\ outcome = "none"
  BY DEF SetupInit
<1>4. args.port \in Port \ {"0"}
  <2>1. NoArgs.port = None
    BY DEF NoArgs
  <2>2. None # "0"
    BY NoneIsNoPort
  <2> QED BY <1>3, <2>1, <2>2 DEF Port
<1>5. Typed
  BY <1>1, <1>2, <1>3, <1>4 DEF Typed
<1>6. HookWhole
  BY <1>1, <1>2 DEF HookWhole
<1>7. ~Planning /\ ~Idle("ok") /\ pc \notin {"collect", "snapshot", "apply", "mode"}
  BY <1>3 DEF Planning, Applying, Idle
<1> QED BY <1>5, <1>6, <1>7 DEF Kept, Planned, Pending, Ours, Written, Applying

\* The same disk is typed as before, the project being the same.
LEMMA SameTyped ==
  ASSUME Typed, UNCHANGED <<disk, facts, answer>>,
         args'.port \in Port \ {"0"}
  PROVE  Typed'
  BY DEF Typed

LEMMA KeptBegin ==
  ASSUME Kept, NEW port \in Requested, NEW dry \in BOOLEAN, Begin(port, dry)
  PROVE  Kept'
<1>1. args'.port \in Port \ {"0"}
  <2>1. args'.port = IF port = "0" THEN None ELSE port
    BY DEF Begin
  <2>2. None # "0" /\ port \in Port
    BY NoneIsNoPort, SituationsArePossible
  <2> QED BY <2>1, <2>2 DEF Port
<1>2. UNCHANGED <<disk, facts, answer, half>> /\ pc' = "plan"
  BY DEF Begin, project
<1>3. Typed' /\ HookWhole'
  BY <1>1, <1>2, SameTyped DEF Kept, HookWhole, Begin
<1> QED BY <1>2, <1>3, KeptWithout

\* A run that ends before its work is done, its disk unchanged.
LEMMA KeptOver ==
  ASSUME Kept, pc # "mode", NEW how, how # "ok", Over(how),
         UNCHANGED <<disk, facts, answer, half>>
  PROVE  Kept'
<1>1. args'.port \in Port \ {"0"}
  <2>1. args'.port = None
    BY DEF Over, Forget, NoArgs
  <2> QED BY <2>1, NoneIsNoPort DEF Port
<1>2. pc' = "idle" /\ outcome' = how
  BY DEF Over
<1>3. Typed' /\ HookWhole'
  BY <1>1, <1>2, SameTyped DEF Kept, HookWhole
<1> QED BY <1>2, <1>3, KeptWithout

\* The plan stays what it was while the project does.
LEMMA PlanKept ==
  ASSUME Planned, Planning,
         UNCHANGED <<facts, args, plan, before>>, DOMAIN disk'.file = DOMAIN disk.file,
         disk'.manifest = disk.manifest
            \/ (disk.manifest = Absent /\ disk'.manifest = ManifestOf(plan))
  PROVE  Planned'
<1>1. /\ ~IsRefused(plan) /\ plan = PlanWith(before.manifest, args.port, "0.0.0.0")
      /\ Housed(plan.outputs)
      /\ before.manifest # Absent => disk.manifest = before.manifest
      /\ before.manifest = Absent => disk.manifest \in {Absent, ManifestOf(plan)}
  BY DEF Planned
<1>2. PlanWith(before.manifest, args.port, "0.0.0.0")'
         = PlanWith(before.manifest, args.port, "0.0.0.0")
  BY DEF PlanWith
<1>3. Housed(plan.outputs)'
  BY <1>1 DEF Housed
<1>4. ManifestOf(plan)' = ManifestOf(plan)
  OBVIOUS
<1>5. before'.manifest # Absent => disk'.manifest = before'.manifest
  BY <1>1
<1>6. before'.manifest = Absent => disk'.manifest \in {Absent, ManifestOf(plan')}
  BY <1>1
<1> QED BY <1>1, <1>2, <1>3, <1>5, <1>6 DEF Planned

LEMMA KeptDecidePlan == ASSUME Untouched, Kept, DecidePlan PROVE Kept'
<1>1. PICK p : p = PlanWith(disk.manifest, args.port, "0.0.0.0")
  OBVIOUS
<1>2. /\ pc = "plan" /\ UNCHANGED <<facts, git, answer, disk, before, half>>
      /\ IF IsRefused(p) THEN Over("refused")
         ELSE plan' = p /\ pc' = "own" /\ UNCHANGED <<args, values, outcome, changes, left>>
  BY <1>1 DEF DecidePlan, project
<1>3. CASE IsRefused(p)
  BY <1>2, <1>3, KeptOver
<1>4. CASE ~IsRefused(p)
  <2>1. plan' = p /\ pc' = "own" /\ UNCHANGED args
    BY <1>2, <1>4
  <2>2. Typed' /\ HookWhole'
    BY <1>2, <2>1, SameTyped DEF Kept, Typed, HookWhole
  <2>3. disk = before
    BY <1>2 DEF Untouched
  <2>4. Housed(p.outputs)
    BY <1>1, <1>4, DiskIs, PlanHoused DEF Kept, Typed
  <2>5. PlanWith(before.manifest, args.port, "0.0.0.0")' = p
    <3>1. before'.manifest = disk.manifest /\ args' = args /\ facts' = facts
      BY <1>2, <2>1, <2>3
    <3> QED BY <1>1, <3>1 DEF PlanWith
  <2>6. Housed(plan.outputs)'
    BY <1>2, <2>1, <2>4 DEF Housed
  <2>7. Planned'
    BY <1>2, <1>4, <2>1, <2>3, <2>5, <2>6 DEF Planned
  <2> QED BY <2>1, <2>2, <2>7 DEF Kept, Pending, Ours, Written, Idle, Applying
<1> QED BY <1>3, <1>4

LEMMA KeptCheckOwnership == ASSUME Kept, CheckOwnership PROVE Kept'
<1> DEFINE taken == \E i \in 1..Len(plan.outputs) : disk.file[plan.outputs[i].path] = Foreign
<1>1. /\ pc = "own" /\ UNCHANGED <<facts, git, answer, disk, before, half>>
      /\ IF taken THEN Over("refused")
         ELSE pc' = "collect" /\ UNCHANGED <<args, plan, values, outcome, changes, left>>
  BY DEF CheckOwnership, project, memory
<1>2. CASE taken
  BY <1>1, <1>2, KeptOver
<1>3. CASE ~taken
  <2>1. pc' = "collect" /\ UNCHANGED <<args, plan, values, outcome>>
    BY <1>1, <1>3
  <2>2. Planning /\ Planned
    BY <1>1 DEF Kept, Planning
  <2>3. Typed' /\ HookWhole'
    BY <1>1, <2>1, SameTyped DEF Kept, Typed, HookWhole
  <2>4. Planned'
    BY <1>1, <2>1, <2>2, PlanKept
  <2>5. \A path \in PathsIn(plan.outputs) : disk.file[path] # Foreign
    BY <1>3 DEF PathsIn
  <2>6. Ours'
    BY <1>1, <2>1, <2>5 DEF Ours
  <2> QED BY <2>1, <2>3, <2>4, <2>6 DEF Kept, Pending, Written, Idle, Applying
<1> QED BY <1>2, <1>3

LEMMA KeptCollect == ASSUME Kept, Collect PROVE Kept'
<1>1. /\ pc = "collect" /\ pc' = "snapshot" /\ changes' = ChangesTo(disk, plan)
      /\ UNCHANGED <<facts, git, answer, disk, args, plan, values, before, half>>
  BY DEF Collect, project, memory
<1>2. Planning /\ Planned
  BY <1>1 DEF Kept, Planning
<1>3. Typed' /\ HookWhole'
  BY <1>1, SameTyped DEF Kept, Typed, HookWhole
<1>4. Planned'
  BY <1>1, <1>2, PlanKept
<1>5. ChangesTo(disk, plan)' = ChangesTo(disk, plan)
  BY <1>1 DEF ChangesTo
<1>6. Pending'
  BY <1>1, <1>5 DEF Pending, Idle
<1>7. Ours'
  BY <1>1 DEF Kept, Ours
<1> QED BY <1>1, <1>3, <1>4, <1>6, <1>7 DEF Kept, Written, Idle, Applying

\* What the address files are to say is something they may say.
LEMMA ValuesMade ==
  ASSUME NEW ip \in Addresses, NEW port \in Port
  PROVE  ValuesFor(ip, port) \in Values
  BY DEF ValuesFor, Values

LEMMA KeptSnapshot == ASSUME Kept, Snapshot PROVE Kept'
<1>1. /\ pc = "snapshot" /\ UNCHANGED <<facts, git, answer, disk, before, half>>
      /\ IF args.dry THEN Over("dry")
         ELSE /\ pc' = "apply" /\ values' = ValuesFor(answer, plan.port) /\ left' = plan.outputs
              /\ UNCHANGED <<args, plan, outcome, changes>>
  BY DEF Snapshot, project
<1>2. CASE args.dry
  BY <1>1, <1>2, KeptOver
<1>3. CASE ~args.dry
  <2>1. /\ pc' = "apply" /\ values' = ValuesFor(answer, plan.port) /\ left' = plan.outputs
        /\ UNCHANGED <<args, plan, outcome, changes>>
    BY <1>1, <1>3
  <2>2. Planning /\ Planned /\ Typed
    BY <1>1 DEF Kept, Planning
  <2>3. Typed' /\ HookWhole'
    BY <1>1, <2>1, SameTyped DEF Kept, Typed, HookWhole
  <2>4. Planned'
    BY <1>1, <2>1, <2>2, PlanKept
  <2>5. ChangesTo(disk, plan)' = ChangesTo(disk, plan)
    BY <1>1, <2>1 DEF ChangesTo
  <2>6. Pending'
    BY <1>1, <2>1, <2>5 DEF Kept, Pending, Idle
  <2>7. Ours'
    BY <1>1, <2>1 DEF Kept, Ours
  <2>8. plan.outputs \in Seq(Output) /\ plan.port \in Port
    BY <2>2, PlanKnown
  <2>9. values' \in Values
    BY <2>1, <2>2, <2>8, ValuesMade DEF Typed
  <2>10. Written'
    BY <2>1, <2>8, <2>9 DEF Written, Idle
  <2> QED BY <2>3, <2>4, <2>6, <2>7, <2>10 DEF Kept
<1> QED BY <1>2, <1>3

LEMMA KeptApply == ASSUME Kept, Apply PROVE Kept' /\ Rest(disk, plan, disk')
<1>1. /\ pc = "apply" /\ changes # <<>> /\ changes' = Tail(changes)
      /\ disk' = [disk EXCEPT ![Head(changes).target] = Head(changes).text]
      /\ IF Head(changes).target = "hook" THEN pc' = "mode" /\ half' = FALSE
                                         ELSE UNCHANGED <<pc, half>>
      /\ UNCHANGED <<facts, git, answer, args, plan, values, left, outcome, before>>
  BY DEF Apply, project, memory
<1>1a. Applying /\ Applying' /\ pc' # "idle" /\ ~Idle("ok")'
  BY <1>1 DEF Applying, Idle
<1>2. Planning /\ Planned /\ Typed /\ disk \in DiskOn(DOMAIN disk.file)
  BY <1>1 DEF Kept, Planning, Typed, Applying
<1>3. plan.outputs \in Seq(Output) /\ plan.port \in Port
      /\ ManifestOf(plan).output = plan.outputs /\ Housed(plan.outputs)
  BY <1>2, PlanKnown DEF Planned
<1>4. changes = ChangesTo(disk, plan)
  BY <1>1 DEF Kept, Pending, Applying
<1>5. Rest(disk, plan, disk')
  BY <1>1, <1>2, <1>3, <1>4, Advances
<1>6. /\ disk' \in DiskOn(DOMAIN disk.file) /\ disk'.file = disk.file
      /\ ChangesTo(disk', plan) = changes'
      /\ disk'.manifest \in {disk.manifest, ManifestOf(plan)}
      /\ disk.manifest # Absent => disk'.manifest = disk.manifest
      /\ disk'.executable = disk.executable
      /\ IF Head(changes).target = "hook" THEN ChecksFirst(disk'.hook) ELSE disk'.hook = disk.hook
  BY <1>1, <1>4, <1>5 DEF Rest
<1>7. Typed'
  <2>1. \A f \in {facts} \cup Reworked : HasRoom(disk', f)
    BY <1>2, <1>3, <1>6, RoomLeft DEF Typed, Housed
  <2> QED BY <1>1, <1>2, <1>6, <2>1 DEF Typed
<1>8. Planned'
  BY <1>1, <1>2, <1>6, PlanKept
<1>9. Pending'
  <2>1. ChangesTo(disk, plan)' = ChangesTo(disk', plan)
    BY <1>1 DEF ChangesTo
  <2> QED BY <1>1, <1>1a, <1>6, <2>1 DEF Pending, Idle
<1>10. Ours' /\ Written'
  BY <1>1, <1>1a, <1>6 DEF Kept, Ours, Written
<1>11. HookWhole'
  BY <1>1, <1>6 DEF Kept, HookWhole
<1> QED BY <1>5, <1>7, <1>8, <1>9, <1>10, <1>11 DEF Kept

LEMMA KeptWriteOutput ==
  ASSUME Kept, WriteOutput
  PROVE  /\ Kept'
         /\ UNCHANGED <<disk.manifest, disk.gitignore, disk.hook>>
         /\ TheirFiles(disk') = TheirFiles(disk)
<1>1. /\ pc = "apply" /\ changes = <<>> /\ left # <<>> /\ left' = Tail(left)
      /\ disk' = [disk EXCEPT !.file[Head(left).path] = values]
      /\ UNCHANGED <<facts, git, answer, args, plan, values, pc, changes, outcome, before, half>>
  BY DEF WriteOutput, project, memory
<1>2. Planning /\ Planned /\ Typed /\ disk \in DiskOn(DOMAIN disk.file)
  BY <1>1 DEF Kept, Planning, Typed, Applying
<1>3. PICK path : path = Head(left).path
  OBVIOUS
<1>4. /\ values \in Values /\ left \in Seq(Output) /\ PathsIn(left) \subseteq PathsIn(plan.outputs)
      /\ \A other \in PathsIn(plan.outputs) : disk.file[other] = values \/ other \in PathsIn(left)
  BY <1>1 DEF Kept, Written, Applying
<1>5. /\ path \in PathsIn(left) /\ left' \in Seq(Output) /\ PathsIn(left') \subseteq PathsIn(left)
      /\ \A other \in PathsIn(left) : other = path \/ other \in PathsIn(left')
  BY <1>1, <1>3, <1>4, PathsOf
<1>6. path \in DOMAIN disk.file /\ path \in PathsIn(plan.outputs)
  BY <1>2, <1>4, <1>5 DEF Planned, Housed
<1>7. disk' = [disk EXCEPT !.file[path] = values]
  BY <1>1, <1>3
<1>8. /\ disk' \in DiskOn(DOMAIN disk.file) /\ DOMAIN disk'.file = DOMAIN disk.file
      /\ disk'.manifest = disk.manifest /\ disk'.gitignore = disk.gitignore /\ disk'.hook = disk.hook
      /\ \A other \in DOMAIN disk.file :
            disk'.file[other] = IF other = path THEN values ELSE disk.file[other]
  BY <1>2, <1>4, <1>6, <1>7 DEF DiskOn
<1>9. values # Foreign /\ disk.file[path] # Foreign
  BY <1>1, <1>4, <1>6, MarksAreNoData DEF Kept, Ours, Applying
<1>10. Typed'
  <2>1. \A f \in {facts} \cup Reworked : HasRoom(disk', f)
    BY <1>2, <1>8, RoomLeft DEF Typed
  <2> QED BY <1>1, <1>2, <1>8, <2>1 DEF Typed
<1>11. Planned'
  BY <1>1, <1>2, <1>8, PlanKept
<1>12. Pending'
  <2>1. ChangesTo(disk, plan)' = ChangesTo(disk, plan)
    BY <1>1, <1>8 DEF ChangesTo
  <2> QED BY <1>1, <2>1 DEF Kept, Pending, Idle, Applying
<1>13. \A other \in PathsIn(plan.outputs) : other \in DOMAIN disk.file
  BY <1>2 DEF Planned, Housed
<1>14. Ours'
  BY <1>1, <1>8, <1>9, <1>13 DEF Kept, Ours, Applying
<1>15. Written'
  <2>1. \A other \in PathsIn(plan.outputs) :
           disk'.file[other] = values \/ other \in PathsIn(left')
    BY <1>4, <1>5, <1>8, <1>13
  <2> QED BY <1>1, <1>4, <1>5, <2>1 DEF Written, Idle
<1>16. HookWhole'
  BY <1>1, <1>8 DEF Kept, HookWhole
<1>17. TheirFiles(disk') = TheirFiles(disk)
  BY <1>8, <1>9, <1>6 DEF TheirFiles
<1> QED BY <1>8, <1>10, <1>11, <1>12, <1>14, <1>15, <1>16, <1>17 DEF Kept

LEMMA KeptMode ==
  ASSUME Kept, MakeExecutable
  PROVE  /\ Kept'
         /\ UNCHANGED <<disk.manifest, disk.gitignore, disk.hook, disk.file>>
<1>1. /\ pc = "mode" /\ pc' = "apply" /\ disk' = [disk EXCEPT !.executable = TRUE]
      /\ UNCHANGED <<facts, git, answer, args, plan, values, changes, left, outcome, before, half>>
  BY DEF MakeExecutable, project, memory
<1>2. /\ Planning /\ Planned /\ Typed /\ disk \in DiskOn(DOMAIN disk.file)
      /\ Applying /\ Applying' /\ ~Idle("ok") /\ ~Idle("ok")'
  BY <1>1 DEF Kept, Planning, Applying, Typed, Idle
<1>3. /\ disk' \in DiskOn(DOMAIN disk.file) /\ disk'.executable
      /\ UNCHANGED <<disk.manifest, disk.gitignore, disk.hook, disk.file>>
  BY <1>1, <1>2 DEF DiskOn
<1>4. Typed'
  <2>1. \A f \in {facts} \cup Reworked : HasRoom(disk', f)
    BY <1>2, <1>3, RoomLeft DEF Typed
  <2> QED BY <1>1, <1>2, <1>3, <2>1 DEF Typed
<1>5. Planned'
  BY <1>1, <1>2, <1>3, PlanKept
<1>6. Pending'
  <2>1. ChangesTo(disk, plan)' = ChangesTo(disk, plan)
    BY <1>1, <1>3 DEF ChangesTo
  <2> QED BY <1>1, <1>2, <2>1 DEF Kept, Pending
<1>7. Ours' /\ Written'
  BY <1>1, <1>2, <1>3 DEF Kept, Ours, Written
<1>8. HookWhole'
  BY <1>1, <1>3 DEF Kept, HookWhole
<1> QED BY <1>3, <1>4, <1>5, <1>6, <1>7, <1>8 DEF Kept

LEMMA KeptFinish == ASSUME Kept, Finish PROVE Kept'
<1>1. /\ pc = "apply" /\ changes = <<>> /\ left = <<>> /\ pc' = "idle"
      /\ UNCHANGED <<facts, git, answer, disk, args, plan, values, before, half>>
  BY DEF Finish, Over, project, memory
<1>2. Planning /\ Planned
  BY <1>1 DEF Kept, Planning, Applying
<1>3. Typed' /\ HookWhole'
  BY <1>1, SameTyped DEF Kept, Typed, HookWhole
<1>4. Planned'
  BY <1>1, <1>2, PlanKept
<1>5. ChangesTo(disk, plan)' = ChangesTo(disk, plan)
  BY <1>1 DEF ChangesTo
<1>6. Pending'
  BY <1>1, <1>5 DEF Kept, Pending, Idle, Applying
<1>7. Written'
  <2>1. PathsIn(left) = {}
    BY <1>1 DEF PathsIn
  <2> QED BY <1>1, <2>1 DEF Kept, Written, Idle, Applying
<1>8. Ours'
  BY <1>1 DEF Ours, Applying
<1> QED BY <1>3, <1>4, <1>6, <1>7, <1>8 DEF Kept

----------------------------------------------------------------------------
(***************************************************************************)
(* A write that does not end.                                              *)
(***************************************************************************)
LEMMA FrontOf ==
  ASSUME NEW S, NEW s \in Seq(S), NEW n \in 0..Len(s)
  PROVE  /\ SubSeq(s, 1, n) \in Seq(S) /\ Len(SubSeq(s, 1, n)) = n
         /\ \A i \in 1..n : SubSeq(s, 1, n)[i] = s[i]
  OBVIOUS

LEMMA FrontPaths ==
  ASSUME NEW outputs \in Seq(Output), NEW n \in 0..Len(outputs)
  PROVE  /\ SubSeq(outputs, 1, n) \in Seq(Output)
         /\ PathsIn(SubSeq(outputs, 1, n)) \subseteq PathsIn(outputs)
<1>1. PICK front : front = SubSeq(outputs, 1, n)
  OBVIOUS
<1>2. front \in Seq(Output) /\ Len(front) = n /\ \A i \in 1..n : front[i] = outputs[i]
  BY <1>1, FrontOf
<1>3. \A i \in 1..n : i \in 1..Len(outputs)
  OBVIOUS
<1> QED BY <1>1, <1>2, <1>3 DEF PathsIn

\* The outputs, the nth without its prefix.
Bared(outputs, n) == [outputs EXCEPT ![n].prefix = None]

LEMMA BarePaths ==
  ASSUME NEW outputs \in Seq(Output), NEW n \in 1..Len(outputs)
  PROVE  /\ Bared(outputs, n) \in Seq(Output)
         /\ PathsIn(Bared(outputs, n)) \subseteq PathsIn(outputs)
<1>0. PICK bare : bare = Bared(outputs, n)
  OBVIOUS
<1>1. PICK last : last = [outputs[n] EXCEPT !.prefix = None]
  OBVIOUS
<1>2. outputs[n] \in Output
  OBVIOUS
<1>3. last \in Output /\ last.path = outputs[n].path
  BY <1>1, <1>2 DEF Output
<1>4. bare = [outputs EXCEPT ![n] = last]
  BY <1>0, <1>1 DEF Bared
<1>5. bare \in Seq(Output) /\ Len(bare) = Len(outputs)
      /\ \A i \in 1..Len(outputs) : bare[i] = IF i = n THEN last ELSE outputs[i]
  BY <1>3, <1>4
<1>6. \A i \in 1..Len(bare) : bare[i].path = outputs[i].path
  BY <1>3, <1>5
<1> QED BY <1>0, <1>5, <1>6 DEF PathsIn

LEMMA TornManifest ==
  ASSUME NEW p, p.outputs \in Seq(Output), p.port \in Port,
         NEW change, change.target = "manifest", change.text = ManifestOf(p),
         NEW text \in Torn(change)
  PROVE  text = Broken \/ (text \in Manifest /\ PathsIn(text.output) \subseteq PathsIn(p.outputs))
<1>1. PICK outputs \in Seq(Output) : outputs = p.outputs
  OBVIOUS
<1>2. PICK m : m = ManifestOf(p)
  OBVIOUS
<1>3. m = [command |-> None, port |-> p.port, background |-> <<>>, output |-> outputs]
  BY <1>1, <1>2 DEF ManifestOf, NoManifest
<1> DEFINE front(n) == [m EXCEPT !.output = SubSeq(@, 1, n)]
           bare(n)  == [front(n) EXCEPT !.output[n].prefix = None]
<1>4. PathsIn(<<>>) = {} /\ <<>> \in Seq(Output)
  BY DEF PathsIn
<1>5. CASE text = NoManifest
  <2>1. NoManifest \in Manifest /\ PathsIn(NoManifest.output) = {}
    BY <1>4, Defaults
  <2> QED BY <1>5, <2>1
<1>6. ASSUME NEW n \in 0..Len(outputs), text = front(n)
      PROVE  text \in Manifest /\ PathsIn(text.output) \subseteq PathsIn(outputs)
  <2>1. PICK some : some = SubSeq(outputs, 1, n)
    OBVIOUS
  <2>2. some \in Seq(Output) /\ PathsIn(some) \subseteq PathsIn(outputs)
    BY <2>1, FrontPaths
  <2>3. text = [command |-> None, port |-> p.port, background |-> <<>>, output |-> some]
    BY <1>3, <1>6, <2>1
  <2> QED BY <2>2, <2>3 DEF Manifest
<1>7. ASSUME NEW n \in 1..Len(outputs), text = bare(n)
      PROVE  text \in Manifest /\ PathsIn(text.output) \subseteq PathsIn(outputs)
  <2>1. PICK some : some = SubSeq(outputs, 1, n)
    OBVIOUS
  <2>2. n \in 0..Len(outputs) /\ some \in Seq(Output) /\ PathsIn(some) \subseteq PathsIn(outputs)
    BY <2>1, FrontPaths
  <2>3. Len(some) = n
    BY <2>1, <2>2, FrontOf
  <2>4. PICK stripped : stripped = Bared(some, n)
    OBVIOUS
  <2>5. stripped \in Seq(Output) /\ PathsIn(stripped) \subseteq PathsIn(some)
    BY <2>2, <2>3, <2>4, BarePaths
  <2>8. PICK whole : whole = front(n)
    OBVIOUS
  <2>6. whole = [command |-> None, port |-> p.port, background |-> <<>>, output |-> some]
    BY <1>3, <2>1, <2>8
  <2>9. text = [whole EXCEPT !.output[n].prefix = None]
    BY <1>7, <2>8
  <2>7. text = [command |-> None, port |-> p.port, background |-> <<>>, output |-> stripped]
    BY <2>4, <2>6, <2>9 DEF Bared
  <2> QED BY <2>2, <2>5, <2>7 DEF Manifest
<1>8. CASE text = [NoManifest EXCEPT !.port = "half"]
  <2>1. "half" \in PortTexts
    BY NumbersArePorts
  <2>2. text = [command |-> None, port |-> "half", background |-> <<>>, output |-> <<>>]
    BY <1>8 DEF NoManifest
  <2> QED BY <1>4, <2>1, <2>2 DEF Manifest, Port
<1>9. \/ text \in {Broken, NoManifest}
      \/ \E n \in 0..(Len(outputs) - 1) : text = front(n)
      \/ \E n \in 1..Len(outputs) : text = bare(n)
      \/ text = [NoManifest EXCEPT !.port = "half"]
  <2>1. change.text = m /\ m.output = outputs
    BY <1>2, <1>3
  <2> QED BY <2>1 DEF Torn
<1>10. \A n \in 0..(Len(outputs) - 1) : n \in 0..Len(outputs)
  OBVIOUS
<1> HIDE DEF front, bare
<1> QED BY <1>1, <1>5, <1>6, <1>7, <1>8, <1>9, <1>10

LEMMA TornText ==
  ASSUME NEW change, change.target # "manifest", change.text \in Text, NEW text \in Torn(change)
  PROVE  text \in Text
<1>1. PICK n \in 0..(Len(change.text) - 1) : text = SubSeq(change.text, 1, n)
  BY DEF Torn
<1>2. change.text \in Seq(STRING) /\ n \in 0..Len(change.text)
  BY DEF Text
<1>3. SubSeq(change.text, 1, n) \in Seq(STRING)
  BY <1>2, FrontOf
<1> QED BY <1>1, <1>3 DEF Text

\* What is spared by a write that is cut off.
Spared(d, p, e) ==
    /\ e \in DiskOn(DOMAIN d.file) /\ e.file = d.file
    /\ \/ e.manifest \in {d.manifest, Broken}
       \/ PathsIn(e.manifest.output) \subseteq PathsIn(p.outputs)
    /\ \/ Head(ChangesTo(d, p)).target = "hook"
       \/ e.hook = d.hook /\ e.executable = d.executable

LEMMA TornDisk ==
  ASSUME NEW d, d \in DiskOn(DOMAIN d.file), NEW p, p.outputs \in Seq(Output),
         p.port \in Port, ChangesTo(d, p) # <<>>,
         NEW text \in Torn(Head(ChangesTo(d, p)))
  PROVE  Spared(d, p, [d EXCEPT ![Head(ChangesTo(d, p)).target] = text])
<1>0. PICK e : e = [d EXCEPT ![Head(ChangesTo(d, p)).target] = text]
  OBVIOUS
<1>1. PICK D : D = DOMAIN d.file
  OBVIOUS
<1>2. PICK first : first = Head(ChangesTo(d, p))
  OBVIOUS
<1>3. /\ d.manifest \in {Absent, Broken} \cup Manifest
      /\ d.gitignore \in {Absent} \cup Text /\ d.hook \in {Absent} \cup Text
  BY DiskIs
<1>4. e = [d EXCEPT ![first.target] = text] /\ text \in Torn(first) /\ d \in DiskOn(D)
  BY <1>0, <1>1, <1>2
<1>5. CASE first.target = "manifest" /\ first.text = ManifestOf(p)
  <2>1. text = Broken \/ (text \in Manifest /\ PathsIn(text.output) \subseteq PathsIn(p.outputs))
    BY <1>4, <1>5, TornManifest
  <2>2. e = [d EXCEPT !["manifest"] = text]
    BY <1>4, <1>5
  <2>3. e \in DiskOn(D) /\ e.file = d.file /\ e.manifest = text /\ e.hook = d.hook
        /\ e.executable = d.executable
    BY <1>4, <2>1, <2>2 DEF DiskOn
  <2> QED BY <1>0, <1>1, <1>2, <1>5, <2>1, <2>3 DEF Spared
<1>6. CASE first.target = "gitignore" /\ first.text = GitignoreWith(d.gitignore, p.outputs)
           /\ GitignoreWith(d.gitignore, p.outputs) # None
  <2>1. first.text \in Text /\ first.target # "manifest"
    BY <1>3, <1>6, IgnoredAgain
  <2>2. text \in Text
    BY <1>4, <2>1, TornText
  <2>3. e = [d EXCEPT !["gitignore"] = text]
    BY <1>4, <1>6
  <2>4. e \in DiskOn(D) /\ e.file = d.file /\ e.manifest = d.manifest /\ e.hook = d.hook
        /\ e.executable = d.executable
    BY <1>4, <2>2, <2>3 DEF DiskOn
  <2> QED BY <1>0, <1>1, <2>4 DEF Spared
<1>7. CASE first.target = "hook" /\ first.text = HookWithCheck(d.hook)
           /\ HookWithCheck(d.hook) # None
  <2>1. first.text \in Text /\ first.target # "manifest"
    BY <1>3, <1>7, HookedAgain
  <2>2. text \in Text
    BY <1>4, <2>1, TornText
  <2>3. e = [d EXCEPT !["hook"] = text]
    BY <1>4, <1>7
  <2>4. e \in DiskOn(D) /\ e.file = d.file /\ e.manifest = d.manifest
    BY <1>4, <2>2, <2>3 DEF DiskOn
  <2> QED BY <1>0, <1>1, <1>2, <1>7, <2>4 DEF Spared
<1> QED BY <1>2, <1>5, <1>6, <1>7, FirstChange

LEMMA KeptBreaks ==
  ASSUME Kept, NEW how \in {"failed", "killed"}, Breaks(how)
  PROVE  Kept' /\ TheirFiles(disk') = TheirFiles(disk) /\ outcome' = how
<1>1. /\ Over(how) /\ UNCHANGED <<facts, git, answer>>
      /\ \/ pc # "mode" /\ UNCHANGED <<disk, half>>
         \/ pc = "mode" /\ UNCHANGED disk /\ half' = ~disk.executable
         \/ /\ pc = "apply" /\ changes # <<>>
            /\ \E text \in Torn(Head(changes)) :
                  disk' = [disk EXCEPT ![Head(changes).target] = text]
            /\ half' = (half \/ Head(changes).target = "hook")
  BY DEF Breaks
<1>2. pc' = "idle" /\ outcome' = how /\ how # "ok" /\ args'.port = None
  BY <1>1 DEF Over, Forget, NoArgs
<1>3. CASE pc # "mode" /\ UNCHANGED <<disk, half>>
  BY <1>1, <1>2, <1>3, KeptOver
<1>3a. CASE pc = "mode" /\ UNCHANGED disk /\ half' = ~disk.executable
  <2>1. Typed'
    BY <1>1, <1>2, <1>3a, SameTyped, NoneIsNoPort DEF Kept, Port
  <2>2. disk \in DiskOn(DOMAIN disk.file)
    BY DEF Kept, Typed
  <2>3. disk.executable \in BOOLEAN
    BY <2>2 DEF DiskOn
  <2>4. HookWhole'
    BY <1>2, <1>3a, <2>3 DEF Kept, HookWhole
  <2> QED BY <1>2, <1>3a, <2>1, <2>4, KeptWithout
<1>4. CASE /\ pc = "apply" /\ changes # <<>>
           /\ \E text \in Torn(Head(changes)) :
                 disk' = [disk EXCEPT ![Head(changes).target] = text]
           /\ half' = (half \/ Head(changes).target = "hook")
  <2>1. PICK text \in Torn(Head(changes)) : disk' = [disk EXCEPT ![Head(changes).target] = text]
    BY <1>4
  <2>2. Planning /\ Planned /\ Typed /\ disk \in DiskOn(DOMAIN disk.file)
    BY <1>4 DEF Kept, Planning, Typed, Applying
  <2>3. plan.outputs \in Seq(Output) /\ plan.port \in Port /\ Housed(plan.outputs)
    BY <2>2, PlanKnown DEF Planned
  <2>4. changes = ChangesTo(disk, plan)
    BY <1>4 DEF Kept, Pending, Applying
  <2>5. /\ disk' \in DiskOn(DOMAIN disk.file) /\ disk'.file = disk.file
        /\ \/ disk'.manifest \in {disk.manifest, Broken}
           \/ PathsIn(disk'.manifest.output) \subseteq PathsIn(plan.outputs)
        /\ \/ Head(changes).target = "hook"
           \/ disk'.hook = disk.hook /\ disk'.executable = disk.executable
    <3>1. Spared(disk, plan, disk')
      BY <1>4, <2>1, <2>2, <2>3, <2>4, TornDisk
    <3> QED BY <2>4, <3>1 DEF Spared
  <2>6. Typed'
    <3>1. \A f \in {facts} \cup Reworked : HasRoom(disk', f)
      BY <2>2, <2>3, <2>5, RoomLeft DEF Typed, Housed
    <3> QED BY <1>1, <1>2, <2>2, <2>5, <3>1, NoneIsNoPort DEF Typed, Port
  <2>7. HookWhole'
    BY <1>2, <1>4, <2>5 DEF Kept, HookWhole
  <2>8. TheirFiles(disk') = TheirFiles(disk)
    BY <2>5 DEF TheirFiles
  <2> QED BY <1>2, <2>6, <2>7, <2>8, KeptWithout
<1> QED BY <1>1, <1>2, <1>3, <1>3a, <1>4

----------------------------------------------------------------------------
(***************************************************************************)
(* The developer and the network.                                          *)
(***************************************************************************)
LEMMA KeptWorld == ASSUME Kept, Rework \/ Clone \/ Take PROVE Kept'
<1>1. /\ pc = "idle" /\ pc' = "idle" /\ outcome' = "none" /\ args'.port = None
      /\ UNCHANGED answer
  <2>1. Edited
    BY DEF Rework, Clone, Take
  <2> QED BY <2>1 DEF Edited, Forget, NoArgs
<1>2. Typed /\ HookWhole /\ disk \in DiskOn(DOMAIN disk.file)
      /\ args'.port \in Port \ {"0"}
  BY <1>1, NoneIsNoPort DEF Kept, Typed, Port
<1>3. CASE Rework
  <2>1. facts' \in Reworked /\ UNCHANGED <<disk, half>>
    BY <1>3 DEF Rework
  <2>2. \A f \in {facts'} \cup Reworked : HasRoom(disk, f)
    BY <1>2, <2>1 DEF Typed
  <2>3. Typed' /\ HookWhole'
    BY <1>1, <1>2, <2>1, <2>2 DEF Typed, HookWhole
  <2> QED BY <1>1, <2>3, KeptWithout
<1>4. CASE Clone
  <2>1. /\ disk' = [disk EXCEPT !.hook = Absent, !.executable = FALSE,
                               !.file = [p \in DOMAIN disk.file |-> Absent]]
        /\ UNCHANGED facts
    BY <1>4 DEF Clone
  <2>2. /\ disk' \in DiskOn(DOMAIN disk.file) /\ DOMAIN disk'.file = DOMAIN disk.file
        /\ disk'.manifest = disk.manifest /\ disk'.hook = Absent
    BY <1>2, <2>1 DEF DiskOn
  <2>3. \A f \in {facts} \cup Reworked : HasRoom(disk', f)
    BY <1>2, <2>2, RoomLeft DEF Typed
  <2>4. Typed'
    BY <1>1, <1>2, <2>1, <2>2, <2>3 DEF Typed
  <2>5. Lines(disk'.hook) = <<>> /\ ~Contains(<<>>, "begin")
    BY <2>2 DEF Lines, Contains
  <2>6. HookWhole'
    BY <2>5 DEF HookWhole
  <2> QED BY <1>1, <2>4, <2>6, KeptWithout
<1>5. CASE Take
  <2>1. PICK path \in DOMAIN disk.file : disk' = [disk EXCEPT !.file[path] = Foreign]
    BY <1>5 DEF Take
  <2>2. UNCHANGED <<facts, half>>
    BY <1>5 DEF Take
  <2>3. /\ disk' \in DiskOn(DOMAIN disk.file) /\ DOMAIN disk'.file = DOMAIN disk.file
        /\ disk'.manifest = disk.manifest /\ disk'.hook = disk.hook
        /\ disk'.executable = disk.executable
    BY <1>2, <2>1 DEF DiskOn
  <2>4. \A f \in {facts} \cup Reworked : HasRoom(disk', f)
    BY <1>2, <2>3, RoomLeft DEF Typed
  <2>5. Typed' /\ HookWhole'
    BY <1>1, <1>2, <2>2, <2>3, <2>4 DEF Typed, HookWhole
  <2> QED BY <1>1, <2>5, KeptWithout
<1> QED BY <1>3, <1>4, <1>5

\* All but the answer of the network, and any bounds, being the same.
LEMMA KeptSame ==
  ASSUME Kept, answer' \in Addresses,
         UNCHANGED <<facts, git, disk, pc, args, plan, changes, left, values, outcome, before, half>>
  PROVE  Kept'
<1>1. Typed'
  BY DEF Kept, Typed
<1>2. HookWhole' /\ Ours' /\ Written'
  BY DEF Kept, HookWhole, Ours, Written, Applying, Idle
<1>3. ChangesTo(disk, plan)' = ChangesTo(disk, plan)
  BY DEF ChangesTo
<1>4. Pending'
  BY <1>3 DEF Kept, Pending, Applying, Idle
<1>5. PlanWith(before.manifest, args.port, "0.0.0.0")'
         = PlanWith(before.manifest, args.port, "0.0.0.0")
  BY DEF PlanWith
<1>6. Planned'
  BY <1>5 DEF Kept, Planned, Planning, Applying, Idle, Housed
<1> QED BY <1>1, <1>2, <1>4, <1>6 DEF Kept

LEMMA KeptMoves == ASSUME Kept, Moves PROVE Kept'
<1>1. /\ answer' \in Addresses
      /\ UNCHANGED <<facts, git, disk, pc, args, plan, changes, left, values, outcome, before, half>>
  BY DEF Moves, memory
<1> QED BY <1>1, KeptSame

LEMMA KeptUnreadable == ASSUME Kept, Unreadable PROVE Kept'
<1>1. pc # "mode" /\ Over("refused") /\ UNCHANGED <<disk, facts, answer, half>>
  BY DEF Unreadable, project
<1> QED BY <1>1, KeptOver

LEMMA KeptNext == ASSUME Untouched, Kept, [SetupNext]_vars PROVE Kept'
<1>1. CASE UNCHANGED vars
  <2>1. /\ answer' \in Addresses
        /\ UNCHANGED <<facts, git, disk, pc, args, plan, changes, left, values, outcome, before, half>>
    BY <1>1 DEF vars, Kept, Typed
  <2> QED BY <2>1, KeptSame
<1>2. CASE InitSteps
  <2>1. CASE \E port \in Requested, dry \in BOOLEAN : Begin(port, dry)
    BY <2>1, KeptBegin
  <2>2. CASE Unreadable
    BY <2>2, KeptUnreadable
  <2>3. CASE DecidePlan
    BY <2>3, KeptDecidePlan
  <2>4. CASE CheckOwnership
    BY <2>4, KeptCheckOwnership
  <2>5. CASE Collect
    BY <2>5, KeptCollect
  <2>6. CASE Snapshot
    BY <2>6, KeptSnapshot
  <2>7. CASE Apply
    BY <2>7, KeptApply
  <2>7a. CASE MakeExecutable
    BY <2>7a, KeptMode
  <2>8. CASE WriteOutput
    BY <2>8, KeptWriteOutput
  <2>9. CASE Finish
    BY <2>9, KeptFinish
  <2>10. CASE Breaks("failed") \/ Breaks("killed")
    BY <2>10, KeptBreaks
  <2> QED BY <1>2, <2>1, <2>2, <2>3, <2>4, <2>5, <2>6, <2>7, <2>7a, <2>8, <2>9, <2>10
      DEF InitSteps
<1>3. CASE Rework \/ Clone \/ Take
  BY <1>3, KeptWorld
<1>4. CASE Moves
  BY <1>4, KeptMoves
<1> QED BY <1>1, <1>2, <1>3, <1>4 DEF SetupNext

----------------------------------------------------------------------------
(***************************************************************************)
(* init.rs:3-5: a refusal, wherever it comes from, and a dry run leave all *)
(* files as the run found them, whatever earlier runs left behind.         *)
(***************************************************************************)
THEOREM RefusalIsFree == SetupSpec => []RefusalChangesNothing
<1>1. Untouched => RefusalChangesNothing
  BY DEF Untouched
<1> QED BY <1>1, UntouchedInit, UntouchedNext, PTL DEF SetupSpec

\* The invariant that the others rest on holds for every project.
LEMMA AlwaysKept == SetupSpec => [](Untouched /\ Kept)
<1>1. SetupInit => Untouched /\ Kept
  BY UntouchedInit, KeptInit
<1>2. Untouched /\ Kept /\ [SetupNext]_vars => (Untouched /\ Kept)'
  BY UntouchedNext, KeptNext
<1> QED BY <1>1, <1>2, PTL DEF SetupSpec

\* A run that did its work has a plan and nothing left to change.
LEMMA DoneWork ==
  ASSUME Kept, Idle("ok")
  PROVE  /\ disk \in DiskOn(DOMAIN disk.file) /\ ChangesTo(disk, plan) = <<>>
         /\ plan.outputs \in Seq(Output) /\ plan.port \in Port
         /\ ~IsRefused(plan) /\ plan = PlanWith(before.manifest, args.port, "0.0.0.0")
         /\ plan = MakePlan(facts, Read(before.manifest), args.port, "0.0.0.0")
         /\ args.port \in Port
         /\ disk.manifest # Absent
         /\ before.manifest = Absent => disk.manifest = ManifestOf(plan)
         /\ before.manifest # Absent => /\ disk.manifest = before.manifest
                                        /\ disk.manifest \in Manifest
                                        /\ ValidManifest(disk.manifest)
<1>1. Planning /\ Typed /\ Planned /\ ChangesTo(disk, plan) = <<>>
  BY DEF Kept, Planning, Pending
<1>2. disk \in DiskOn(DOMAIN disk.file) /\ args.port \in Port
  BY <1>1 DEF Typed
<1>3. /\ plan.outputs \in Seq(Output) /\ plan.port \in Port /\ ~IsRefused(plan)
      /\ plan = MakePlan(facts, Read(before.manifest), args.port, "0.0.0.0")
      /\ before.manifest # Absent => before.manifest \in Manifest /\ ValidManifest(before.manifest)
  BY <1>1, PlanKnown
<1>4. disk.manifest # Absent
  BY <1>1, <1>2, <1>3, NothingLeft
<1> QED BY <1>1, <1>2, <1>3, <1>4 DEF Planned

(***************************************************************************)
(* init.rs:139-143: "Set up" means set up: every output is there and       *)
(* ignored by git, and where there is a hook it can be put in the check    *)
(* comes first and Git can run it, whatever earlier runs, a clone or the   *)
(* developer left; all but the hook of a run that died in writing it.      *)
(***************************************************************************)
THEOREM SaysSetUp == SetupSpec => []SetUp
<1>1. ASSUME Kept, Idle("ok") PROVE SetUp
  <2>1. /\ disk \in DiskOn(DOMAIN disk.file) /\ ChangesTo(disk, plan) = <<>>
        /\ plan.outputs \in Seq(Output) /\ plan.port \in Port
        /\ disk.manifest # Absent
    BY <1>1, DoneWork
  <2>2. /\ \A i \in 1..Len(plan.outputs) : Contains(Lines(disk.gitignore), plan.outputs[i].path)
        /\ git = "plain" => /\ disk.hook \in Text
                            /\ Contains(disk.hook, "begin") \/ disk.hook[1] = "#!python"
    BY <2>1, NothingLeft
  <2>3. \A path \in PathsIn(plan.outputs) : disk.file[path] = values
    BY <1>1 DEF Kept, Written, Idle, Applying
  <2>4. \A i \in 1..Len(plan.outputs) : disk.file[plan.outputs[i].path] = values
    BY <2>3 DEF PathsIn
  <2>5. ASSUME git = "plain", ~half 
        PROVE  \/ disk.hook[1] = "#!python"
               \/ ChecksFirst(disk.hook) /\ disk.executable
    <3>1. disk.hook \in Text /\ Lines(disk.hook) = disk.hook
      BY <2>2, <2>5, LinesAreText, MarksApart
    <3>2. Contains(disk.hook, "begin") => ChecksFirst(disk.hook) /\ disk.executable
      BY <1>1, <2>5, <3>1 DEF Kept, HookWhole, Idle
    <3> QED BY <2>2, <2>5, <3>2
  <2> QED BY <2>1, <2>2, <2>4, <2>5 DEF SetUp
<1>2. Kept => SetUp
  BY <1>1 DEF SetUp
<1> QED BY <1>2, AlwaysKept, PTL

(***************************************************************************)
(* scaffold.rs:3-5: init run again on what it left finds the same plan and *)
(* nothing to change, for every project whose port can be written down.    *)
(***************************************************************************)
THEOREM InitIsIdempotent == SetupSpec => []TwiceChangesNothing
<1>1. ASSUME Kept, Idle("ok"), ~Unreadably
      PROVE  PlanWith(disk.manifest, args.port, "0.0.0.0") = plan
  <2>1. CASE before.manifest # Absent
    <3>1. disk.manifest = before.manifest /\ plan = PlanWith(before.manifest, args.port, "0.0.0.0")
      BY <1>1, <2>1, DoneWork
    <3> QED BY <3>1
  <2>2. CASE before.manifest = Absent
    <3>1. /\ disk.manifest = ManifestOf(plan) /\ disk.manifest # Absent
          /\ plan = MakePlan(facts, NoManifest, args.port, "0.0.0.0")
          /\ ~IsRefused(plan) /\ args.port \in Port
          /\ plan.port # "0"
      BY <1>1, <2>2, DoneWork DEF Read, Unreadably
    <3>2. PICK w, m : w = args.port /\ m = disk.manifest
      OBVIOUS
    <3>3. /\ m \in Manifest /\ ValidManifest(m)
          /\ MakePlan(facts, m, w, "0.0.0.0") = plan
      BY <3>1, <3>2, WrittenDown
    <3>4. PlanWith(m, w, "0.0.0.0") = MakePlan(facts, m, w, "0.0.0.0")
      BY <3>1, <3>2, <3>3, MarksApart DEF PlanWith
    <3> QED BY <3>2, <3>3, <3>4
  <2> QED BY <2>1, <2>2
<1>2. ASSUME Kept, Idle("ok") PROVE ~IsRefused(plan) /\ ChangesTo(disk, plan) = <<>>
  BY <1>2, DoneWork
<1>3. Kept => TwiceChangesNothing
  BY <1>1, <1>2 DEF TwiceChangesNothing
<1> QED BY <1>3, AlwaysKept, PTL

(***************************************************************************)
(* scaffold.rs:123-127: `dev`, of the manifest that was written down, runs *)
(* the project with the port and address files init planned, whichever     *)
(* family it binds, for every project whose port can be written down.      *)
(***************************************************************************)
THEOREM InitMakesDev == SetupSpec => []InitThenDev
<1>1. ASSUME Kept, Idle("ok"), ~Unreadably, before.manifest = Absent \/ args.port = None,
             NEW bind
      PROVE  LET dev == PlanWith(disk.manifest, None, bind)
             IN ~IsRefused(dev) /\ dev.port = plan.port /\ dev.outputs = plan.outputs
  <2>1. CASE before.manifest # Absent
    <3>1. /\ disk.manifest = before.manifest /\ disk.manifest \in Manifest
          /\ ValidManifest(disk.manifest)
          /\ plan = MakePlan(facts, Read(before.manifest), args.port, "0.0.0.0")
          /\ ~IsRefused(plan) /\ args.port = None
      BY <1>1, <2>1, DoneWork
    <3>2. PICK m : m = disk.manifest
      OBVIOUS
    <3>3. m # Absent /\ m # Broken /\ ValidManifest(m) /\ Read(before.manifest) = m
      BY <2>1, <3>1, <3>2, MarksApart DEF Read
    <3>4. plan = MakePlan(facts, m, None, "0.0.0.0")
      BY <3>1, <3>3
    <3>5. PlanWith(m, None, bind) = MakePlan(facts, m, None, bind)
      BY <3>3 DEF PlanWith
    <3>6. /\ ~IsRefused(MakePlan(facts, m, None, bind))
          /\ MakePlan(facts, m, None, bind).port = plan.port
          /\ MakePlan(facts, m, None, bind).outputs = plan.outputs
      BY <3>1, <3>4, OtherFamily
    <3> QED BY <3>2, <3>5, <3>6
  <2>2. CASE before.manifest = Absent
    <3>1. /\ disk.manifest = ManifestOf(plan) /\ disk.manifest # Absent
          /\ plan = MakePlan(facts, NoManifest, args.port, "0.0.0.0")
          /\ ~IsRefused(plan) /\ args.port \in Port
          /\ plan.port # "0"
      BY <1>1, <2>2, DoneWork DEF Read, Unreadably
    <3>2. PICK w, m : w = args.port /\ m = disk.manifest
      OBVIOUS
    <3>3. /\ m \in Manifest /\ ValidManifest(m)
          /\ ~IsRefused(MakePlan(facts, m, None, bind))
          /\ MakePlan(facts, m, None, bind).port = plan.port
          /\ MakePlan(facts, m, None, bind).outputs = plan.outputs
      BY <3>1, <3>2, WrittenDown
    <3>4. PlanWith(m, None, bind) = MakePlan(facts, m, None, bind)
      BY <3>1, <3>2, <3>3, MarksApart DEF PlanWith
    <3> QED BY <3>2, <3>3, <3>4
  <2> QED BY <2>1, <2>2
<1>2. Kept => InitThenDev
  BY <1>1 DEF InitThenDev
<1> QED BY <1>2, AlwaysKept, PTL

(***************************************************************************)
(* scaffold.rs:3-5, 45-48, outputs.rs:44-48: no step of init loses a line  *)
(* of .gitignore or of the hook or passes one over another, replaces a     *)
(* manifest, or touches a file that is not its own, short of a plain write *)
(* that does not end.                                                      *)
(***************************************************************************)
THEOREM TheirsIsKept == SetupSpec => TheirsKept
<1> DEFINE Spares ==
       /\ TheirFiles(disk') = TheirFiles(disk)
       /\ outcome' \notin {"failed", "killed"} =>
             /\ Keeps(disk.gitignore, disk'.gitignore)
             /\ Keeps(disk.hook, disk'.hook)
             /\ disk.manifest # Absent => disk'.manifest = disk.manifest
<1>1. ASSUME UNCHANGED disk PROVE Spares
  BY <1>1, KeepsItself
<1>2. ASSUME Kept, InitSteps PROVE Spares
  <2>1. CASE \/ \E port \in Requested, dry \in BOOLEAN : Begin(port, dry)
             \/ Unreadable \/ DecidePlan \/ CheckOwnership \/ Collect \/ Snapshot \/ Finish
    <3>1. UNCHANGED disk
      BY <2>1 DEF Begin, Unreadable, DecidePlan, CheckOwnership, Collect, Snapshot, Finish
    <3> QED BY <3>1, <1>1
  <2>2. CASE Apply
    <3>1. Rest(disk, plan, disk')
      BY <1>2, <2>2, KeptApply
    <3>2. disk'.file = disk.file
      BY <3>1 DEF Rest
    <3>3. TheirFiles(disk') = TheirFiles(disk)
      BY <3>2 DEF TheirFiles
    <3> QED BY <3>1, <3>3 DEF Rest
  <2>2a. CASE MakeExecutable
    BY <1>2, <2>2a, KeptMode, KeepsItself DEF TheirFiles
  <2>3. CASE WriteOutput
    BY <1>2, <2>3, KeptWriteOutput, KeepsItself
  <2>4. CASE Breaks("failed")
    BY <1>2, <2>4, KeptBreaks
  <2>5. CASE Breaks("killed")
    BY <1>2, <2>5, KeptBreaks
  <2> QED BY <1>2, <2>1, <2>2, <2>2a, <2>3, <2>4, <2>5 DEF InitSteps
<1>3. ASSUME Kept, [SetupNext]_vars PROVE [pc # "idle" => Spares]_vars
  <2>1. CASE UNCHANGED vars
    BY <2>1
  <2>2. CASE InitSteps
    BY <1>2, <1>3, <2>2
  <2>3. CASE Rework \/ Clone \/ Take
    BY <2>3 DEF Rework, Clone, Take, Edited
  <2>4. CASE Moves
    <3>1. UNCHANGED disk
      BY <2>4 DEF Moves
    <3> QED BY <3>1, <1>1
  <2> QED BY <1>3, <2>1, <2>2, <2>3, <2>4 DEF SetupNext
<1> QED BY <1>3, AlwaysKept, PTL DEF SetupSpec, TheirsKept

\* The project is one of those it starts with or is made into.
Projects == {s.facts : s \in Situations} \cup Reworked

LEMMA ProjectKnown == SetupSpec => [](facts \in Projects)
<1>1. SetupInit => facts \in Projects
  BY DEF SetupInit, Projects
<1>2. facts \in Projects /\ [SetupNext]_vars => (facts \in Projects)'
  <2> SUFFICES ASSUME facts \in Projects, [SetupNext]_vars PROVE facts' \in Projects
    BY DEF Projects
  <2>1. CASE Rework
    BY <2>1 DEF Rework, Projects
  <2>2. CASE InitSteps
    BY <2>2 DEF InitSteps, Begin, Unreadable, DecidePlan, CheckOwnership, Collect, Snapshot, Apply,
                MakeExecutable, WriteOutput, Finish, Breaks, project
  <2>3. CASE Clone \/ Take \/ Moves \/ UNCHANGED vars
    BY <2>3 DEF Clone, Take, Moves, vars
  <2> QED BY <2>1, <2>2, <2>3 DEF SetupNext
<1> QED BY <1>1, <1>2, PTL DEF SetupSpec

(***************************************************************************)
(* project.rs:7-11: no flag is guessed.  Of every project whose scripts do *)
(* not contradict themselves, a server AutoNet told where to listen        *)
(* listens on the planned port and on every interface, whatever its script *)
(* says already and whichever of a flag given twice its parser believes.   *)
(***************************************************************************)
THEOREM ListensAsPlanned ==
  ASSUME \A f \in Projects : Coherent(f)
  PROVE  SetupSpec => []ListensWhereSaid
<1>1. ASSUME Kept, facts \in Projects PROVE ListensWhereSaid
  <2> SUFFICES ASSUME pc = "own", plan.binds_wildcard, plan.kind \in DOMAIN Recipe, plan.port # "0"
               PROVE  /\ PortsOf(facts, plan) = {plan.port}
                      /\ \A host \in HostsOf(facts, plan, "0.0.0.0") : IsWildcard(host)
    BY DEF ListensWhereSaid
  <2>1. Planning /\ Typed /\ Planned
    BY <1>1 DEF Kept, Planning
  <2>2. PICK m, w : m = Read(before.manifest) /\ w = args.port
    OBVIOUS
  <2>3. /\ plan = MakePlan(facts, m, w, "0.0.0.0") /\ ~IsRefused(plan)
        /\ before.manifest # Absent => before.manifest \in Manifest
    BY <2>1, <2>2, PlanKnown
  <2>4. w \in Port /\ m.port \in Port
    <3>1. m \in Manifest
      BY <2>2, <2>3, Defaults DEF Read
    <3> QED BY <2>1, <2>2, <3>1 DEF Typed, Manifest
  <2>5. "0.0.0.0" \notin Dashed /\ IsWildcard("0.0.0.0")
    BY DEF Dashed, IsWildcard
  <2>6. plan.binds_wildcard # FALSE
    BY Zenon
  <2>7. Coherent(facts)
    BY <1>1
  <2>8. Listens(facts, plan, "0.0.0.0")
    BY <2>3, <2>4, <2>5, <2>6, <2>7, PlanListens
  <2> QED BY <2>8 DEF Listens
<1>2. Kept /\ facts \in Projects => ListensWhereSaid
  BY <1>1
<1> QED BY <1>2, AlwaysKept, ProjectKnown, PTL

=============================================================================
