------------------------------- MODULE Setup --------------------------------
(***************************************************************************)
(* `autonet init` (autonet-cli/src/init.rs, autodetect.rs, outputs.rs,     *)
(* autonet-core/src/scaffold.rs): a project set up once, from the files as *)
(* they are, and again, in whatever state it was left.                     *)
(*                                                                         *)
(* Texts are sequences of lines, as many as tell them apart.  A plain      *)
(* write truncates before it fills: what fails or dies in it leaves a      *)
(* prefix.  The address files are renamed into place.  A hook that Git is   *)
(* to run has to be executable besides, which is a call of its own.        *)
(* Nobody else writes while init runs.                                     *)
(***************************************************************************)
EXTENDS Frameworks

CONSTANTS
    Absent,      \* no such file
    Broken,      \* a manifest that does not parse
    Foreign,     \* a file AutoNet did not write
    Situations,  \* where it starts: facts, git, disk and chances
    Reworked,    \* what the developer may make of the project's files
    Requested,   \* values of --port, None without
    Addresses    \* the answers the network may have, None among them

\* What a file that AutoNet reads or writes may hold.
Text == Seq(STRING)
Port == {None} \cup PortTexts
Output == [format : STRING, path : STRING, prefix : {None} \cup STRING]
Manifest == [command : {None} \cup Text, port : Port,
             background : Seq(Text), output : Seq(Output)]
Values == [ip : {"127.0.0.1"} \cup Addresses, port : Port, online : BOOLEAN]

\* The words init writes of its own accord are texts, which the provers ask.
ASSUME LiteralsAreTexts ==
    Dashed \cup {"env", "ts", "js", "json", "dart", "properties", "xcconfig",
     ".env.development.local", ".env.autonet", "autonet.generated.ts",
     "autonet.generated.js", "src/autonet.generated.ts", "src/autonet.generated.js",
     "autonet.generated.json", "lib/autonet.g.dart", "autonet.properties",
     "Autonet.xcconfig", "VITE_", "PUBLIC_", "NEXT_PUBLIC_",
     "bare", "localhost", "begin", "body", "end", "#!sh", "# rewritten by dev"} \subseteq STRING

\* As the numbers it knows are ports, what is left of one cut short among them.
ASSUME NumbersArePorts ==
    {"0", "3000", "4200", "4321", "5173", "8000", "8081", "half"} \subseteq PortTexts

\* The marks stand for something else than what a file says.
ASSUME MarksAreNoData ==
    /\ {Absent, Broken, None} \cap (Manifest \cup Text) = {}
    /\ Absent \notin {Broken, None}
    /\ None \notin STRING
    /\ Foreign \notin Values

VARIABLES
    facts,    \* the project's files
    git,      \* "none", "plain" or "managed" (core.hooksPath)
    disk,     \* the files AutoNet writes: manifest, gitignore, hook, file;
              \* and whether the hook is executable
    answer,   \* the address the selector would choose
    chances,    \* how much more may happen to it: a bound
    pc,       \* where init is
    args,     \* --port and --dry-run
    plan,     \* the plan it made
    changes,  \* changes still to apply
    left,     \* address files still to write
    values,   \* what they are to say
    outcome,  \* how the last run ended
    before,   \* history: disk when that run began
    half      \* history: the hook is what a run left that died in writing it

vars == <<facts, git, disk, answer, chances, pc, args, plan, changes, left, values,
          outcome, before, half>>
project == <<facts, git, answer, chances>>
memory == <<args, plan, values>>

NoArgs == [port |-> None, dry |-> FALSE]

Lines(text) == IF text = Absent THEN <<>> ELSE text

----------------------------------------------------------------------------
\* The texts init writes (scaffold.rs).

Block == <<"begin", "body", "end">>
Shebangs == {"#!sh", "#!python"}

\* A mistake: the check put in a hook that has it.
HookAgain(hook) ==
    IF Lines(hook) = <<>> THEN <<"#!sh">> \o Block
    ELSE IF Head(hook) = "#!python" THEN None
    ELSE <<"#!sh">> \o Block \o hook

\* A pre-commit hook with the check in it, None if it cannot or need not be
\* put there: straight after the shebang, before whatever is there.
HookWithCheck(hook) ==
    IF Lines(hook) = <<>> THEN <<"#!sh">> \o Block
    ELSE IF Contains(hook, "begin") THEN None
    ELSE IF Head(hook) \notin Shebangs THEN <<"#!sh">> \o Block \o hook
    ELSE IF Head(hook) = "#!python" THEN None
    ELSE <<Head(hook)>> \o Block \o Tail(hook)

Paths(outputs) == [i \in 1..Len(outputs) |-> outputs[i].path]
PathsIn(outputs) == {outputs[i].path : i \in 1..Len(outputs)}

\* A mistake: one output taken for all of them.
GitignoreWithFirst(gitignore, outputs) ==
    IF Contains(Lines(gitignore), Head(Paths(outputs))) THEN None
    ELSE Lines(gitignore) \o <<Head(Paths(outputs))>>

\* .gitignore with every output in it, None if they are.
GitignoreWith(gitignore, outputs) ==
    LET paths   == Paths(outputs)
        missing == {i \in 1..Len(paths) : ~Contains(Lines(gitignore), paths[i])}
    IN IF missing = {} THEN None
       ELSE Lines(gitignore) \o <<"# rewritten by dev">> \o Picked(paths, missing)

\* A mistake: the port left to detection.
ManifestWithoutPort(p) == [NoManifest EXCEPT !.output = p.outputs]

\* autonet.toml as its own parser reads it back.
ManifestOf(p) == [NoManifest EXCEPT !.port = p.port, !.output = p.outputs]

\* A file and what it becomes, nothing where that is None.
Change(target, text) ==
    IF text = None THEN <<>> ELSE <<[target |-> target, text |-> text]>>

\* What init would change, apart from the address files.
ChangesTo(d, p) ==
    Change("manifest", IF d.manifest = Absent THEN ManifestOf(p) ELSE None)
        \o Change("gitignore", GitignoreWith(d.gitignore, p.outputs))
        \o Change("hook", IF git = "plain" THEN HookWithCheck(d.hook) ELSE None)

\* The plan of a project whose manifest is this one.
PlanWith(manifest, port, bind) ==
    IF manifest = Broken \/ (manifest # Absent /\ ~ValidManifest(manifest))
      THEN Refused("manifest")
    ELSE MakePlan(facts, IF manifest = Absent THEN NoManifest ELSE manifest, port, bind)

\* A disk with these paths, where this project's files may be put.
DiskOn(paths) ==
    [manifest : {Absent, Broken} \cup Manifest, gitignore : {Absent} \cup Text,
     hook : {Absent} \cup Text, executable : BOOLEAN,
     file : [paths -> {Absent, Foreign} \cup Values]]

HasRoom(d, f) ==
    /\ PathsIn(OutputsOf(Detect(f), f, NoManifest)) \subseteq DOMAIN d.file
    /\ d.manifest \notin {Absent, Broken} /\ ValidManifest(d.manifest) =>
          PathsIn(d.manifest.output) \subseteq DOMAIN d.file

\* The hook runs the check before anything else.
ChecksFirst(hook) == SubSeq(hook, 1, 4) = <<"#!sh">> \o Block

\* A project starts with files it can have: a check in its hook is init's.
ASSUME SituationsArePossible ==
    /\ Requested \subseteq Port
    /\ \A s \in Situations :
          /\ s.disk \in DiskOn(DOMAIN s.disk.file)
          /\ \A f \in {s.facts} \cup Reworked : HasRoom(s.disk, f)
          /\ s.disk.executable => s.disk.hook # Absent
          /\ Contains(Lines(s.disk.hook), "begin") =>
                ChecksFirst(s.disk.hook) /\ s.disk.executable

\* A script that does not contradict itself: the ports it gives its program
\* are numbers and all the same, its hosts are all the same, and what AutoNet
\* puts in the environment it leaves alone.
Token == [word : STRING, value : {None} \cup STRING]

Consistent(kind, script) ==
    LET said(names)   == Given(Tokenize(script), names)
        alike(given)  == \A u, v \in given : u = v
        ports         == said(Recipe[kind].port_flags)
    IN /\ script \in Seq(Token)
       /\ Tokenize(script) # None =>
             alike(ports) /\ ports \subseteq PortTexts /\ alike(said(Recipe[kind].host_flags))
       /\ \A i \in 1..(Program(script) - 1) : script[i].word \notin DOMAIN EnvFor(kind)

\* A project none of whose scripts does, those with shell syntax apart: no
\* recipe reads them.
Coherent(f) ==
    f.package # None /\ Detect(f) \in DOMAIN Recipe =>
        \A name \in DOMAIN f.package.scripts :
            LET script == f.package.scripts[name]
            IN script # Shell => Consistent(Detect(f), script)

\* What an address file is to say.
ValuesFor(ip, port) ==
    IF ip = None THEN [ip |-> "127.0.0.1", port |-> port, online |-> FALSE]
    ELSE [ip |-> ip, port |-> port, online |-> TRUE]

----------------------------------------------------------------------------
SetupInit ==
    /\ \E s \in Situations :
          facts = s.facts /\ git = s.git /\ disk = s.disk /\ chances = s.chances
    /\ answer \in Addresses
    /\ pc = "idle"
    /\ args = NoArgs
    /\ plan = None /\ values = None
    /\ changes = <<>> /\ left = <<>>
    /\ outcome = "none"
    /\ before = disk
    /\ half = FALSE

\* init is run; --port 0 asks for nothing.
Begin(port, dry) ==
    /\ pc = "idle"
    /\ pc' = "plan"
    /\ args' = [port |-> IF port = "0" THEN None ELSE port, dry |-> dry]
    /\ before' = disk
    /\ outcome' = "none"
    /\ plan' = None /\ values' = None
    /\ UNCHANGED <<project, disk, changes, left, half>>

Forget == args' = NoArgs /\ plan' = None /\ values' = None

\* The process is gone; of one that did its work the rest is kept as history.
Over(how) ==
    /\ pc' = "idle"
    /\ outcome' = how
    /\ changes' = <<>> /\ left' = <<>>
    /\ IF how = "ok" THEN UNCHANGED memory ELSE Forget

\* Something cannot be read, or the snapshot fails.
Unreadable ==
    /\ pc \in {"plan", "own", "collect", "snapshot"}
    /\ Over("refused")
    /\ UNCHANGED <<project, disk, before, half>>

\* The facts and the manifest, and the plan they make.
DecidePlan ==
    /\ pc = "plan"
    /\ \E p \in {PlanWith(disk.manifest, args.port, "0.0.0.0")} :
          IF IsRefused(p)
            THEN Over("refused")
            ELSE plan' = p /\ pc' = "own" /\ UNCHANGED <<args, values, outcome, changes, left>>
    /\ UNCHANGED <<project, disk, before, half>>

\* A mistake: only the first output looked at.
CheckFirst ==
    /\ pc = "own"
    /\ IF disk.file[plan.outputs[1].path] = Foreign
         THEN Over("refused")
         ELSE pc' = "collect" /\ UNCHANGED <<memory, outcome, changes, left>>
    /\ UNCHANGED <<project, disk, before, half>>

\* check_ownership: all outputs before any is written.
CheckOwnership ==
    /\ pc = "own"
    /\ IF \E i \in 1..Len(plan.outputs) : disk.file[plan.outputs[i].path] = Foreign
         THEN Over("refused")
         ELSE pc' = "collect" /\ UNCHANGED <<memory, outcome, changes, left>>
    /\ UNCHANGED <<project, disk, before, half>>

\* A mistake: the manifest written as soon as it is known.
CollectWriting ==
    /\ pc = "collect"
    /\ pc' = "snapshot"
    /\ changes' = ChangesTo(disk, plan)
    /\ disk' = IF disk.manifest = Absent /\ ~args.dry
                 THEN [disk EXCEPT !.manifest = ManifestOf(plan)] ELSE disk
    /\ UNCHANGED <<project, memory, left, outcome, before, half>>

\* Every change is computed before any is made.
Collect ==
    /\ pc = "collect"
    /\ pc' = "snapshot"
    /\ changes' = ChangesTo(disk, plan)
    /\ UNCHANGED <<project, memory, disk, left, outcome, before, half>>

\* The address; a dry run has said what it would do and ends.
Snapshot ==
    /\ pc = "snapshot"
    /\ IF args.dry
         THEN Over("dry")
         ELSE /\ pc' = "apply"
              /\ values' = ValuesFor(answer, plan.port)
              /\ left' = plan.outputs
              /\ UNCHANGED <<args, plan, outcome, changes>>
    /\ UNCHANGED <<project, disk, before, half>>

\* A file replaced by a plain write.
Apply ==
    /\ pc = "apply" /\ changes # <<>>
    /\ disk' = [disk EXCEPT ![Head(changes).target] = Head(changes).text]
    /\ changes' = Tail(changes)
    /\ IF Head(changes).target = "hook" THEN pc' = "mode" /\ half' = FALSE
                                       ELSE UNCHANGED <<pc, half>>
    /\ UNCHANGED <<project, memory, left, outcome, before>>

\* A mistake: the hook left with the mode a new file has.
ModeForgotten ==
    /\ pc = "mode"
    /\ pc' = "apply"
    /\ UNCHANGED <<project, memory, disk, changes, left, outcome, before, half>>

\* A hook just written is one Git can run; on Windows it always is.
MakeExecutable ==
    /\ pc = "mode"
    /\ pc' = "apply"
    /\ disk' = [disk EXCEPT !.executable = TRUE]
    /\ UNCHANGED <<project, memory, changes, left, outcome, before, half>>

\* One address file, atomically.
WriteOutput ==
    /\ pc = "apply" /\ changes = <<>> /\ left # <<>>
    /\ disk' = [disk EXCEPT !.file[Head(left).path] = values]
    /\ left' = Tail(left)
    /\ UNCHANGED <<project, memory, pc, changes, outcome, before, half>>

Finish ==
    /\ pc = "apply" /\ changes = <<>> /\ left = <<>>
    /\ Over("ok")
    /\ UNCHANGED <<project, disk, before, half>>

\* What a plain write that does not end leaves of a file: of the manifest
\* nothing that parses, or a part that does, down to half a port's digits.
Torn(change) ==
    IF change.target # "manifest"
      THEN {SubSeq(change.text, 1, n) : n \in 0..(Len(change.text) - 1)}
      ELSE LET first(n) == [change.text EXCEPT !.output = SubSeq(@, 1, n)]
               bare(n)  == [first(n) EXCEPT !.output[n].prefix = None]
               count    == Len(change.text.output)
           IN {Broken, NoManifest}
                \cup {first(n) : n \in 0..(count - 1)} \cup {bare(n) : n \in 1..count}
                \cup (IF change.text.port = None THEN {}
                      ELSE {[NoManifest EXCEPT !.port = "half"]})

Happens == chances > 0 /\ chances' = chances - 1

\* A write fails, or the change of a mode, and init with it, or the process is
\* killed; in a plain write, or between two steps.
Breaks(how) ==
    /\ pc \in (IF how = "failed" THEN {"apply", "mode"}
               ELSE {"plan", "own", "collect", "snapshot", "apply", "mode"})
    /\ how = "failed" => pc = "mode" \/ changes # <<>> \/ left # <<>>
    /\ \/ pc # "mode" /\ UNCHANGED <<disk, half>>
       \/ pc = "mode" /\ UNCHANGED disk /\ half' = ~disk.executable
       \/ /\ pc = "apply" /\ changes # <<>>
          /\ \E text \in Torn(Head(changes)) :
                disk' = [disk EXCEPT ![Head(changes).target] = text]
          /\ half' = (half \/ Head(changes).target = "hook")
    /\ Over(how)
    /\ before' = disk'
    /\ Happens
    /\ UNCHANGED <<facts, git, answer>>

InitSteps ==
    \/ \E port \in Requested, dry \in BOOLEAN : Begin(port, dry)
    \/ Unreadable \/ DecidePlan \/ CheckOwnership \/ Collect \/ Snapshot
    \/ Apply \/ MakeExecutable \/ WriteOutput \/ Finish
    \/ Breaks("failed") \/ Breaks("killed")

----------------------------------------------------------------------------
\* The developer, between two runs, and the network.

Edited ==
    /\ pc = "idle"
    /\ Happens
    /\ outcome' = "none"
    /\ Forget /\ before' = disk'
    /\ UNCHANGED <<git, answer, pc, changes, left>>

\* The project's files become others.
Rework ==
    /\ facts' \in Reworked
    /\ UNCHANGED <<disk, half>>
    /\ Edited

\* A fresh clone has what is committed: no hook, no address file.
Clone ==
    /\ disk' = [disk EXCEPT !.hook = Absent, !.executable = FALSE,
                            !.file = [p \in DOMAIN disk.file |-> Absent]]
    /\ half' = FALSE
    /\ UNCHANGED facts
    /\ Edited

\* The developer puts a file of their own where AutoNet would write one.
Take ==
    /\ \E path \in DOMAIN disk.file : disk' = [disk EXCEPT !.file[path] = Foreign]
    /\ UNCHANGED <<facts, half>>
    /\ Edited

\* The network moves.
Moves ==
    /\ Happens
    /\ answer' \in Addresses \ {answer}
    /\ UNCHANGED <<memory, facts, git, disk, pc, changes, left, outcome, before, half>>

SetupNext == InitSteps \/ Rework \/ Clone \/ Take \/ Moves

SetupSpec == SetupInit /\ [][SetupNext]_vars

----------------------------------------------------------------------------
Idle(how) == pc = "idle" /\ outcome = how

(***************************************************************************)
(* init.rs:3-5: every change is computed before any is made, so neither a  *)
(* refusal, wherever it comes from, nor a dry run changes anything.        *)
(***************************************************************************)
RefusalChangesNothing == Idle("refused") \/ Idle("dry") => disk = before

(***************************************************************************)
(* scaffold.rs:3-5, 45-48, outputs.rs:44-48: what the developer wrote      *)
(* stays - the lines of .gitignore and of the hook, in their order, files  *)
(* at an output's path, a manifest - short of a plain write that did not   *)
(* end.                                                                    *)
(***************************************************************************)
TheirFiles(d) == {path \in DOMAIN d.file : d.file[path] = Foreign}

\* Where each line of the old text went: none is lost and none passes another.
Placed(at, old, new) ==
    /\ \A i \in DOMAIN old : new[at[i]] = old[i]
    /\ \A i, j \in DOMAIN old : i < j => at[i] < at[j]

Keeps(old, new) ==
    \/ new = old
    \/ \E at \in [DOMAIN Lines(old) -> DOMAIN Lines(new)] : Placed(at, Lines(old), Lines(new))

TheirsKept ==
    [][pc # "idle" =>
          /\ TheirFiles(disk') = TheirFiles(disk)
          /\ outcome' \notin {"failed", "killed"} =>
                /\ Keeps(disk.gitignore, disk'.gitignore)
                /\ Keeps(disk.hook, disk'.hook)
                /\ disk.manifest # Absent => disk'.manifest = disk.manifest
      ]_vars

(***************************************************************************)
(* init.rs:139-143: "Set up" means set up, whatever state an earlier run   *)
(* that died between two steps, a clone or the developer left: every       *)
(* output is there and ignored by git, and where there is a hook the check *)
(* can be put in, Git can run it and the check comes before the rest of    *)
(* it.  Left out is the hook a run died in writing, between the truncation *)
(* and the change of its mode, as long as no later run has written it      *)
(* anew: the next one may find the check in it and look no further.        *)
(***************************************************************************)
SetUp ==
    Idle("ok") =>
        /\ disk.manifest # Absent
        /\ \A i \in 1..Len(plan.outputs) :
              LET path == plan.outputs[i].path
              IN /\ Contains(Lines(disk.gitignore), path)
                 /\ disk.file[path] = values
        /\ git = "plain" /\ ~half =>
              \/ disk.hook[1] = "#!python"
              \/ ChecksFirst(disk.hook) /\ disk.executable

(***************************************************************************)
(* project.rs:74, 678: a script may fix port 0, a manifest may not name it: *)
(* init writes one of those, and no command reads it again.                *)
(***************************************************************************)
Unreadably == before.manifest = Absent /\ plan.port = "0"

(***************************************************************************)
(* scaffold.rs:3-5, cli/tests/project.rs:322: run again on what it left,   *)
(* init finds nothing to change and the same plan, unless it wrote a       *)
(* manifest it cannot read.                                                *)
(***************************************************************************)
TwiceChangesNothing ==
    Idle("ok") /\ ~Unreadably =>
        LET again == PlanWith(disk.manifest, args.port, "0.0.0.0")
        IN ~IsRefused(again) /\ again = plan /\ ChangesTo(disk, again) = <<>>

(***************************************************************************)
(* scaffold.rs:123-127: the manifest written down makes `dev` run the      *)
(* project as init planned it, with the same port and address files, for   *)
(* either family, if it can read it at all.                                *)
(***************************************************************************)
InitThenDev ==
    Idle("ok") /\ ~Unreadably /\ (before.manifest = Absent \/ args.port = None) =>
        \A bind \in {"0.0.0.0", "::"} :
            LET dev == PlanWith(disk.manifest, None, bind)
            IN /\ ~IsRefused(dev)
               /\ dev.port = plan.port
               /\ dev.outputs = plan.outputs

(***************************************************************************)
(* project.rs:7-11: no flag is guessed, so a server AutoNet told where to  *)
(* listen listens on the planned port and on every interface, whatever the *)
(* script already says and however its parser reads a flag given twice; a  *)
(* script that asks for any port gets one.                                 *)
(***************************************************************************)
ListensWhereSaid ==
    pc = "own" /\ plan.binds_wildcard /\ plan.kind \in DOMAIN Recipe /\ plan.port # "0" =>
        /\ PortsOf(facts, plan) = {plan.port}
        /\ \A host \in HostsOf(facts, plan, "0.0.0.0") : IsWildcard(host)

=============================================================================
