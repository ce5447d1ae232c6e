------------------------------ MODULE Commands ------------------------------
(***************************************************************************)
(* The commands that look once and end: status, ip, interfaces, routes,    *)
(* doctor and check (autonet-cli/src/main.rs, commands.rs, check.rs), run  *)
(* one after the other by a user, or by the hook of a commit, on a machine *)
(* whose network, processes and files move between any two steps.          *)
(***************************************************************************)
EXTENDS Ports, Config, Doctor, Scanner, FiniteSetsExt

CONSTANTS
    Files,        \* [path -> [kind, place]]: what the project's files are
    Texts,        \* what may be written into them
    Beginnings    \* the situations a behaviour may start in: those of Ports with
                  \* [user, network, tree, staged, head]; user has the flags, the
                  \* environment, the files of settings, the commands it uses,
                  \* the networks it moves between and whether there is Git

\* A path has one content, what the kernel lists is consistent, and what a
\* backend makes of a network is well formed.
ASSUME BeginningsArePossible ==
    \A b \in Beginnings :
        /\ KernelTables(b.sockets, b.procs)
        /\ b.platform \in {"linux", "macos", "windows"} /\ b.account \in Nat
        /\ b.privileged \in BOOLEAN /\ b.hidden \subseteq {"v4", "v6", "self"}
        /\ b.moves \in Nat
        /\ DOMAIN b.staged = DOMAIN Files /\ b.user.edits \subseteq DOMAIN Files
        /\ \A s \in {b.network} \cup b.user.networks : s # None => WellFormed(s)

VARIABLES
    user,        \* who uses AutoNet and how; never changes
    network,     \* the machine's network, None where it cannot be queried
    phase,       \* where the running command is, "prompt" between two
    command,     \* the command that runs or ran last
    config,      \* its settings
    code, out,   \* its exit code and what it printed
    codes,       \* history: what each command said of each network
    tree, staged, head,    \* the project: as it is, as staged, as committed
    listed,      \* the files the scan has not come to
    reports,     \* the files it had something to report of
    slipped      \* history: files staged anew since a hook made its list, or
                 \* that it could not read

project == <<tree, staged, head, listed, reports, slipped>>
cliVars == <<user, network, phase, command, config, code, out, codes, project>>
vars == <<portVars, cliVars>>

Flags == user.flags
Paths == DOMAIN Files

Init ==
    \E b \in Beginnings :
        /\ PortInit(b)
        /\ user = b.user /\ network = b.network
        /\ tree = b.tree /\ staged = b.staged /\ head = b.head
        /\ phase = "prompt" /\ command = None /\ config = None
        /\ code = None /\ out = None /\ codes = {}
        /\ listed = {} /\ reports = {} /\ slipped = {}

(***************************************************************************)
(* main.rs: the exit codes, and the command that is done.                  *)
(***************************************************************************)
ExitCode(result) ==
    CASE result \in {"ok", "stopped"} -> 0
      [] result \in {"no_address", "unhealthy"} -> 1
      [] result \in {"platform", "config", "usage"} -> 2

Ends(result, printed) ==
    /\ phase' = "prompt"
    /\ code' = ExitCode(result)
    /\ out' = printed

\* The command has looked at the network and says what it found.
Tells(s, result, printed) ==
    /\ Ends(result, printed)
    /\ codes' = codes \cup {<<command, s, ExitCode(result)>>}

Goes(next) == phase' = next /\ UNCHANGED <<code, out, codes>>

Invoke(c) ==
    /\ phase = "prompt"
    /\ c \in user.commands
    /\ command' = c
    /\ phase' = "load"
    /\ code' = None /\ out' = None /\ config' = None
    /\ listed' = {} /\ reports' = {} /\ slipped' = slipped
    /\ UNCHANGED <<portVars, user, network, codes, tree, staged, head>>

(***************************************************************************)
(* main::run: the settings come before anything else, check included, then *)
(* the way to ask the system, which there may not be; and status refuses a *)
(* QR code it cannot draw before it looks at the machine.                  *)
(***************************************************************************)
RefusesQr(c) == Flags.qr /\ (Flags.json \/ PortOf(c, Flags) = None)

Load ==
    /\ phase = "load"
    /\ \E loaded \in {LoadLayered(user.disk, user.roots, user.env, Flags.config)} :
          \/ /\ loaded = Unreadable
             /\ Ends("config", None) /\ UNCHANGED <<config, codes>>
          \/ /\ loaded # Unreadable
             /\ Ends("platform", None) /\ UNCHANGED <<config, codes>>
          \/ /\ loaded # Unreadable
             /\ config' = WithFlags(loaded, Flags)
             /\ CASE command \in {"check", "commit"} -> Goes("list")
                  [] command = "status" /\ RefusesQr(config') ->
                       Ends("usage", None) /\ UNCHANGED codes
                  [] OTHER -> Goes("snapshot")
    /\ UNCHANGED <<portVars, user, network, command, project>>

\* The settings as the selector takes them: names for patterns.
Selecting(c, s) ==
    [prefer_family |-> c.prefer_family, allow_loopback |-> c.allow_loopback,
     allow_link_local |-> c.allow_link_local, allow_vpn |-> c.allow_vpn,
     allow_container |-> c.allow_container, include_down |-> c.include_down,
     require |-> c.require,
     exclude |-> {i.name : i \in {j \in ToSet(s.interfaces) :
                                    AnyNameMatches(c.exclude, j.name)}},
     prefer |-> {i.name : i \in {j \in ToSet(s.interfaces) :
                                    AnyNameMatches(c.prefer, j.name)}}]

Chosen(c, s) == Selected(s, Selecting(c, s))

\* check_requested_interface: a name the machine does not have.
MissesInterface(c, s) == c.require # None /\ InterfaceByName(s, c.require) = {}

(***************************************************************************)
(* What is printed: status's document, ip's one line, doctor's checklist.  *)
(***************************************************************************)
Document(c, selected) ==
    [kind |-> "document", selected |-> selected,
     port |-> IF selected = None THEN None ELSE PortOf(c, Flags)]

IpLine(c, selected) ==
    CASE selected = None -> IF Flags.json THEN Document(c, None) ELSE None
      [] selected # None /\ Flags.json -> Document(c, selected)
      [] OTHER -> [kind |-> IF PortOf(c, Flags) = None THEN "address" ELSE "url",
                   selected |-> selected, port |-> PortOf(c, Flags)]

Status(s) ==
    \E selected \in {Chosen(config, s)} :
        Tells(s, IF selected = None THEN "no_address" ELSE "ok",
              Document(config, selected))

Ip(s) ==
    \E selected \in {Chosen(config, s)} :
        Tells(s, IF selected = None THEN "no_address" ELSE "ok",
              IpLine(config, selected))

Report(checks) == [kind |-> "checklist", verdict |-> Verdict(checks),
                   outcome |-> Outcome(checks)]

DoctorEnds(s, probe) ==
    \E checks \in {Checks(s, Selecting(config, s), probe)} :
        Tells(s, IF Healthy(checks) THEN "ok" ELSE "unhealthy", Report(checks))

\* A snapshot that cannot be taken ends every command, doctor's after its
\* checklist; a name that is none ends those that choose an address.
Snapshot ==
    /\ phase = "snapshot"
    /\ \/ /\ network = None
          /\ Tells(None, "platform", IF command # "doctor" THEN None
                                     ELSE Report(Checks(None, None, None)))
          /\ UNCHANGED portVars
       \/ /\ network # None
          /\ command \in {"interfaces", "routes"}
          /\ Tells(network, "ok", None) /\ UNCHANGED portVars
       \/ /\ network # None /\ command \in {"status", "ip", "doctor"}
          /\ MissesInterface(config, network)
          /\ Tells(network, "usage", None) /\ UNCHANGED portVars
       \/ /\ network # None /\ ~MissesInterface(config, network)
          /\ command = "status" /\ Status(network) /\ UNCHANGED portVars
       \/ /\ network # None /\ ~MissesInterface(config, network)
          /\ command = "ip" /\ Ip(network) /\ UNCHANGED portVars
       \/ /\ network # None /\ ~MissesInterface(config, network)
          /\ command = "doctor"
          /\ \E selected \in {Chosen(config, network)} :
               IF selected # None /\ PortOf(config, Flags) # None
               THEN /\ Inspect([family |-> selected.family, host |-> selected.ip,
                                mapped |-> FALSE])
                    /\ phase' = "probe"
                    /\ out' = network      \* the snapshot the report will be of
                    /\ UNCHANGED <<code, codes>>
               ELSE DoctorEnds(network, None) /\ UNCHANGED portVars
    /\ UNCHANGED <<user, network, command, config, project>>

Probe == phase = "probe" /\ PortStep /\ UNCHANGED cliVars

Diagnose ==
    /\ phase = "probe" /\ at = "answered"
    /\ DoctorEnds(out, <<onAddress, onWildcard>>)
    /\ Forget
    /\ UNCHANGED <<user, network, command, config, project>>

(***************************************************************************)
(* check.rs: the files are listed, then read one by one.  What a commit's  *)
(* hook lists and reads is what is staged (--staged).  Git may fail: it    *)
(* lists nothing, or does not show a file it listed.                       *)
(***************************************************************************)
Listing(git) ==
    CASE command = "commit" -> {f \in Paths : staged[f] \notin {None, head[f]}}
      [] command = "check" /\ git ->
            {f \in Paths : \/ staged[f] # None
                           \/ tree[f] # None /\ Files[f].place # "ignored"}
      [] OTHER -> {f \in Paths : tree[f] # None /\ ~IsSkippedDirectory(Files[f].place)}

List ==
    /\ phase = "list"
    /\ \E git \in {user.git, FALSE} :
          IF command = "commit" /\ ~git
          THEN Ends("usage", None) /\ UNCHANGED <<codes, listed>>
          ELSE Goes("scan") /\ listed' = {f \in Listing(git) : IsCheckedPath(Files[f].kind)}
    /\ slipped' = {}
    /\ UNCHANGED <<portVars, user, network, command, config, tree, staged, head, reports>>

\* A mistake: the working tree, whatever is staged.
ReadTree(f) == tree[f]

\* The index and not the working tree is what a commit has in it.
Read(f) == IF command = "commit" THEN staged[f] ELSE tree[f]

Scan ==
    /\ phase = "scan" /\ listed # {}
    /\ \E f \in listed :
          /\ listed' = listed \ {f}
          /\ reports' = IF Findings(Read(f)) = {} THEN reports ELSE reports \cup {f}
    /\ UNCHANGED <<portVars, user, network, phase, command, config, code, out, codes,
                   tree, staged, head, slipped>>

\* Git does not show a file it listed, or the tree's cannot be opened: the
\* scan goes on without it.
Skip ==
    /\ phase = "scan"
    /\ \E f \in listed : listed' = listed \ {f} /\ slipped' = slipped \cup {f}
    /\ UNCHANGED <<portVars, user, network, phase, command, config, code, out, codes,
                   tree, staged, head, reports>>

\* A commit goes through if its hook exits with zero (external: Git commits
\* what is staged by then).
ScanEnds ==
    /\ phase = "scan" /\ listed = {}
    /\ Ends(IF reports = {} THEN "ok" ELSE "unhealthy", reports)
    /\ head' = IF command = "commit" /\ reports = {} THEN staged ELSE head
    /\ UNCHANGED <<portVars, user, network, command, config, codes, tree, staged,
                   listed, reports, slipped>>

AutoNet ==
    \/ \E c \in user.commands : Invoke(c)
    \/ Load \/ Snapshot \/ Probe \/ Diagnose \/ List \/ Scan \/ Skip \/ ScanEnds

----------------------------------------------------------------------------
(***************************************************************************)
(* The machine moves (external): its network, its processes, its files.    *)
(***************************************************************************)
NetworkMoves(s) ==
    /\ s # network
    /\ network' = s
    /\ UNCHANGED <<sockets, procs>> /\ Moves({})
    /\ UNCHANGED <<user, phase, command, config, code, out, codes, project>>

ProcessesMove == MachineStep /\ UNCHANGED cliVars

Edit(f, text) ==
    /\ text # tree[f]
    /\ tree' = [tree EXCEPT ![f] = text]
    /\ UNCHANGED <<sockets, procs>> /\ Moves({})
    /\ UNCHANGED <<user, network, phase, command, config, code, out, codes,
                   staged, head, listed, reports, slipped>>

Stage(f) ==
    /\ tree[f] # staged[f]
    /\ staged' = [staged EXCEPT ![f] = tree[f]]
    /\ slipped' = IF phase = "scan" THEN slipped \cup {f} ELSE slipped
    /\ UNCHANGED <<sockets, procs>> /\ Moves({})
    /\ UNCHANGED <<user, network, phase, command, config, code, out, codes,
                   tree, head, listed, reports>>

Environment ==
    \/ \E s \in user.networks : NetworkMoves(s)
    \/ user.processes /\ ProcessesMove
    \/ \E f \in user.edits : (\E text \in Texts : Edit(f, text)) \/ Stage(f)

Next == AutoNet \/ Environment

Spec == Init /\ [][Next]_vars

----------------------------------------------------------------------------
TypeOK ==
    /\ PortTypeOK
    /\ phase \in {"prompt", "load", "snapshot", "probe", "list", "scan"}
    /\ code \in {None, 0, 1, 2}
    /\ listed \subseteq Paths /\ reports \subseteq Paths /\ slipped \subseteq Paths

Codes(c) == {k \in {0, 1, 2} : <<c, network, k>> \in codes}

(***************************************************************************)
(* commands.rs:531-538 and cli.rs:223: on one network, the commands tell   *)
(* one story, in whatever order they are run and whatever the port's       *)
(* holders do meanwhile: each has one exit code; status and ip agree; a    *)
(* machine doctor is content with has an address, and one it cannot query  *)
(* none; and where ip has one and doctor is not content, it is for want of *)
(* a default route or because the address is no other device's to use.     *)
(***************************************************************************)
NoPeer(s, selected) ==
    \/ ~IsReachableByPeers(selected.scope)
    \/ selected.kind = "loopback"
    \/ \E i \in InterfaceByIndex(s, selected.index) : IsDown(i.state)

OneVerdict ==
    phase = "prompt" =>
        /\ \A c \in user.commands : Cardinality(Codes(c)) <= 1
        /\ (Codes("status") # {} /\ Codes("ip") # {}) => Codes("status") = Codes("ip")
        /\ (Codes("doctor") \in {{0}, {2}} /\ Codes("ip") # {})
              => Codes("ip") = Codes("doctor")
        /\ (Codes("doctor") = {1} /\ Codes("ip") = {0} /\ config # None)
              => \/ DefaultRoutes(network) = {}
                 \/ NoPeer(network, Chosen(config, network))

(***************************************************************************)
(* cli.rs:455-490: an address that is printed obeys every flag that was    *)
(* given, whatever the file and the environment say: it is on the          *)
(* interface asked for and on none that a flag or a layer below excludes,  *)
(* of the family asked for, on a loopback link only where some layer says  *)
(* so, and with the port that was typed.                                   *)
(***************************************************************************)
Below == LoadLayered(user.disk, user.roots, user.env, Flags.config)

FlagsObeyed ==
    (phase = "prompt" /\ command \in {"status", "ip"} /\ code = 0)
        => /\ Flags.interface # None => out.selected.interface = Flags.interface
           /\ ~AnyNameMatches(Flags.exclude \cup Below.exclude, out.selected.interface)
           /\ Flags.family # None => Admits(Flags.family, out.selected.family)
           /\ out.selected.scope = "loopback"
                 => Flags.allow_loopback \/ Below.allow_loopback
           /\ Flags.port \notin {None, 0} => out.port = Flags.port

(***************************************************************************)
(* check.rs:111-113: what a commit puts into the project has no address    *)
(* written by hand in it, whatever the working tree looks like by then and *)
(* however often the developer staged, edited and tried again; unless the  *)
(* file was staged anew while the hook ran, or Git did not show it to the  *)
(* hook, which passes over it without a word (check.rs:114-116).           *)
(***************************************************************************)
CommittedClean ==
    [][\A f \in Paths \ slipped :
          (head'[f] # head[f] /\ IsCheckedPath(Files[f].kind)) => Findings(head'[f]) = {}]_vars

============================================================================
