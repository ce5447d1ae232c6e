------------------------------- MODULE Config -------------------------------
(***************************************************************************)
(* How a setting gets its value (autonet-core/src/config.rs, and           *)
(* GlobalArgs::config and port of autonet-cli/src/cli.rs): built-in        *)
(* defaults, the file, the environment and the flags, in layers.           *)
(*                                                                         *)
(* A layer is a function from the settings it mentions to their values.    *)
(* Interface names are sequences of parts, so that a pattern ending in `*' *)
(* can match a prefix.                                                     *)
(***************************************************************************)
EXTENDS Integers, Sequences, SequencesExt, Option

CONSTANTS
    Unreadable,  \* a file that cannot be read, does not parse or has a key too many
    Blank,       \* a variable set to nothing; one of a setting, to white space too
    Garbled      \* one whose value does not parse

Defaults ==
    [prefer_family |-> "v4", allow_loopback |-> FALSE, allow_link_local |-> FALSE,
     allow_vpn |-> FALSE, allow_container |-> FALSE, include_down |-> FALSE,
     exclude |-> {}, prefer |-> {}, require |-> None,
     default_port |-> None, enabled |-> FALSE, name |-> None]

\* The file is looked for under the first root that is set and not empty; only
\* a home directory grows a .config.
DefaultPath(roots) ==
    CASE roots.xdg \notin {None, Blank}     -> <<roots.xdg>>
      [] roots.xdg \in {None, Blank} /\ roots.appdata \notin {None, Blank} ->
            <<roots.appdata>>
      [] roots.xdg \in {None, Blank} /\ roots.appdata \in {None, Blank}
         /\ roots.home \notin {None, Blank} -> <<roots.home, ".config">>
      [] OTHER -> None

\* load_from and load_default: a file that was asked for by name has to be
\* there; the default one need not be, but must be right if it is.
FileLayer(disk, explicit, roots) ==
    LET path == IF explicit # None THEN explicit ELSE DefaultPath(roots)
    IN  IF path \in DOMAIN disk THEN disk[path]
        ELSE IF explicit # None THEN Unreadable ELSE <<>>

\* The variables and the settings they replace.  There is none for `enabled'.
Variables ==
    [AUTONET_FAMILY |-> "prefer_family", AUTONET_INTERFACE |-> "require",
     AUTONET_EXCLUDE_INTERFACES |-> "exclude", AUTONET_ALLOW_VPN |-> "allow_vpn",
     AUTONET_ALLOW_CONTAINER |-> "allow_container",
     AUTONET_ALLOW_LOOPBACK |-> "allow_loopback", AUTONET_HOSTNAME |-> "name"]

Said(env) == {v \in DOMAIN env : env[v] # Blank}

EnvLayer(env) ==
    [s \in {Variables[v] : v \in Said(env)} |->
        env[CHOOSE v \in Said(env) : Variables[v] = s]]

\* load_layered: each setting has the value of the topmost layer that mentions
\* it; Unreadable stands for either error.
LoadLayered(disk, roots, env, explicit) ==
    LET file == FileLayer(disk, explicit, roots)
        said == EnvLayer(env)
    IN  IF file = Unreadable \/ \E v \in Said(env) : env[v] = Garbled
        THEN Unreadable
        ELSE [s \in DOMAIN Defaults |-> IF s \in DOMAIN said THEN said[s]
                                       ELSE IF s \in DOMAIN file THEN file[s]
                                       ELSE Defaults[s]]

\* A mistake: the flag's exclusions lost where another layer has some.
WithFlagsLastExclude(config, flags) ==
    [config EXCEPT
        !.prefer_family = IF flags.family # None THEN flags.family ELSE @,
        !.require = IF flags.interface # None THEN flags.interface ELSE @,
        !.exclude = IF @ # {} THEN @ ELSE flags.exclude,
        !.allow_vpn = @ \/ flags.allow_vpn,
        !.allow_container = @ \/ flags.allow_container,
        !.allow_loopback = @ \/ flags.allow_loopback]

\* GlobalArgs::config: a name and a family replace, exclusions are added, a
\* switch can only be turned on.
WithFlags(config, flags) ==
    [config EXCEPT
        !.prefer_family = IF flags.family # None THEN flags.family ELSE @,
        !.require = IF flags.interface # None THEN flags.interface ELSE @,
        !.exclude = @ \cup flags.exclude,
        !.allow_vpn = @ \/ flags.allow_vpn,
        !.allow_container = @ \/ flags.allow_container,
        !.allow_loopback = @ \/ flags.allow_loopback]

\* GlobalArgs::port: zero means none, and a zero typed hides the file's port.
PortOf(config, flags) ==
    LET port == IF flags.port # None THEN flags.port ELSE config.default_port
    IN  IF port = 0 THEN None ELSE port

\* name_matches: the whole name, or a prefix of it.
NameMatches(pattern, name) ==
    IF pattern.star THEN IsPrefix(pattern.stem, name) ELSE pattern.stem = name

AnyNameMatches(patterns, name) == \E p \in patterns : NameMatches(p, name)

============================================================================
