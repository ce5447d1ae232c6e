----------------------------- MODULE MCCommands -----------------------------
(***************************************************************************)
(* Commands on small machines, one family of beginnings for each question: *)
(* a busy port and its processes, one story of several commands, the       *)
(* layers of the settings, and the commits of a project.                   *)
(***************************************************************************)
EXTENDS Commands

V4(h) == [family |-> "v4", host |-> h, mapped |-> FALSE]
V6(h) == [family |-> "v6", host |-> h, mapped |-> FALSE]
Mapped(h) == [family |-> "v6", host |-> h, mapped |-> TRUE]

Wifi == <<"wlan">>
Loop == <<"lo">>
Tun == <<"tun", "0">>
Dock(n) == <<"docker", n>>

Bound(ip, family, scope) ==
    [ip |-> ip, family |-> family, scope |-> scope, temporary |-> FALSE]

Interface(name, i, kind, state, addresses) ==
    [name |-> name, index |-> i, kind |-> kind, state |-> state,
     addresses |-> addresses]

Default(i, family) ==
    [default |-> TRUE, family |-> family, index |-> i, metric |-> 100,
     gateway |-> 99]

Loopback == Interface(Loop, 1, "loopback", "up", <<Bound(1, "v4", "loopback")>>)

Home == [interfaces |-> <<Loopback,
            Interface(Wifi, 2, "wireless", "up", <<Bound(10, "v4", "private")>>)>>,
         routes |-> <<Default(2, "v4")>>]
\* A host-only segment, next to a container bridge.
Segment == [interfaces |-> <<Loopback,
              Interface(Wifi, 2, "wireless", "up", <<Bound(10, "v4", "private")>>),
              Interface(Dock("0"), 3, "container", "up", <<Bound(20, "v4", "private")>>)>>,
            routes |-> <<>>]
Modern == [interfaces |-> <<Loopback,
             Interface(Wifi, 2, "wireless", "up", <<Bound(30, "v6", "global")>>)>>,
           routes |-> <<Default(2, "v6")>>]
Tunnel == [interfaces |-> <<Loopback,
             Interface(Wifi, 2, "wireless", "down", <<Bound(10, "v4", "private")>>),
             Interface(Tun, 4, "vpn", "unknown", <<Bound(40, "v4", "cgnat")>>)>>,
           routes |-> <<Default(4, "v4")>>]
Offline == [interfaces |-> <<Loopback>>, routes |-> <<>>]

NoFlags == [family |-> None, interface |-> None, exclude |-> {}, config |-> None,
            port |-> None, json |-> FALSE, qr |-> FALSE, allow_vpn |-> FALSE,
            allow_container |-> FALSE, allow_loopback |-> FALSE]

ConfigFile == <<"home", ".config">>
Roots == [xdg |-> Blank, appdata |-> None, home |-> "home"]
Quiet(layer) == ConfigFile :> layer

Somebody ==
    [flags |-> NoFlags, env |-> <<>>, disk |-> <<>>, roots |-> Roots,
     commands |-> {}, networks |-> {}, git |-> TRUE, processes |-> FALSE, edits |-> {}]

MCFiles == [code |-> [kind |-> "source", place |-> "ours"],
            notes |-> [kind |-> "prose", place |-> "ours"],
            built |-> [kind |-> "source", place |-> "ignored"],
            vendor |-> [kind |-> "source", place |-> "dependencies"]]

Token == [family |-> "v4", scope |-> "private", before |-> "other", after |-> "other",
          edge |-> FALSE, cidr |-> FALSE, versioned |-> FALSE]
Line(allow, tokens) == [allow |-> allow, tokens |-> tokens]
Text(generated, lines) == [generated |-> generated, lines |-> lines]

\* An address on a line of its own, one that is exempt, and what only looks
\* like one: a dependency's version, a network, a loopback and a word.
Typed == Text(FALSE, <<Line(FALSE, <<Token>>)>>)
Exempt == Text(FALSE, <<Line(TRUE, <<Token>>), Line(FALSE, <<>>)>>)
Shaped == Text(FALSE, <<Line(FALSE,
              << [Token EXCEPT !.versioned = TRUE], [Token EXCEPT !.cidr = TRUE],
                 [Token EXCEPT !.scope = "loopback"], [Token EXCEPT !.edge = TRUE],
                 [Token EXCEPT !.after = "word"], [Token EXCEPT !.before = "dot"],
                 [Token EXCEPT !.family = "v6", !.scope = "global"] >>)>>)
Half == Text(FALSE, <<Line(TRUE, <<Token>>),
                      Line(FALSE, <<[Token EXCEPT !.family = "v6",
                                                  !.scope = "unique_local"]>>)>>)
Made == Text(TRUE, <<Line(FALSE, <<Token>>)>>)

MCTexts == {None, Typed, Exempt, Half}

Empty == [f \in DOMAIN MCFiles |-> None]
Written == [Empty EXCEPT !.notes = Typed, !.built = Made, !.vendor = Opaque]

Machine(platform, socks, people, moving) ==
    [platform |-> platform, account |-> 7, privileged |-> FALSE, hidden |-> {},
     sockets |-> socks, procs |-> people, moves |-> moving]

Nobody == [p \in Pids |-> None]

Case(m, somebody, network0, project0) ==
    [platform |-> m.platform, account |-> m.account, privileged |-> m.privileged,
     hidden |-> m.hidden, sockets |-> m.sockets, procs |-> m.procs, moves |-> m.moves,
     user |-> somebody, network |-> network0,
     tree |-> project0, staged |-> Empty, head |-> Empty]

(***************************************************************************)
(* A port: a process of ours or of another account that holds it, one that *)
(* holds another, and three moves anywhere in the inspection; and one that *)
(* has ended and left it to its child, its number given to another.        *)
(***************************************************************************)
Listener(inode, address0, uid, pid, name) ==
    [inode |-> inode, address |-> address0, port |-> Port, uid |-> uid, pid |-> pid,
     listening |-> TRUE, by |-> name]
Process(uid, name, fds) == [uid |-> uid, name |-> name, fds |-> fds]
Unrelated == [Listener("i2", V4(10), 7, 2, "code") EXCEPT !.port = 9]

MCPeople == {[uid |-> 7, name |-> "vite"], [uid |-> 8, name |-> "nginx"]}
MCPlaces == {[address |-> V4(10), port |-> Port, listening |-> TRUE],
             [address |-> V6(Everywhere), port |-> Port, listening |-> TRUE],
             [address |-> V4(10), port |-> Port, listening |-> FALSE],
             [address |-> V4(10), port |-> 9, listening |-> TRUE]}

Asker == [Somebody EXCEPT !.flags = [NoFlags EXCEPT !.port = Port],
                          !.commands = {"doctor"}, !.processes = TRUE]
PortBeginnings ==
    {Case([Machine(platform, {Listener("i1", address0, uid, 1, "node"), Unrelated},
                   <<Process(uid, "node", {"i1"}), Process(7, "code", {"i2"})>>, moving)
             EXCEPT !.account = account, !.hidden = hidden, !.privileged = privileged],
          Asker, Home, Empty) :
        platform \in {"linux", "windows"},
        address0 \in {V4(10), V4(11), V4(Everywhere), V6(Everywhere), Mapped(10)},
        uid \in {7, 8}, moving \in {3}, account \in {7, 0},
        hidden \in {{}, {"self"}, {"v6"}}, privileged \in {FALSE}}
    \cup {Case(Machine("windows", {Listener("i1", V4(10), 7, 1, None)},
                       <<Process(7, "vite", {}), Process(7, "node", {"i1"})>>, 2),
               Asker, Home, Empty)}
    \cup {Case([Machine("macos", {Listener("i1", V4(10), 7, 1, "node")},
                        [Nobody EXCEPT ![1] = Process(7, "node", {"i1"})], 1)
                  EXCEPT !.privileged = privileged], Asker, Home, Empty) :
             privileged \in BOOLEAN}

(***************************************************************************)
(* One story: the commands in every order, again and again, while the      *)
(* machine moves between its networks.                                     *)
(***************************************************************************)
Story(flags, commands, networks, network0) ==
    Case(Machine("linux", {}, Nobody, 1),
         [Somebody EXCEPT !.flags = flags, !.commands = commands, !.networks = networks],
         network0, Empty)

StoryBeginnings ==
    {Story([NoFlags EXCEPT !.port = port, !.interface = interface, !.family = family,
                           !.allow_loopback = allow],
           {"status", "ip", "doctor"}, {Home, Offline}, network0) :
        port \in {None, Port}, interface \in {None, Wifi, Tun}, family \in {None, "v6"},
        allow \in BOOLEAN, network0 \in {None, Segment, Modern, Tunnel}}
    \cup {Story([NoFlags EXCEPT !.qr = TRUE, !.port = port],
                {"status", "ip", "interfaces", "routes"}, {}, network0) :
             port \in {None, Port}, network0 \in {None, Home}}

(***************************************************************************)
(* The layers: a file, found by name or by default, right or not, under    *)
(* variables and flags that say something else.                            *)
(***************************************************************************)
Pattern(stem, star) == [stem |-> stem, star |-> star]
LayerBeginnings ==
    {Case(Machine("linux", {}, Nobody, 0),
          [Somebody EXCEPT
              !.flags = [NoFlags EXCEPT !.port = port, !.json = json, !.exclude = exclude,
                                        !.config = explicit],
              !.env = env, !.disk = Quiet(layer), !.commands = {"status", "ip"}],
          Segment, Empty) :
        port \in {None, 0, Port}, json \in BOOLEAN,
        exclude \in {{}, {Pattern(<<"docker">>, TRUE)}},
        explicit \in {None, <<"elsewhere">>},
        env \in {<<>>, "AUTONET_ALLOW_CONTAINER" :> TRUE,
                 "AUTONET_EXCLUDE_INTERFACES" :> {Pattern(Wifi, FALSE)},
                 "AUTONET_EXCLUDE_INTERFACES" :> Blank,
                 "AUTONET_FAMILY" :> Garbled},
        layer \in {Unreadable, "default_port" :> 9,
                   ("allow_container" :> TRUE) @@ ("exclude" :> {Pattern(Wifi, FALSE)})}}

(***************************************************************************)
(* The commits: two files are written, staged and committed in any order.  *)
(***************************************************************************)
CommitBeginnings ==
    {Case(Machine("linux", {}, Nobody, 5),
          [Somebody EXCEPT !.commands = {"check", "commit"}, !.git = git,
                           !.edits = {"code"}, !.disk = Quiet(layer)],
          Home, Written) :
        git \in BOOLEAN, layer \in {<<>>, Unreadable}}
    \cup {Case(Machine("linux", {}, Nobody, 3),
               [Somebody EXCEPT !.commands = {"commit"}, !.edits = {"code", "vendor"}],
               Home, Written)}

MCBeginnings ==
    PortBeginnings \cup StoryBeginnings \cup LayerBeginnings \cup CommitBeginnings

============================================================================
