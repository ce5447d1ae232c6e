----------------------------- MODULE MCBackends -----------------------------
(***************************************************************************)
(* Backends on a notebook that is carried about: docked, undocked, on a    *)
(* tunnel and docked again with the adapter renumbered; and a zoo with one *)
(* link of every nature, which stands still.                               *)
(***************************************************************************)
EXTENDS Backends

Lo == <<"lo">>
Eth == <<"eth">>
Radio == <<"wl">>
Tun == <<"utun">>
MCNames == <<<<"bond">>, <<"br">>, Eth, Lo, <<"ppp">>, Tun, Radio, <<"wwan">>>>

Link(nature, oper, i, i6, metric) ==
    [nature |-> nature, oper |-> oper, index |-> i, index6 |-> i6,
     luid |-> 100 + i + i6, metric |-> metric]

V4(name, ip) ==
    [name |-> name, ip |-> ip, family |-> "v4", scope |-> "private", temporary |-> FALSE,
     duplicate |-> FALSE]
V6(name, ip, scope, temporary) ==
    [name |-> name, ip |-> ip, family |-> "v6", scope |-> scope, temporary |-> temporary,
     duplicate |-> FALSE]
Stolen(name, ip) == [V6(name, ip, "global", FALSE) EXCEPT !.duplicate = TRUE]

Route(name, fam, kind, destination, prefix, gateway, metric) ==
    [name |-> name, family |-> fam, kind |-> kind, destination |-> destination,
     prefix |-> prefix, gateway |-> gateway, metric |-> metric]
Default(name, fam, gateway, metric) ==
    Route(name, fam, "route", 0, 0, gateway, metric)

MCLinkLocal == {80, 81, 82}

Lo1 == Lo :> Link("loopback", "up", 1, 51, 75)
Eth2 == Eth :> Link("wired", "up", 2, 52, 25)
Eth7 == Eth :> Link("wired", "up", 7, 57, 25)
Radio3(oper) == Radio :> Link("wifi", oper, 3, 53, 50)
Tun5 == Tun :> Link("tunnel", "quiet", 5, 55, 5)

Docked ==
    [links |-> Lo1 @@ Eth2 @@ Radio3("up"),
     addresses |-> <<V4(Lo, 9), V4(Eth, 10), V6(Eth, 80, "link_local", FALSE),
                     V6(Eth, 60, "global", TRUE), V4(Radio, 20), Stolen(Radio, 61)>>,
     routes |-> <<Default(Radio, "v4", 2, 30), Default(Eth, "v4", 2, 0),
                  Route(Eth, "v4", "neighbour", 2, 32, None, 0),
                  Route(Eth, "v4", "route", 3, 24, None, 0),
                  Default(Eth, "v6", 81, 0)>>,
     services |-> <<None, Eth, Eth, Radio>>, bulk |-> 4000]

Undocked ==
    [links |-> Lo1 @@ Radio3("up"),
     addresses |-> <<V4(Lo, 9), V4(Radio, 20), V6(Radio, 61, "global", FALSE)>>,
     routes |-> <<Default(Radio, "v4", 2, 30), Default(Radio, "v6", 81, 10)>>,
     services |-> <<None, Eth, Eth, Radio>>, bulk |-> 16000]

\* A tunnel that takes everything by two halves, and the radio next to it.
OnTunnel ==
    [links |-> Lo1 @@ Radio3("up") @@ Tun5,
     addresses |-> <<V4(Lo, 9), V4(Radio, 20), V4(Tun, 40)>>,
     routes |-> <<Route(Tun, "v4", "route", 0, 1, 41, 0),
                  Route(Tun, "v4", "host", 41, 32, None, 0),
                  Default(Radio, "v4", 2, 30), Default(Tun, "v6", None, 5)>>,
     services |-> <<Radio>>, bulk |-> 24000]

Redocked ==
    [links |-> Lo1 @@ Eth7 @@ Radio3("down"),
     addresses |-> <<V4(Lo, 9), V4(Eth, 10), V6(Eth, 80, "link_local", FALSE)>>,
     routes |-> <<Default(Eth, "v4", 2, 0), Route(Eth, "v4", "arp", 2, 32, None, 0),
                  Route(Lo, "v4", "loop", 1, 8, None, 0)>>,
     services |-> <<Eth, Radio>>, bulk |-> 33000]

Bare == [links |-> <<>>, addresses |-> <<>>, routes |-> <<>>, services |-> <<>>,
         bulk |-> 0]

Zoo ==
    [links |-> Lo1 @@ Eth2 @@ Radio3("up") @@ Tun5
        @@ (<<"bond">> :> Link("bond", "up", 4, 54, 20))
        @@ (<<"br">> :> Link("switch", "up", 6, 56, 15))
        @@ (<<"ppp">> :> Link("ppp", "quiet", 8, 58, 30))
        @@ (<<"wwan">> :> Link("modem", "up", 9, 59, 40)),
     addresses |-> <<V4(<<"br">>, 30), V6(<<"bond">>, 62, "global", FALSE)>>,
     routes |-> <<Default(<<"bond">>, "v4", 2, 7), Default(<<"br">>, "v4", 3, 9),
                  Route(<<"ppp">>, "v4", "reject", 5, 8, None, 0),
                  Default(<<"bond">>, "v6", 82, 1)>>,
     services |-> <<<<"bond">>, <<"br">>>>, bulk |-> 4000]

\* On Windows an adapter may have no IPv4 and so no index but the other one.
Unbound == [Zoo EXCEPT !.links[<<"bond">>].index = 0, !.routes = Tail(@)]

MCScene == [docked |-> Docked, undocked |-> Undocked, tunnel |-> OnTunnel,
            redocked |-> Redocked, bare |-> Bare, zoo |-> Zoo, unbound |-> Unbound]

Carried == {"docked", "undocked", "tunnel", "redocked"}

Box(platform, hidden, scenes) ==
    [platform |-> platform, hidden |-> hidden, scenes |-> scenes]

MCBoxes ==
    {Box(platform, {}, Carried) : platform \in {"macos", "windows", "linux"}}
    \cup {Box("macos", {hidden}, {"docked", "undocked"}) :
             hidden \in {"types", "flags", "order"}}
    \cup {Box("macos", hidden, {"zoo"}) : hidden \in {{}, {"types"}}}
    \cup {Box("windows", hidden, {"zoo"}) : hidden \in {{}, {"hardware"}}}
    \cup {Box("windows", {}, {"unbound"}), Box("windows", {}, {"bare", "undocked"}),
          Box("macos", {}, {"bare", "undocked"}),
          Box("linux", {}, {"zoo"})}
    \cup {Box("macos", {call}, {"docked"}) : call \in {"links", "addresses", "size", "read"}}
    \cup {Box("windows", {call}, {"docked"}) : call \in {"adapters", "rows", "forward"}}
    \cup {Box("linux", {call}, {"docked"}) : call \in {"links", "addresses", "read"}}

\* No two things of these machines look alike to the system that lists them.
ASSUME BoxesAreUnmistakable == \A b \in Boxes : Unmistakable(b)

============================================================================
