----------------------------- MODULE LinkKinds -----------------------------
(***************************************************************************)
(* What kind of device a link is, decided from what each system says of    *)
(* it: on macOS the flags, SystemConfiguration and the driver's link type  *)
(* (linktype.rs), on Windows the adapter and its interface-table row       *)
(* (wintype.rs), on Linux the kernel's link kind and, only there, the name *)
(* (autonet-core/src/classify.rs).  Constants keep the sources' names; a   *)
(* name is a sequence that starts with the prefix the code looks for.      *)
(* InterfaceKind::Other("...") is "other": whatever word, it scores zero.  *)
(***************************************************************************)
EXTENDS Sequences, FiniteSetsExt, Option

\* The sources in the order they are trusted: the kind of the first rule that
\* holds, each a pair of a condition and a kind.
Decide(rules, otherwise) ==
    LET hold == {k \in DOMAIN rules : rules[k][1]}
    IN  IF hold = {} THEN otherwise ELSE rules[Min(hold)][2]

\* SystemConfiguration's type; "Ipv4" names a configuration, not a device.
FromSc(sc) ==
    CASE sc \in {"Ethernet", "Bond", "Vlan", "FireWire"} -> "ethernet"
      [] sc = "IEEE80211" -> "wireless"
      [] sc = "Bridge" -> "bridge"
      [] sc \in {"IpSec", "L2tp", "Ppp", "Pptp", "SixToFour"} -> "vpn"
      [] sc \in {"Wwan", "Bluetooth", "Modem", "Serial", "IrDa"} -> "other"
      [] OTHER -> None

\* The driver's link type, which calls Wi-Fi Ethernet.
FromIfiType(type) ==
    CASE type = "LOOP" -> "loopback"
      [] type = "BRIDGE" -> "bridge"
      [] type \in {"L2VLAN", "IEEE8023ADLAG", "ETHER"} -> "ethernet"
      [] type \in {"PPP", "GIF", "STF"} -> "vpn"
      [] type = "CELLULAR" -> "other"
      [] OTHER -> None

\* linktype::classify of [loopback, point_to_point, sc, ifi_type].
ClassifyDarwin(e) ==
    Decide(<<<<e.loopback, "loopback">>,
             <<FromSc(e.sc) # None, FromSc(e.sc)>>,
             <<FromIfiType(e.ifi_type) # None, FromIfiType(e.ifi_type)>>,
             <<e.point_to_point, "vpn">>>>, "other")

\* n is the adapter's row, None where the join by LUID found none.
IsLoopbackRow(n) == n # None /\ "LOOPBACK" \in {n.media_type, n.access_type}

IsWireless(n) ==
    /\ n # None
    /\ \/ n.physical_medium \in {"NATIVE_802_11", "WIRELESS_LAN"}
       \/ n.media_type = "NATIVE_802_11"

\* Only what is enumerated counts: a future value must not demote a real NIC.
IsDeclaredTunnel(type) ==
    type \in {"OTHER", "DIRECT", "SIX_TO_FOUR", "ISATAP", "TEREDO", "IPHTTPS"}

IsTunnelRow(n) == n # None /\ n.media_type = "TUNNEL"

IsEthernetFamily(type) == type \in {"ETHERNET_CSMACD", "IEEE8023AD_LAG", "IEEE1394"}

IsPointToPoint(n) == n # None /\ n.access_type = "POINT_TO_POINT"

IsSoftware(n) == n # None /\ n.hardware_interface = FALSE

\* wintype::classify of [if_type, tunnel_type, ndis].  In the Ethernet family a
\* point-to-point link is a tunnel in an Ethernet costume, and one without
\* hardware behind it is a switch or a TAP device.
ClassifyWindows(e) ==
    Decide(<<<<e.if_type = "SOFTWARE_LOOPBACK" \/ IsLoopbackRow(e.ndis), "loopback">>,
             <<e.if_type = "IEEE80211" \/ IsWireless(e.ndis), "wireless">>,
             <<\/ e.if_type \in {"TUNNEL", "PPP"}
               \/ IsDeclaredTunnel(e.tunnel_type)
               \/ IsTunnelRow(e.ndis), "vpn">>,
             <<e.if_type \in {"WWANPP", "WWANPP2", "IEEE80216_WMAN"}, "other">>,
             <<IsPointToPoint(e.ndis), "vpn">>,
             <<IsEthernetFamily(e.if_type) /\ ~IsSoftware(e.ndis), "ethernet">>>>, "other")

\* Docker names the bridge of every user-defined network br-<12 hex digits>.
IsContainerName(name) ==
    Head(name) \in {"docker", "veth", "cni", "flannel", "podman", "cbr", "kube",
                    "cali", "br-<hex>"}
IsVirtualName(name) ==
    Head(name) \in {"virbr", "vboxnet", "vmnet", "vnet", "dummy", "ifb"}
IsVpnName(name) ==
    Head(name) \in {"tun", "tap", "wg", "ppp", "utun", "ipsec", "nordlynx", "proton",
                    "tailscale", "zt", "mullvad", "gpd"}
IsWirelessName(name) == Head(name) \in {"wl", "wifi", "ath"}
IsEthernetName(name) == Head(name) \in {"eth", "eno", "ens", "enp", "enx", "em"}

ClassifyByName(name, otherwise) ==
    Decide(<<<<name = <<"lo">>, "loopback">>, <<IsContainerName(name), "container">>,
             <<IsVirtualName(name), "virtual">>, <<IsVpnName(name), "vpn">>,
             <<IsWirelessName(name), "wireless">>, <<IsEthernetName(name), "ethernet">>>>,
           otherwise)

Tunnels == {"tun", "tap", "wireguard", "ppp", "ipip", "sit", "gre", "gretap", "vti",
            "vti6", "xfrm", "ip6tnl", "wg"}

\* The kernel's own link kind decides where there is one; a name only tells a
\* container's bridge from a user's, and names a device with no kind.
ClassifyInterface(name, link_kind, is_loopback, is_wireless) ==
    Decide(<<<<is_loopback \/ name = <<"lo">>, "loopback">>,
             <<is_wireless, "wireless">>,
             <<link_kind = None, ClassifyByName(name, "ethernet")>>,
             <<link_kind = "veth", "container">>,
             <<link_kind = "bridge" /\ IsContainerName(name), "container">>,
             <<link_kind = "bridge" /\ IsVirtualName(name), "virtual">>,
             <<link_kind = "bridge", "bridge">>,
             <<link_kind \in Tunnels, "vpn">>,
             <<link_kind \in {"bond", "vlan", "macvlan", "team"}, "ethernet">>,
             <<link_kind \in {"dummy", "ifb", "nlmon"}, "virtual">>>>,
           ClassifyByName(name, "other"))

============================================================================
