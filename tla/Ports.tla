------------------------------- MODULE Ports -------------------------------
(***************************************************************************)
(* Whether a port is taken and by whom (autonet-cli/src/port.rs and the    *)
(* platforms' lookups, autonet-platform/src/portmatch.rs, and procnet.rs,  *)
(* portowner.rs and tcptable.rs of the systems), on a machine whose        *)
(* processes open and close sockets, exit and are replaced while it is     *)
(* being asked.                                                            *)
(*                                                                         *)
(* An address is [family, host, mapped]; a host is a number, Everywhere    *)
(* the wildcard, and a mapped one is the IPv6 spelling of an IPv4 address. *)
(* A socket is [inode, address, port, uid, pid, listening, by], a process  *)
(* [uid, name, fds] with the inodes it has open.  Windows' table has the   *)
(* pid of who opened a socket, and keeps it when that process has ended:   *)
(* by, which no table has, is its name for as long as it lives.            *)
(***************************************************************************)
EXTENDS Integers, FiniteSets, Option

CONSTANTS
    Pids, Inodes,    \* process ids and sockets the machine can have at once
    People,          \* [uid, name] of the processes that may start
    Places,          \* [address, port, listening] a socket may be opened at
    Port             \* the port asked about

Addresses == [family : {"v4", "v6"}, host : Nat, mapped : BOOLEAN]
Sockets   == [inode : Inodes, address : Addresses, port : Nat, uid : Nat,
              pid : Pids, listening : BOOLEAN, by : STRING \cup {None}]
Processes == [uid : Nat, name : STRING, fds : SUBSET Inodes]

ASSUME NoneIsNoProcess == None \notin Pids \cup Processes
ASSUME NoneIsNoNumber == None \notin Nat
ASSUME WhatMayHappen ==
    /\ People \subseteq [uid : Nat, name : STRING]
    /\ Places \subseteq [address : Addresses, port : Nat, listening : BOOLEAN]

(***************************************************************************)
(* The kernel's own tables (external): an inode is one socket's, what a    *)
(* process has open is there, and who opened a socket lives under its      *)
(* number or has ended.                                                    *)
(***************************************************************************)
KernelTables(socks, people) ==
    /\ socks \subseteq Sockets
    /\ people \in [Pids -> Processes \cup {None}]
    /\ \A s, t \in socks : s.inode = t.inode => s = t
    /\ \A s \in socks :
          s.by # None => people[s.pid] # None /\ people[s.pid].name = s.by
    /\ \A p \in Pids : people[p] # None =>
          \A i \in people[p].fds : \E s \in socks : s.inode = i

VARIABLES
    host,        \* the platform, the account AutoNet runs as, whether it may
                 \* bind the port at all, and the parts of /proc it cannot read
    sockets,     \* the sockets of the machine
    procs,       \* its processes, by pid; None where there is none
    moves,       \* how often the machine may still move
    at,          \* the next step of the inspection
    address,     \* the selected address, or None when nothing is inspected
    onAddress, onWildcard,  \* what the two binds said
    rows,        \* the rows of the tables read so far
    found,       \* the row a bind collides with
    left,        \* the processes the walk of /proc has not come to
    holder,      \* the answer
    seen,        \* history: who held a contending listener since the probe
                 \* began, by number and name
    ended,       \* history: the numbers given up since the tables were read,
                 \* or since the walk found the process
    calm         \* history: the machine has not moved since the probe began

machine == <<host, sockets, procs, moves>>
lookup == <<address, onAddress, onWildcard, rows, found, left, holder>>
portVars == <<machine, at, lookup, seen, ended, calm>>

Root == 0
Everywhere == 0

\* wildcard_for: the any-address of the same family.
Wildcard(a) == [family |-> IF a.family = "v4" THEN "v4" ELSE "v6",
                host |-> Everywhere, mapped |-> FALSE]
Alive == {p \in Pids : procs[p] # None}

(***************************************************************************)
(* portmatch.rs: which listener a bind would collide with.                 *)
(***************************************************************************)
Canonical(a) == IF a.mapped THEN [a EXCEPT !.family = "v4", !.mapped = FALSE] ELSE a

\* A wildcard covers its own family, and that of IPv6 both.
Covers(wide, narrow) ==
    wide.host = Everywhere /\ (wide.family = "v6" \/ narrow.family = "v4")

\* A mistake: a listener on one address does not stop a bind of them all.
ContendsOneWay(bound, wanted) == bound = wanted \/ Covers(bound, wanted)

Contends(bound, wanted) ==
    bound = wanted \/ Covers(bound, wanted) \/ Covers(wanted, bound)

Contenders(table, wanted) ==
    {row \in table : row.port = Port /\ Contends(Canonical(row.address), Canonical(wanted))}

\* The rows the lookup may settle on: exact ones before broader ones, and of
\* those IPv4's table before IPv6's.  Within a table the order is the kernel's.
Collides(table, wanted) ==
    LET against == Contenders(table, wanted)
        exact   == {r \in against : Canonical(r.address) = Canonical(wanted)}
        first   == {r \in against : r.address.family = "v4"}
    IN  IF exact # {} THEN exact ELSE IF first # {} THEN first ELSE against

(***************************************************************************)
(* The kernel's side of a bind (external): Linux and macOS refuse whatever *)
(* overlaps, Windows only the same address; a port below 1024 is refused   *)
(* to everybody but root, whoever holds it.                                *)
(***************************************************************************)
Blocks(bound, wanted) ==
    LET b == Canonical(bound)
        w == Canonical(wanted)
    IN  b = w \/ (host.platform # "windows" /\ (Covers(b, w) \/ Covers(w, b)))

InTheWay(wanted) == {s \in sockets : s.port = Port /\ Blocks(s.address, wanted)}

(***************************************************************************)
(* port.rs availability: only EADDRINUSE is evidence.                      *)
(***************************************************************************)
Availability(wanted) ==
    IF host.privileged /\ host.account # Root THEN "undetermined"
    ELSE IF InTheWay(wanted) # {} THEN "in_use" ELSE "free"

\* The listeners a bind of either probe contends with.
Listeners(socks, wanted) ==
    {s \in socks : /\ s.listening /\ s.port = Port
                   /\ Contends(Canonical(s.address), Canonical(Wildcard(wanted)))}

\* Who holds one at this moment, by number and name: who has it open, and on
\* Windows who opened it, without a name once it has ended.
HoldersOf(socks, people, wanted) ==
    IF host.platform = "windows"
    THEN {<<s.pid, s.by>> : s \in Listeners(socks, wanted)}
    ELSE {<<p, people[p].name>> :
             p \in {q \in Pids :
                      /\ people[q] # None
                      /\ \E s \in Listeners(socks, wanted) : s.inode \in people[q].fds}}

PortInit(b) ==
    /\ host = [platform |-> b.platform, account |-> b.account,
               privileged |-> b.privileged, hidden |-> b.hidden]
    /\ sockets = b.sockets
    /\ procs = b.procs
    /\ moves = b.moves
    /\ at = "idle"
    /\ address = None /\ onAddress = None /\ onWildcard = None
    /\ rows = {} /\ found = None /\ left = {} /\ holder = None
    /\ seen = {} /\ ended = {} /\ calm = TRUE

NotListed == [kind |-> "not_listed"]
NotSupported == [kind |-> "unsupported"]
Named(pid, name) == [kind |-> "named", pid |-> pid, name |-> name]
Unnamed(pid) == [kind |-> "unnamed", pid |-> pid]
OtherUser(uid) == [kind |-> "other_user", uid |-> uid]

Answer(h) == at' = "answered" /\ holder' = h

(***************************************************************************)
(* inspect: two binds, then the holder of whichever was refused.           *)
(***************************************************************************)
Inspect(wanted) ==
    /\ at = "idle"
    /\ at' = "bind"
    /\ address' = wanted
    /\ seen' = HoldersOf(sockets, procs, wanted)
    /\ calm' = TRUE
    /\ UNCHANGED <<machine, onAddress, onWildcard, rows, found, left, holder, ended>>

BindAddress ==
    /\ at = "bind"
    /\ at' = "bind_wildcard"
    \* An address the machine has lost in the meantime is EADDRNOTAVAIL.
    /\ onAddress' \in {Availability(address)} \cup (IF calm THEN {} ELSE {"undetermined"})
    /\ UNCHANGED <<machine, address, onWildcard, rows, found, left, holder, seen, ended, calm>>

BindWildcard ==
    /\ at = "bind_wildcard"
    /\ onWildcard' = Availability(Wildcard(address))
    /\ IF "in_use" \in {onAddress, onWildcard'}
       THEN \/ host.platform # "macos" /\ at' = "table_v4" /\ UNCHANGED holder
            \/ host.platform = "macos" /\ Answer(NotSupported)
       ELSE Answer(NotListed)
    /\ UNCHANGED <<machine, address, onAddress, rows, found, left, seen, ended, calm>>

\* The probe that found a collision.
Asked == IF onAddress = "in_use" THEN address ELSE Wildcard(address)

\* The rows of one of the kernel's two tables, listening sockets only; one
\* that cannot be read has none.
Table(family) ==
    IF family \in host.hidden THEN {}
    ELSE {s \in sockets : s.listening /\ s.address.family = family}

ReadV4 ==
    /\ at = "table_v4"
    /\ rows' = Table("v4")
    /\ at' = "table_v6"
    /\ UNCHANGED <<machine, address, onAddress, onWildcard, found, left, holder, seen, ended, calm>>

ReadV6 ==
    /\ at = "table_v6"
    /\ rows' = rows \cup Table("v6")
    /\ at' = "match"
    /\ UNCHANGED <<machine, address, onAddress, onWildcard, found, left, holder, seen, ended, calm>>

\* Our own account, as far as /proc/self tells.
Ours == IF "self" \in host.hidden THEN None ELSE host.account

\* collides finds nobody, whatever the platform.
MatchNone ==
    /\ at = "match"
    /\ Collides(rows, Asked) = {}
    /\ rows' = {}
    /\ Answer(NotListed)
    /\ UNCHANGED <<machine, address, onAddress, onWildcard, found, left, seen, ended, calm>>

\* Linux: another user's descriptors are not looked for unless root asks.
MatchLinux ==
    /\ at = "match" /\ host.platform = "linux"
    /\ rows' = {}
    /\ \E row \in Collides(rows, Asked) :
          IF Ours \in {None, Root, row.uid}
          THEN at' = "walk" /\ found' = row /\ left' = Alive /\ UNCHANGED holder
          ELSE Answer(OtherUser(row.uid)) /\ UNCHANGED <<found, left>>
    /\ UNCHANGED <<machine, address, onAddress, onWildcard, seen, ended, calm>>

\* Windows: a row names its process, and no account is asked for.
MatchWindows ==
    /\ at = "match" /\ host.platform = "windows"
    /\ rows' = {}
    /\ \E row \in Collides(rows, Asked) : found' = [row EXCEPT !.inode = None]
    /\ at' = "name"
    /\ UNCHANGED <<machine, address, onAddress, onWildcard, left, holder, seen, ended, calm>>

\* A mistake: any process of the account will do.
HoldsSomething(p) ==
    procs[p] # None /\ host.account \in {Root, procs[p].uid} /\ procs[p].fds # {}

\* holds: /proc/<pid>/fd is its owner's and root's to read, and gone with it.
Holds(p) ==
    /\ procs[p] # None
    /\ host.account \in {Root, procs[p].uid}
    /\ found.inode \in procs[p].fds

\* pid_owning: one process after the other, as the directory lists them.
Walk ==
    /\ at = "walk"
    /\ IF left # {}
       THEN \E p \in left :
              /\ left' = IF Holds(p) THEN {} ELSE left \ {p}
              /\ at' = IF Holds(p) THEN "name" ELSE "walk"
              /\ found' = IF Holds(p) THEN [found EXCEPT !.pid = p] ELSE found
              /\ ended' = IF Holds(p) THEN ended \ {p} ELSE ended
              /\ UNCHANGED holder
       ELSE /\ Answer(IF Ours = found.uid THEN NotListed ELSE OtherUser(found.uid))
            /\ UNCHANGED <<left, found, ended>>
    /\ UNCHANGED <<machine, address, onAddress, onWildcard, rows, seen, calm>>

\* command_name: the process may have gone, or another one have its number.
CommandName ==
    /\ at = "name" /\ host.platform = "linux"
    /\ Answer(IF procs[found.pid] = None THEN Unnamed(found.pid)
              ELSE Named(found.pid, procs[found.pid].name))
    /\ UNCHANGED <<machine, address, onAddress, onWildcard, rows, found, left, seen, ended, calm>>

\* image_name: Windows may also refuse to open it.
ImageName ==
    /\ at = "name" /\ host.platform = "windows"
    /\ \/ procs[found.pid] # None /\ Answer(Named(found.pid, procs[found.pid].name))
       \/ Answer(Unnamed(found.pid))
    /\ UNCHANGED <<machine, address, onAddress, onWildcard, rows, found, left, seen, ended, calm>>

PortStep ==
    \/ BindAddress \/ BindWildcard \/ ReadV4 \/ ReadV6
    \/ MatchNone \/ MatchLinux \/ MatchWindows \/ Walk \/ CommandName \/ ImageName

\* inspect returns, and its locals go.
Forget ==
    /\ at = "answered"
    /\ at' = "idle"
    /\ address' = None /\ onAddress' = None /\ onWildcard' = None
    /\ found' = None /\ holder' = None /\ left' = {} /\ rows' = {}
    /\ seen' = {} /\ ended' = {} /\ calm' = TRUE
    /\ UNCHANGED machine

(***************************************************************************)
(* describe: what run warns of, if anything.                               *)
(***************************************************************************)
Describe ==
    CASE onAddress = "in_use" -> "in_use"
      [] onAddress = "free" /\ onWildcard = "in_use" -> "held_elsewhere"
      [] OTHER -> None

\* holder_note: every answer that says something gets a sentence.
HasNote(h) == h.kind # "not_listed"

----------------------------------------------------------------------------
(***************************************************************************)
(* The machine (external): processes come and go, keeping their names,     *)
(* pids are used again, and a socket is the kernel's until nobody has it   *)
(* open.                                                                   *)
(***************************************************************************)
\* The tables have been read and what they name is still to be answered.
Naming == at \in {"table_v6", "match", "walk", "name"}

Moves(gone) ==
    /\ moves > 0
    /\ at # "answered"
    /\ moves' = moves - 1
    /\ UNCHANGED <<host, at, lookup>>
    /\ calm' = (at = "idle")
    /\ seen' = IF at = "idle" THEN {} ELSE seen \cup HoldersOf(sockets', procs', address)
    /\ ended' = IF Naming THEN ended \cup gone ELSE ended

Opened(socks, people) ==
    {s \in socks : \E p \in Pids : people[p] # None /\ s.inode \in people[p].fds}

\* The sockets an inspection knows by their inodes.  The kernel counts inodes
\* up, so none of these is another socket's before the inspection is over.
InHand == {r.inode : r \in rows} \cup (IF at = "walk" THEN {found.inode} ELSE {})

Opens(p, place) ==
    /\ procs[p] # None
    /\ \A s \in sockets : s.port = place.port => ~Blocks(s.address, place.address)
    /\ \E i \in Inodes \ ({s.inode : s \in sockets} \cup InHand) :
          /\ sockets' = sockets \cup {[inode |-> i, address |-> place.address,
                                       port |-> place.port, uid |-> procs[p].uid,
                                       pid |-> p, listening |-> place.listening,
                                       by |-> procs[p].name]}
          /\ procs' = [procs EXCEPT ![p].fds = @ \cup {i}]
    /\ Moves({})

Inherits(p, child) ==
    /\ procs[p] # None /\ procs[child] = None
    /\ procs' = [procs EXCEPT ![child] = procs[p]]
    /\ UNCHANGED sockets
    /\ Moves({})

Starts(p, who) ==
    /\ procs[p] = None
    /\ procs' = [procs EXCEPT ![p] = [uid |-> who.uid, name |-> who.name, fds |-> {}]]
    /\ UNCHANGED sockets
    /\ Moves({})

Exits(p) ==
    /\ procs[p] # None
    /\ procs' = [procs EXCEPT ![p] = None]
    /\ sockets' = {[s EXCEPT !.by = IF s.pid = p THEN None ELSE @] :
                      s \in Opened(sockets, procs')}
    /\ Moves({p})

MachineStep ==
    \/ \E p \in Pids, place \in Places : Opens(p, place)
    \/ \E p, child \in Pids : Inherits(p, child)
    \/ \E p \in Pids, who \in People : Starts(p, who)
    \/ \E p \in Pids : Exits(p)

----------------------------------------------------------------------------
PortTypeOK ==
    /\ KernelTables(sockets, procs)
    /\ rows \subseteq Sockets
    /\ host \in [platform : {"linux", "macos", "windows"}, account : Nat,
                 privileged : BOOLEAN, hidden : SUBSET {"v4", "v6", "self"}]
    /\ moves \in Nat
    /\ at \in {"idle", "bind", "bind_wildcard", "table_v4", "table_v6", "match",
               "walk", "name", "answered"}
    /\ onAddress \in {None, "free", "in_use", "undetermined"}
    /\ onWildcard \in {None, "free", "in_use", "undetermined"}
    /\ left \subseteq Pids
    /\ seen \subseteq Pids \X (STRING \cup {None}) /\ ended \subseteq Pids
    /\ calm \in BOOLEAN

(***************************************************************************)
(* lib.rs:132-160, the ladder of certainty: what is named did hold, at     *)
(* some moment of the inspection, a listener that contends with what was   *)
(* probed, under this number and with this name, however processes exited, *)
(* were replaced under the same number and passed their sockets on         *)
(* meanwhile.  The name is looked up after the number (portowner.rs:56-57, *)
(* tcptable.rs:80): where the process found has ended by then, or had      *)
(* before Windows' table was read, only the number is what was seen, and   *)
(* the name may be that of whoever has it now.                             *)
(***************************************************************************)
HolderHeld ==
    (at = "answered" /\ holder.kind \in {"named", "unnamed"})
        => /\ \E h \in seen : h[1] = holder.pid
           /\ \/ holder.kind = "unnamed"
              \/ holder.pid \in ended \/ <<holder.pid, None>> \in seen
              \/ <<holder.pid, holder.name>> \in seen

(***************************************************************************)
(* port.rs:25-44 and portmatch.rs:33-43: on a machine that does not move   *)
(* during the inspection, a bind that was refused is explained by a socket *)
(* that refused it.  Its process is named where this account may see it,   *)
(* its owner where it may not; nothing is said only of a socket no table   *)
(* lists or whose process the account cannot see.  What stays unreadable   *)
(* of /proc apart, and on Windows, where a listener on every address does  *)
(* not stop the bind but may be all the table has, a socket bound and not  *)
(* listening.                                                              *)
(***************************************************************************)
Readable(s) ==
    \E p \in Alive : s.inode \in procs[p].fds /\ host.account \in {Root, procs[p].uid}

RestingHolderFound ==
    (/\ at = "answered" /\ calm
     /\ "in_use" \in {onAddress, onWildcard}
     /\ host.platform # "macos" /\ host.hidden = {}
     /\ host.platform = "windows" => \A s \in InTheWay(Asked) : s.listening)
        => \E s \in InTheWay(Asked) :
              CASE holder.kind = "named" ->
                      /\ holder.name = procs[holder.pid].name
                      /\ IF host.platform = "windows" THEN s.pid = holder.pid
                         ELSE s.inode \in procs[holder.pid].fds
                [] holder.kind = "unnamed" -> s.pid = holder.pid
                [] holder.kind = "other_user" -> s.uid = holder.uid
                [] holder.kind = "not_listed" ->
                      \A t \in InTheWay(Asked) : ~t.listening \/ ~Readable(t)
                [] OTHER -> FALSE

============================================================================
