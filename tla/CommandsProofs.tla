--------------------------- MODULE CommandsProofs ---------------------------
(***************************************************************************)
(* What the commands guarantee for every machine, project and user: that a *)
(* process named as a port's holder held it under that name while it       *)
(* lived, and that what a hook read and lets into a commit has no address  *)
(* in it.                                                                  *)
(***************************************************************************)
EXTENDS Commands, SelectProofs, FiniteSetTheorems

----------------------------------------------------------------------------
\* The match.

\* Whatever stands in the way of one address stands in the way of all of
\* its family.
LEMMA WildcardWidest ==
  ASSUME NEW a, ~a.mapped, NEW b, Contends(b, Canonical(a))
  PROVE  Contends(b, Canonical(Wildcard(a)))
<1>1. Canonical(a) = a
  BY DEF Canonical
<1>2. /\ Canonical(Wildcard(a)) = Wildcard(a)
      /\ Wildcard(a).host = Everywhere
      /\ Wildcard(a).family = IF a.family = "v4" THEN "v4" ELSE "v6"
  BY DEF Wildcard, Canonical
<1>3. CASE a.family = "v4"
  BY <1>1, <1>2, <1>3 DEF Contends, Covers
<1>4. CASE a.family # "v4"
  BY <1>2, <1>4 DEF Contends, Covers
<1> QED
  BY <1>3, <1>4

\* A row the lookup settles on is one that contends with the probe.
LEMMA CollidersContend ==
  ASSUME NEW table, NEW wanted, NEW row \in Collides(table, wanted)
  PROVE  /\ row \in table
         /\ row.port = Port
         /\ Contends(Canonical(row.address), Canonical(wanted))
  BY DEF Collides, Contenders

\* The wildcard probe's collisions are counted as well as the address's.
LEMMA AskedOrWider ==
  ASSUME ~address.mapped, NEW b, Contends(b, Canonical(Asked))
  PROVE  Contends(b, Canonical(Wildcard(address)))
<1>1. CASE onAddress = "in_use"
  BY <1>1, WildcardWidest DEF Asked
<1>2. CASE onAddress # "in_use"
  BY <1>2 DEF Asked
<1> QED
  BY <1>1, <1>2

----------------------------------------------------------------------------
\* The machine keeps its tables consistent, and an inode stays a socket's own
\* while an inspection has it in hand.

SamePlace(s, r) == s.address = r.address /\ s.port = r.port /\ s.listening = r.listening

SameSocket(inode, r) == \A s \in sockets : s.inode = inode => SamePlace(s, r)

Consistent == KernelTables(sockets, procs)

\* What a step of the machine, with the numbers it gives up, leaves to an
\* inspection: its sockets, and the names of those that did not end.
InHandStays ==
    \A s \in sockets' :
        \/ \E t \in sockets : s.inode = t.inode /\ SamePlace(s, t)
        \/ s.inode \notin InHand

NamesStay(gone) ==
    \A p \in Pids \ gone :
        procs[p] # None => procs'[p] # None /\ procs'[p].name = procs[p].name

LEMMA OpensKeeps ==
  ASSUME Consistent, NEW p \in Pids, NEW place \in Places, Opens(p, place)
  PROVE  Consistent' /\ InHandStays /\ NamesStay({}) /\ Moves({})
<1>1. procs[p] \in Processes
  BY DEF Opens, Consistent, KernelTables
<1>2. PICK i \in Inodes \ ({s.inode : s \in sockets} \cup InHand) :
         /\ sockets' = sockets \cup {[inode |-> i, address |-> place.address,
                                      port |-> place.port, uid |-> procs[p].uid,
                                      pid |-> p, listening |-> place.listening,
                                      by |-> procs[p].name]}
         /\ procs' = [procs EXCEPT ![p].fds = @ \cup {i}]
  BY DEF Opens
<1> DEFINE new == [inode |-> i, address |-> place.address, port |-> place.port,
                   uid |-> procs[p].uid, pid |-> p, listening |-> place.listening,
                   by |-> procs[p].name]
<1>3. new \in Sockets
  BY <1>1, WhatMayHappen DEF Sockets, Processes
<1>4. procs' \in [Pids -> Processes \cup {None}]
  BY <1>1, <1>2 DEF Consistent, KernelTables, Processes
<1>5. \A s, t \in sockets' : s.inode = t.inode => s = t
  BY <1>2 DEF Consistent, KernelTables
<1>6. \A q \in Pids : procs'[q] # None =>
         \A j \in procs'[q].fds : \E s \in sockets' : s.inode = j
  <2> SUFFICES ASSUME NEW q \in Pids, procs'[q] # None, NEW j \in procs'[q].fds
               PROVE  \E s \in sockets' : s.inode = j
    OBVIOUS
  <2>1. new.inode = i /\ new \in sockets' /\ sockets \subseteq sockets'
    BY <1>2
  <2>2. CASE j = i
    BY <2>1, <2>2
  <2>3. CASE j # i
    <3>1. procs[q] # None /\ j \in procs[q].fds
      BY <1>1, <1>2, <2>3 DEF Consistent, KernelTables, Processes, Opens
    <3> QED
      BY <3>1, <2>1 DEF Consistent, KernelTables
  <2> QED
    BY <2>2, <2>3
<1>7. NamesStay({})
  <2>1. /\ \A q \in Pids \ {p} : procs'[q] = procs[q]
        /\ procs'[p].name = procs[p].name /\ procs'[p] \in Processes
    BY <1>1, <1>2 DEF Consistent, KernelTables, Processes
  <2> QED
    BY <2>1, NoneIsNoProcess DEF NamesStay
<1>8. \A s \in sockets' : s.by # None => procs'[s.pid] # None /\ procs'[s.pid].name = s.by
  <2> SUFFICES ASSUME NEW s \in sockets', s.by # None
               PROVE  procs'[s.pid] # None /\ procs'[s.pid].name = s.by
    OBVIOUS
  <2>1. s \in sockets \/ (s.pid = p /\ s.by = procs[p].name)
    BY <1>2
  <2>2. s.pid \in Pids /\ procs[s.pid] # None /\ procs[s.pid].name = s.by
    BY <2>1 DEF Opens, Consistent, KernelTables, Sockets
  <2> QED
    BY <1>7, <2>2 DEF NamesStay
<1>9. InHandStays
  BY <1>2 DEF InHandStays, SamePlace
<1> QED
  BY <1>2, <1>3, <1>4, <1>5, <1>6, <1>7, <1>8, <1>9 DEF Consistent, KernelTables, Opens

LEMMA ComingsKeep ==
  ASSUME Consistent,
         \/ \E p, child \in Pids : Inherits(p, child)
         \/ \E p \in Pids, who \in People : Starts(p, who)
  PROVE  Consistent' /\ InHandStays /\ NamesStay({}) /\ Moves({})
<1> DEFINE Comes ==
        /\ procs' \in [Pids -> Processes \cup {None}] /\ UNCHANGED sockets /\ Moves({})
        /\ \A q \in Pids : procs[q] # None => procs'[q] = procs[q]
        /\ \A q \in Pids : \/ procs'[q] = procs[q]
                            \/ procs'[q].fds = {}
                            \/ \E p \in Pids : procs[p] # None /\ procs'[q] = procs[p]
<1>1. Comes
  <2>1. ASSUME NEW p \in Pids, NEW child \in Pids, Inherits(p, child)
        PROVE  Comes
    BY <2>1 DEF Inherits, Consistent, KernelTables
  <2>2. ASSUME NEW p \in Pids, NEW who \in People, Starts(p, who)
        PROVE  Comes
    <3>1. [uid |-> who.uid, name |-> who.name, fds |-> {}] \in Processes
      BY WhatMayHappen DEF Processes
    <3> QED
      BY <2>2, <3>1 DEF Starts, Consistent, KernelTables
  <2> QED
    BY <2>1, <2>2
<1>2. \A s \in sockets : s.pid \in Pids
  BY DEF Consistent, KernelTables, Sockets
<1> QED
  BY <1>1, <1>2 DEF Consistent, KernelTables, InHandStays, SamePlace, NamesStay

LEMMA ExitsKeeps ==
  ASSUME Consistent, NEW p \in Pids, Exits(p)
  PROVE  Consistent' /\ InHandStays /\ NamesStay({p}) /\ Moves({p})
<1> DEFINE kept(s) == [s EXCEPT !.by = IF s.pid = p THEN None ELSE @]
<1>1. /\ sockets' = {kept(s) : s \in Opened(sockets, procs')}
      /\ procs' = [procs EXCEPT ![p] = None]
  BY DEF Exits
<1>2. \A s \in sockets :
         /\ kept(s) \in Sockets /\ kept(s).inode = s.inode /\ SamePlace(kept(s), s)
         /\ kept(s).pid = s.pid /\ kept(s).by = IF s.pid = p THEN None ELSE s.by
  BY DEF Consistent, KernelTables, Sockets, SamePlace
<1>3. /\ Opened(sockets, procs') \subseteq sockets
      /\ \A r \in sockets' : \E s \in Opened(sockets, procs') : r = kept(s)
      /\ \A s \in Opened(sockets, procs') : kept(s) \in sockets'
  BY <1>1 DEF Opened
<1> HIDE DEF kept
<1>4. /\ procs' \in [Pids -> Processes \cup {None}]
      /\ procs'[p] = None /\ \A q \in Pids \ {p} : procs'[q] = procs[q]
  BY <1>1 DEF Consistent, KernelTables
<1>5. \A q \in Pids : procs'[q] # None =>
         \A j \in procs'[q].fds : \E s \in sockets' : s.inode = j
  <2> SUFFICES ASSUME NEW q \in Pids, procs'[q] # None, NEW j \in procs'[q].fds
               PROVE  \E s \in sockets' : s.inode = j
    OBVIOUS
  <2>1. procs[q] # None /\ procs'[q] = procs[q]
    BY <1>4
  <2>2. PICK s \in sockets : s.inode = j
    BY <2>1 DEF Consistent, KernelTables
  <2>3. s \in Opened(sockets, procs')
    BY <2>2 DEF Opened
  <2> QED
    BY <1>2, <1>3, <2>2, <2>3
<1>6. sockets' \subseteq Sockets /\ \A r, t \in sockets' : r.inode = t.inode => r = t
  BY <1>2, <1>3 DEF Consistent, KernelTables
<1>7. \A r \in sockets' : r.by # None => procs'[r.pid] # None /\ procs'[r.pid].name = r.by
  BY <1>2, <1>3, <1>4 DEF Consistent, KernelTables, Sockets
<1>8. InHandStays
  BY <1>2, <1>3 DEF InHandStays
<1>9. NamesStay({p})
  BY <1>4 DEF NamesStay
<1> QED
  BY <1>4, <1>5, <1>6, <1>7, <1>8, <1>9 DEF Exits, Consistent, KernelTables

\* What a step of the machine leaves to an inspection.
LEMMA MachineKeeps ==
  ASSUME Consistent, MachineStep
  PROVE  Consistent' /\ \E gone : InHandStays /\ NamesStay(gone) /\ Moves(gone)
  BY OpensKeeps, ComingsKeep, ExitsKeeps DEF MachineStep

----------------------------------------------------------------------------
\* What an inspection knows at each step: seen has who holds a contending
\* listener now, a row is still its socket's, and on Windows its process was
\* seen; so was the process that is being named, which has its name as long
\* as it has not ended.

AddressPlain == at # "idle" => ~address.mapped

HoldersKnown ==
    at \notin {"idle", "answered"} => HoldersOf(sockets, procs, address) \subseteq seen

InTheWayOfAny(r) ==
    r.listening /\ r.port = Port /\ Contends(Canonical(r.address), Canonical(Wildcard(address)))

NumberKnown(pid, name) ==
    /\ <<pid, name>> \in seen
    /\ \/ name = None
       \/ pid \in ended
       \/ procs[pid] # None /\ procs[pid].name = name

RowKnown(r) ==
    /\ r \in Sockets /\ r.listening
    /\ SameSocket(r.inode, r)
    /\ host.platform = "windows" /\ InTheWayOfAny(r) => NumberKnown(r.pid, r.by)

RowsKnown == at \in {"table_v6", "match"} => \A r \in rows : RowKnown(r)

FoundKnown ==
    /\ at = "walk" => /\ host.platform # "windows"
                      /\ found \in Sockets
                      /\ SameSocket(found.inode, found)
                      /\ InTheWayOfAny(found)
    /\ at = "name" => found.pid \in Pids /\ \E name : NumberKnown(found.pid, name)

Inspection == /\ Consistent /\ AddressPlain /\ HoldersKnown /\ RowsKnown
              /\ FoundKnown /\ HolderHeld

LEMMA InspectionBegins ==
  ASSUME NEW b, KernelTables(b.sockets, b.procs), PortInit(b)
  PROVE  Inspection
  BY DEF PortInit, Inspection, Consistent, AddressPlain, HoldersKnown, RowsKnown,
         FoundKnown, HolderHeld

\* What the lookup's own steps leave alone.
LEMMA Still ==
  ASSUME Consistent, AddressPlain, HoldersKnown,
         UNCHANGED <<machine, address, seen>>, at \notin {"idle", "answered"}
  PROVE  Consistent' /\ AddressPlain' /\ HoldersKnown'
  BY DEF machine, Consistent, AddressPlain, HoldersKnown, HoldersOf, Listeners

LEMMA InspectKeeps ==
  ASSUME Inspection, NEW f, NEW h,
         Inspect([family |-> f, host |-> h, mapped |-> FALSE])
  PROVE  Inspection'
  BY DEF Inspect, machine, Inspection, Consistent, AddressPlain, HoldersKnown, HoldersOf,
         Listeners, RowsKnown, FoundKnown, HolderHeld

LEMMA ForgetKeeps ==
  ASSUME Inspection, Forget
  PROVE  Inspection'
  BY DEF Forget, machine, Inspection, Consistent, AddressPlain, HoldersKnown,
         RowsKnown, FoundKnown, HolderHeld

\* A row of a table is a socket of the moment, and its process is seen.
LEMMA TableKnown ==
  ASSUME Inspection, at \in {"table_v4", "table_v6"}, NEW fam, NEW r \in Table(fam)
  PROVE  RowKnown(r)
<1>1. r \in sockets /\ r \in Sockets /\ r.listening
  BY DEF Table, Inspection, Consistent, KernelTables
<1>2. SameSocket(r.inode, r)
  BY <1>1 DEF SameSocket, SamePlace, Inspection, Consistent, KernelTables
<1>3. ASSUME host.platform = "windows", InTheWayOfAny(r)
      PROVE  NumberKnown(r.pid, r.by)
  <2>1. r \in Listeners(sockets, address)
    BY <1>1, <1>3 DEF Listeners, InTheWayOfAny
  <2>2. <<r.pid, r.by>> \in HoldersOf(sockets, procs, address)
    BY <1>3, <2>1 DEF HoldersOf
  <2> QED
    BY <1>1, <2>2 DEF Inspection, HoldersKnown, NumberKnown, Consistent, KernelTables
<1> QED
  BY <1>1, <1>2, <1>3 DEF RowKnown

\* Binding, reading the tables.
LEMMA ReadingKeeps ==
  ASSUME Inspection, BindAddress \/ BindWildcard \/ ReadV4 \/ ReadV6
  PROVE  Inspection'
<1> USE DEF Inspection
<1>1. Consistent' /\ AddressPlain' /\ HoldersKnown'
  BY Still DEF BindAddress, BindWildcard, ReadV4, ReadV6
<1>2. FoundKnown' /\ HolderHeld'
  <2>1. CASE BindWildcard
    BY <2>1 DEF BindWildcard, FoundKnown, HolderHeld, Answer, NotSupported, NotListed
  <2> QED
    BY <2>1 DEF BindAddress, ReadV4, ReadV6, FoundKnown, HolderHeld
<1>3. RowsKnown'
  <2>1. CASE BindAddress \/ BindWildcard
    BY <2>1 DEF BindAddress, BindWildcard, RowsKnown, Answer
  <2>2. CASE ReadV4 \/ ReadV6
    <3>1. \A r \in rows' : RowKnown(r)
      BY <2>2, TableKnown DEF ReadV4, ReadV6, RowsKnown
    <3>2. UNCHANGED <<host, sockets, procs, address, seen, ended>>
      BY <2>2 DEF ReadV4, ReadV6, machine
    <3>3. \A r \in rows' : RowKnown(r)'
      BY <3>1, <3>2 DEF RowKnown, SameSocket, InTheWayOfAny, NumberKnown
    <3> QED
      BY <3>3 DEF RowsKnown
  <2> QED
    BY <2>1, <2>2
<1> QED
  BY <1>1, <1>2, <1>3

\* A row that collides is in the way of the wildcard's bind, too.
LEMMA MatchKnown ==
  ASSUME Inspection, at = "match", NEW row \in Collides(rows, Asked)
  PROVE  RowKnown(row) /\ InTheWayOfAny(row)
<1>1. row \in rows /\ row.port = Port /\ Contends(Canonical(row.address), Canonical(Asked))
  BY CollidersContend
<1>2. RowKnown(row) /\ row.listening
  BY <1>1 DEF Inspection, RowsKnown, RowKnown
<1>3. Contends(Canonical(row.address), Canonical(Wildcard(address)))
  BY <1>1, AskedOrWider DEF Inspection, AddressPlain
<1> QED
  BY <1>1, <1>2, <1>3 DEF InTheWayOfAny

LEMMA MatchingKeeps ==
  ASSUME Inspection, MatchNone \/ MatchLinux \/ MatchWindows
  PROVE  Inspection'
<1> USE DEF Inspection
<1>1. /\ Consistent' /\ AddressPlain' /\ HoldersKnown' /\ RowsKnown'
      /\ UNCHANGED <<host, sockets, procs, address, seen, ended>>
  BY Still DEF MatchNone, MatchLinux, MatchWindows, RowsKnown, machine
<1>2. FoundKnown' /\ HolderHeld'
  <2>1. CASE MatchNone
    BY <2>1 DEF MatchNone, Answer, NotListed, FoundKnown, HolderHeld
  <2>2. CASE MatchLinux
    <3>1. PICK row \in Collides(rows, Asked) :
             IF Ours \in {None, Root, row.uid}
             THEN at' = "walk" /\ found' = row /\ left' = Alive /\ UNCHANGED holder
             ELSE Answer(OtherUser(row.uid)) /\ UNCHANGED <<found, left>>
      BY <2>2 DEF MatchLinux
    <3>2. RowKnown(row) /\ InTheWayOfAny(row)
      BY <2>2, MatchKnown DEF MatchLinux
    <3>3. CASE at' = "walk" /\ found' = row
      BY <1>1, <2>2, <3>2, <3>3
      DEF MatchLinux, RowKnown, SameSocket, InTheWayOfAny, FoundKnown, HolderHeld
    <3>4. CASE Answer(OtherUser(row.uid))
      BY <3>4 DEF Answer, OtherUser, FoundKnown, HolderHeld
    <3> QED
      BY <3>1, <3>3, <3>4
  <2>3. CASE MatchWindows
    <3>1. PICK row \in Collides(rows, Asked) : found' = [row EXCEPT !.inode = None]
      BY <2>3 DEF MatchWindows
    <3>2. RowKnown(row) /\ InTheWayOfAny(row)
      BY <2>3, MatchKnown DEF MatchWindows
    <3>3. NumberKnown(row.pid, row.by) /\ found'.pid = row.pid /\ row.pid \in Pids
      BY <2>3, <3>1, <3>2 DEF MatchWindows, RowKnown, Sockets
    <3>4. NumberKnown(row.pid, row.by)'
      BY <1>1, <3>3 DEF NumberKnown
    <3> QED
      BY <1>1, <2>3, <3>3, <3>4 DEF MatchWindows, FoundKnown, HolderHeld
  <2> QED
    BY <2>1, <2>2, <2>3
<1> QED
  BY <1>1, <1>2

\* A process with the inode open has the socket that was found.
LEMMA HolderSeen ==
  ASSUME Inspection, at = "walk", NEW p \in Pids, Holds(p)
  PROVE  <<p, procs[p].name>> \in seen
<1>1. PICK s \in sockets : s.inode = found.inode
  BY DEF Holds, Inspection, Consistent, KernelTables
<1>2. s \in Listeners(sockets, address)
  BY <1>1 DEF Inspection, FoundKnown, SameSocket, SamePlace, InTheWayOfAny, Listeners
<1>3. <<p, procs[p].name>> \in HoldersOf(sockets, procs, address)
  BY <1>1, <1>2 DEF Inspection, FoundKnown, HoldersOf, Holds
<1> QED
  BY <1>3 DEF Inspection, HoldersKnown

LEMMA NamingKeeps ==
  ASSUME Inspection, Alive \subseteq Pids, left \subseteq Pids,
         Walk \/ CommandName \/ ImageName
  PROVE  Inspection'
<1> USE DEF Inspection
<1>1. /\ Consistent' /\ AddressPlain' /\ HoldersKnown' /\ RowsKnown'
      /\ UNCHANGED <<host, sockets, procs, address, seen>>
  <2>1. Consistent' /\ AddressPlain' /\ HoldersKnown'
    BY Still DEF Walk, CommandName, ImageName
  <2>2. RowsKnown'
    BY DEF Walk, CommandName, ImageName, RowsKnown, Answer
  <2> QED
    BY <2>1, <2>2 DEF Walk, CommandName, ImageName, machine
<1>2. FoundKnown' /\ HolderHeld'
  <2>1. CASE Walk /\ left = {}
    BY <2>1 DEF Walk, Answer, NotListed, OtherUser, FoundKnown, HolderHeld
  <2>2. CASE Walk /\ left # {}
    <3>1. PICK p \in left :
             /\ at' = IF Holds(p) THEN "name" ELSE "walk"
             /\ found' = IF Holds(p) THEN [found EXCEPT !.pid = p] ELSE found
      BY <2>2 DEF Walk
    <3>2. CASE Holds(p)
      <4>1. <<p, procs[p].name>> \in seen /\ procs[p] # None
        BY <2>2, <3>2, HolderSeen DEF Walk, Holds
      <4>2. found'.pid = p
        BY <2>2, <3>1, <3>2 DEF Walk, FoundKnown, Sockets
      <4>3. NumberKnown(p, procs[p].name)'
        BY <1>1, <4>1 DEF NumberKnown
      <4>4. \E name : NumberKnown(found.pid, name)'
        BY <4>2, <4>3 DEF NumberKnown
      <4>5. at' = "name" /\ found'.pid \in Pids
        BY <3>1, <3>2, <4>2
      <4> QED
        BY <4>4, <4>5 DEF FoundKnown, HolderHeld
    <3>3. CASE ~Holds(p)
      BY <1>1, <2>2, <3>1, <3>3
      DEF Walk, FoundKnown, HolderHeld, SameSocket, InTheWayOfAny
    <3> QED
      BY <3>2, <3>3
  <2>3. CASE CommandName \/ ImageName
    <3>1. PICK name : NumberKnown(found.pid, name)
      BY <2>3 DEF CommandName, ImageName, FoundKnown
    <3>2. /\ at' = "answered" /\ UNCHANGED ended
          /\ holder' \in {Unnamed(found.pid), Named(found.pid, procs[found.pid].name)}
      BY <2>3 DEF CommandName, ImageName, Answer
    <3>3. /\ holder'.pid = found.pid
          /\ holder'.kind = "unnamed" \/ holder'.name = procs[found.pid].name
      BY <3>2 DEF Unnamed, Named
    <3>4. \E h \in seen : h[1] = found.pid
      BY <3>1 DEF NumberKnown
    <3> QED
      BY <1>1, <3>1, <3>2, <3>3, <3>4 DEF NumberKnown, FoundKnown, HolderHeld
  <2> QED
    BY <2>1, <2>2, <2>3
<1> QED
  BY <1>1, <1>2

\* The machine moves: whoever holds the port then is seen too.
LEMMA MovesKeep ==
  ASSUME Inspection, Consistent', NEW gone, Moves(gone), InHandStays, NamesStay(gone)
  PROVE  Inspection'
<1> USE DEF Inspection
<1>1. /\ at # "answered" /\ UNCHANGED <<host, at, lookup>>
      /\ seen' = IF at = "idle" THEN {} ELSE seen \cup HoldersOf(sockets', procs', address)
      /\ ended' = IF Naming THEN ended \cup gone ELSE ended
  BY DEF Moves
<1>2. AddressPlain' /\ HolderHeld'
  BY <1>1 DEF AddressPlain, HolderHeld, lookup
<1>3. HoldersKnown'
  BY <1>1 DEF HoldersKnown, HoldersOf, Listeners, lookup
<1>4. ASSUME NEW r, r.inode \in InHand, SameSocket(r.inode, r)
      PROVE  SameSocket(r.inode, r)'
  BY <1>4 DEF SameSocket, InHandStays, SamePlace
<1>5. ASSUME Naming, NEW pid \in Pids, NEW name, NumberKnown(pid, name)
      PROVE  NumberKnown(pid, name)'
  <2>1. <<pid, name>> \in seen'
    BY <1>1, <1>5 DEF NumberKnown, Naming
  <2>2. pid \in ended \/ pid \in gone => pid \in ended'
    BY <1>1, <1>5
  <2> QED
    BY <1>5, <2>1, <2>2 DEF NumberKnown, NamesStay
<1>6. RowsKnown'
  <2> SUFFICES ASSUME at \in {"table_v6", "match"}, NEW r \in rows
               PROVE  RowKnown(r)'
    BY <1>1 DEF RowsKnown, lookup
  <2>1. RowKnown(r) /\ r.inode \in InHand /\ r.pid \in Pids /\ Naming
    BY DEF RowsKnown, RowKnown, Sockets, InHand, Naming
  <2>2. SameSocket(r.inode, r)'
    BY <1>4, <2>1 DEF RowKnown
  <2>3. NumberKnown(r.pid, r.by) => NumberKnown(r.pid, r.by)'
    BY <1>5, <2>1
  <2> QED
    BY <1>1, <2>1, <2>2, <2>3 DEF RowKnown, InTheWayOfAny, lookup
<1>7. FoundKnown'
  <2>0. found' = found
    BY <1>1 DEF lookup
  <2>1. CASE at = "walk"
    <3>1. SameSocket(found.inode, found) /\ found.inode \in InHand
      BY <2>1 DEF FoundKnown, InHand
    <3>2. SameSocket(found.inode, found)'
      BY <1>4, <2>0, <3>1
    <3> QED
      BY <1>1, <2>0, <2>1, <3>2 DEF FoundKnown, InTheWayOfAny, lookup
  <2>2. CASE at = "name"
    <3>1. PICK name : NumberKnown(found.pid, name)
      BY <2>2 DEF FoundKnown
    <3>2. NumberKnown(found.pid, name)'
      BY <1>5, <2>0, <2>2, <3>1 DEF FoundKnown, Naming
    <3> QED
      BY <1>1, <2>0, <2>2, <3>2 DEF FoundKnown
  <2>3. CASE at \notin {"walk", "name"}
    BY <1>1, <2>3 DEF FoundKnown, lookup
  <2> QED
    BY <2>1, <2>2, <2>3
<1> QED
  BY <1>2, <1>3, <1>6, <1>7

----------------------------------------------------------------------------
\* Over the steps of the commands.

\* Types of what the inspection walks over.
Walked == left \subseteq Pids

LEMMA PortStepKeeps ==
  ASSUME Inspection, Walked, PortStep
  PROVE  Inspection' /\ Walked'
<1>1. Alive \subseteq Pids
  BY DEF Alive
<1>2. Walked'
  BY <1>1 DEF Walked, PortStep, BindAddress, BindWildcard, ReadV4, ReadV6, MatchNone,
     MatchLinux, MatchWindows, Walk, CommandName, ImageName
<1>3. Inspection'
  BY <1>1, ReadingKeeps, MatchingKeeps, NamingKeeps DEF PortStep, Walked
<1> QED
  BY <1>2, <1>3

LEMMA MachineStepKeeps ==
  ASSUME Inspection, Walked,
         MachineStep \/ (Moves({}) /\ UNCHANGED <<sockets, procs>>)
  PROVE  Inspection' /\ Walked'
<1>1. Consistent' /\ \E gone : InHandStays /\ NamesStay(gone) /\ Moves(gone)
  <2>1. CASE MachineStep
    BY <2>1, MachineKeeps DEF Inspection
  <2>2. CASE Moves({}) /\ UNCHANGED <<sockets, procs>>
    BY <2>2 DEF Inspection, Consistent, InHandStays, NamesStay, SamePlace
  <2> QED
    BY <2>1, <2>2
<1>2. Walked'
  BY <1>1 DEF Moves, lookup, Walked
<1> QED
  BY <1>1, <1>2, MovesKeep

LEMMA SnapshotKeeps ==
  ASSUME Inspection, Walked, Snapshot
  PROVE  Inspection' /\ Walked'
<1>1. \/ UNCHANGED portVars
      \/ \E selected : Inspect([family |-> selected.family, host |-> selected.ip,
                                mapped |-> FALSE])
  BY DEF Snapshot
<1>2. CASE UNCHANGED portVars
  BY <1>2 DEF portVars, machine, lookup, Walked, Inspection, Consistent, AddressPlain,
     HoldersKnown, HoldersOf, Listeners, RowsKnown, RowKnown, NumberKnown, FoundKnown,
     SameSocket, SamePlace, InTheWayOfAny, HolderHeld
<1>3. ASSUME NEW selected, Inspect([family |-> selected.family, host |-> selected.ip,
                                    mapped |-> FALSE])
      PROVE  Inspection' /\ Walked'
  BY <1>3, InspectKeeps DEF Inspect, Walked
<1> QED
  BY <1>1, <1>2, <1>3

LEMMA CommandsKeep ==
  ASSUME Inspection, Walked, [Next]_vars
  PROVE  Inspection' /\ Walked'
<1>1. CASE UNCHANGED portVars
  BY <1>1 DEF portVars, machine, lookup, Walked, Inspection, Consistent, AddressPlain,
     HoldersKnown, HoldersOf, Listeners, RowsKnown, RowKnown, NumberKnown, FoundKnown,
     SameSocket, SamePlace, InTheWayOfAny, HolderHeld
<1>2. CASE Snapshot
  BY <1>2, SnapshotKeeps
<1>3. CASE Probe
  BY <1>3, PortStepKeeps DEF Probe
<1>4. CASE Diagnose
  BY <1>4, ForgetKeeps DEF Diagnose, Forget, Walked
<1>5. CASE Environment
  BY <1>5, MachineStepKeeps DEF Environment, NetworkMoves, ProcessesMove, Edit, Stage
<1>6. CASE \/ \E c \in user.commands : Invoke(c)
           \/ Load \/ List \/ Scan \/ Skip \/ ScanEnds \/ UNCHANGED vars
  BY <1>1, <1>6 DEF Invoke, Load, List, Scan, Skip, ScanEnds, vars
<1> QED
  BY <1>2, <1>3, <1>4, <1>5, <1>6 DEF Next, AutoNet

(***************************************************************************)
(* What is named as the holder of a port held, at some moment of the       *)
(* inspection, a listener that stands in the way (port.rs, procnet.rs,     *)
(* tcptable.rs), under this number, and with this name unless the process  *)
(* ended after it was found, or before Windows' table was read: for any    *)
(* processes that come and go meanwhile.                                   *)
(***************************************************************************)
THEOREM NamesHolders == Spec => []HolderHeld
<1>1. Init => Inspection /\ Walked
  BY InspectionBegins, BeginningsArePossible DEF Init, PortInit, Walked
<1>2. Inspection /\ Walked /\ [Next]_vars => Inspection' /\ Walked'
  BY CommandsKeep
<1>3. Inspection => HolderHeld
  BY DEF Inspection
<1> QED
  BY <1>1, <1>2, <1>3, PTL DEF Spec

----------------------------------------------------------------------------
\* What is staged is read before it is committed.

IsPaths == DOMAIN staged = Paths

\* While the hook of a commit reads, a file that would bring something new is
\* still to be read, or was reported, or is clean, or was staged anew or not
\* shown.
HookKnows ==
    (phase = "scan" /\ command = "commit") =>
        \A f \in Paths \ slipped :
            (IsCheckedPath(Files[f].kind) /\ staged[f] \notin {None, head[f]})
                => f \in listed \cup reports \/ Findings(staged[f]) = {}

Hook == IsPaths /\ HookKnows

LEMMA CheckKeeps ==
  ASSUME Hook, List \/ Scan \/ Skip \/ ScanEnds
  PROVE  Hook'
<1>1. IsPaths'
  BY DEF List, Scan, Skip, ScanEnds, Hook, IsPaths, Paths
<1>2. CASE List
  <2>1. SUFFICES ASSUME phase' = "scan", command' = "commit", NEW f \in Paths,
                        IsCheckedPath(Files[f].kind), staged'[f] \notin {None, head'[f]}
                 PROVE  f \in listed'
    BY <1>1 DEF Hook, HookKnows
  <2>2. command = "commit" /\ UNCHANGED <<staged, head>>
    BY <1>2, <2>1 DEF List
  <2>3. PICK git : listed' = {g \in Listing(git) : IsCheckedPath(Files[g].kind)}
    BY <1>2, <2>1 DEF List, Ends
  <2>4. f \in Listing(git)
    BY <2>1, <2>2 DEF Listing
  <2> QED
    BY <2>1, <2>3, <2>4
<1>3. CASE Scan
  <2>1. PICK f \in listed :
           /\ listed' = listed \ {f}
           /\ reports' = IF Findings(Read(f)) = {} THEN reports ELSE reports \cup {f}
    BY <1>3 DEF Scan
  <2>2. UNCHANGED <<phase, command, staged, head, slipped>>
    BY <1>3 DEF Scan
  <2>3. command = "commit" => Read(f) = staged[f]
    BY DEF Read
  <2> QED
    BY <1>1, <2>1, <2>2, <2>3 DEF Hook, HookKnows
<1>4. CASE Skip
  <2>1. PICK f \in listed : listed' = listed \ {f} /\ slipped' = slipped \cup {f}
    BY <1>4 DEF Skip
  <2> QED
    BY <1>1, <1>4, <2>1 DEF Skip, Hook, HookKnows
<1>5. CASE ScanEnds
  BY <1>1, <1>5 DEF ScanEnds, Ends, Hook, HookKnows
<1> QED
  BY <1>2, <1>3, <1>4, <1>5

LEMMA HookKeeps ==
  ASSUME Hook, [Next]_vars
  PROVE  Hook'
<1>1. CASE UNCHANGED <<phase, command, staged, head, slipped, listed, reports>>
  BY <1>1 DEF Hook, IsPaths, HookKnows
<1>2. CASE List \/ Scan \/ Skip \/ ScanEnds
  BY <1>2, CheckKeeps
<1>3. CASE (\E c \in user.commands : Invoke(c)) \/ Load \/ Snapshot \/ Diagnose
  <2>1. phase' # "scan" /\ UNCHANGED staged
    <3>1. CASE \E c \in user.commands : Invoke(c)
      BY <3>1 DEF Invoke
    <3>2. CASE Load
      BY <3>2 DEF Load, Ends, Goes, project
    <3>3. CASE Snapshot
      BY <3>3 DEF Snapshot, Tells, Ends, Status, Ip, DoctorEnds, project
    <3>4. CASE Diagnose
      BY <3>4 DEF Diagnose, DoctorEnds, Tells, Ends, project
    <3> QED
      BY <1>3, <3>1, <3>2, <3>3, <3>4
  <2> QED
    BY <2>1 DEF Hook, IsPaths, HookKnows
<1>4. ASSUME NEW f, Stage(f) PROVE Hook'
  <2>1. IsPaths'
    BY <1>4 DEF Stage, Hook, IsPaths
  <2>2. \A g \in Paths \ {f} : staged'[g] = staged[g]
    BY <1>4 DEF Stage, Hook, IsPaths
  <2>3. /\ phase = "scan" => slipped' = slipped \cup {f}
        /\ UNCHANGED <<phase, command, head, listed, reports>>
    BY <1>4 DEF Stage
  <2> QED
    BY <2>1, <2>2, <2>3 DEF Hook, HookKnows
<1>5. CASE Environment
  <2>1. \/ UNCHANGED <<phase, command, staged, head, slipped, listed, reports>>
        \/ \E f : Stage(f)
    BY <1>5 DEF Environment, NetworkMoves, ProcessesMove, Edit, cliVars, project
  <2> QED
    BY <1>1, <1>4, <2>1
<1> QED
  BY <1>1, <1>2, <1>3, <1>5 DEF Next, AutoNet, Probe, vars, cliVars, project

(***************************************************************************)
(* What a commit brings in has no address in it, for every project and     *)
(* whatever is edited and staged meanwhile (check.rs), unless the file was *)
(* staged anew while the hook read, or Git did not show it to the hook.    *)
(***************************************************************************)
THEOREM CommitsAreClean == Spec => CommittedClean
<1>1. Init => Hook
  BY BeginningsArePossible DEF Init, Hook, IsPaths, HookKnows, Paths
<1>2. Hook /\ [Next]_vars => Hook'
  BY HookKeeps
<1>3. Hook /\ [Next]_vars =>
        [\A f \in Paths \ slipped :
            (head'[f] # head[f] /\ IsCheckedPath(Files[f].kind)) => Findings(head'[f]) = {}]_vars
  <2> SUFFICES ASSUME Hook, Next, NEW f \in Paths \ slipped, head'[f] # head[f],
                      IsCheckedPath(Files[f].kind)
               PROVE  Findings(head'[f]) = {}
    OBVIOUS
  <2>1. ScanEnds /\ head' = staged /\ command = "commit" /\ reports = {}
    BY DEF Next, AutoNet, Environment, Invoke, Load, Snapshot, Probe, Diagnose, List,
       Scan, Skip, ScanEnds, NetworkMoves, ProcessesMove, Edit, Stage, cliVars, project
  <2>2. CASE staged[f] = None
    BY <2>1, <2>2 DEF Findings
  <2>3. CASE staged[f] # None
    BY <2>1, <2>3 DEF ScanEnds, Hook, HookKnows
  <2> QED
    BY <2>2, <2>3
<1> QED
  BY <1>1, <1>2, <1>3, PTL DEF Spec, CommittedClean

----------------------------------------------------------------------------
\* The types of what an inspection has in hand, and of what a command has.

HandTypes ==
    /\ rows \subseteq Sockets
    /\ host \in [platform : {"linux", "macos", "windows"}, account : Nat,
                 privileged : BOOLEAN, hidden : SUBSET {"v4", "v6", "self"}]
    /\ moves \in Nat
    /\ at \in {"idle", "bind", "bind_wildcard", "table_v4", "table_v6", "match",
               "walk", "name", "answered"}
    /\ onAddress \in {None, "free", "in_use", "undetermined"}
    /\ onWildcard \in {None, "free", "in_use", "undetermined"}
    /\ left \subseteq Pids
    /\ seen \subseteq Pids \X (STRING \cup {None}) /\ ended \subseteq Pids
    /\ calm \in BOOLEAN

CommandTypes ==
    /\ phase \in {"prompt", "load", "snapshot", "probe", "list", "scan"}
    /\ code \in {None, 0, 1, 2}
    /\ listed \subseteq Paths /\ reports \subseteq Paths /\ slipped \subseteq Paths
    /\ user.edits \subseteq Paths

\* Who holds a listener has a number, and a name while it lives.
LEMMA HoldersTyped ==
  ASSUME NEW socks, NEW people, KernelTables(socks, people), NEW wanted
  PROVE  HoldersOf(socks, people, wanted) \subseteq Pids \X (STRING \cup {None})
  BY DEF KernelTables, HoldersOf, Listeners, Sockets, Processes

LEMMA PortStepTypes ==
  ASSUME HandTypes, Consistent, PortStep
  PROVE  HandTypes'
<1>1. UNCHANGED <<machine, seen, calm>> /\ ended' \subseteq ended
  BY DEF PortStep, BindAddress, BindWildcard, ReadV4, ReadV6, MatchNone, MatchLinux,
     MatchWindows, Walk, CommandName, ImageName
<1>2. \A fam : Table(fam) \subseteq Sockets
  BY DEF Table, Consistent, KernelTables
<1>3. \A w : Availability(w) \in {"free", "in_use", "undetermined"}
  BY DEF Availability
<1>4. Alive \subseteq Pids
  BY DEF Alive
<1>5. rows' \subseteq Sockets
  BY <1>2 DEF HandTypes, PortStep, BindAddress, BindWildcard, ReadV4, ReadV6, MatchNone,
     MatchLinux, MatchWindows, Walk, CommandName, ImageName
<1>6. at' \in {"idle", "bind", "bind_wildcard", "table_v4", "table_v6", "match",
               "walk", "name", "answered"}
  BY DEF HandTypes, PortStep, BindAddress, BindWildcard, ReadV4, ReadV6, MatchNone,
     MatchLinux, MatchWindows, Walk, CommandName, ImageName, Answer
<1>7. /\ onAddress' \in {None, "free", "in_use", "undetermined"}
      /\ onWildcard' \in {None, "free", "in_use", "undetermined"}
  BY <1>3 DEF HandTypes, PortStep, BindAddress, BindWildcard, ReadV4, ReadV6, MatchNone,
     MatchLinux, MatchWindows, Walk, CommandName, ImageName
<1>8. left' \subseteq Pids
  BY <1>4 DEF HandTypes, PortStep, BindAddress, BindWildcard, ReadV4, ReadV6, MatchNone,
     MatchLinux, MatchWindows, Walk, CommandName, ImageName
<1> QED
  BY <1>1, <1>5, <1>6, <1>7, <1>8 DEF HandTypes, machine

LEMMA HandTypesKept ==
  ASSUME HandTypes, Inspection, [Next]_vars
  PROVE  HandTypes'
<1>1. CASE UNCHANGED portVars
  BY <1>1 DEF portVars, machine, lookup, HandTypes
<1>2. CASE Snapshot
  <2>1. UNCHANGED portVars \/ \E wanted : Inspect(wanted)
    BY <1>2 DEF Snapshot
  <2>2. \A w : HoldersOf(sockets, procs, w) \subseteq Pids \X (STRING \cup {None})
    BY HoldersTyped DEF Inspection, Consistent
  <2> QED
    BY <1>1, <2>1, <2>2 DEF Inspect, machine, HandTypes
<1>3. CASE Probe
  BY <1>3, PortStepTypes DEF Probe, Inspection
<1>4. CASE Diagnose
  BY <1>4 DEF Diagnose, Forget, machine, HandTypes
<1>5. CASE Environment
  <2>1. PICK gone \in SUBSET Pids : Moves(gone)
    BY <1>5 DEF Environment, NetworkMoves, ProcessesMove, Edit, Stage, MachineStep,
       Opens, Inherits, Starts, Exits
  <2>2. moves' \in Nat /\ calm' \in BOOLEAN /\ ended' \subseteq Pids
    BY <2>1 DEF Moves, HandTypes
  <2>3. KernelTables(sockets', procs')
    BY <1>5, MachineKeeps DEF Environment, NetworkMoves, ProcessesMove, Edit, Stage,
       Inspection, Consistent
  <2>4. HoldersOf(sockets', procs', address) \subseteq Pids \X (STRING \cup {None})
    BY <2>3, HoldersTyped
  <2> QED
    BY <2>1, <2>2, <2>4 DEF Moves, lookup, HandTypes
<1>6. CASE (\E c \in user.commands : Invoke(c)) \/ Load \/ List \/ Scan \/ Skip \/ ScanEnds
  BY <1>1, <1>6 DEF Invoke, Load, List, Scan, Skip, ScanEnds
<1> QED
  BY <1>1, <1>2, <1>3, <1>4, <1>5, <1>6 DEF Next, AutoNet, vars

LEMMA CommandTypesKept ==
  ASSUME CommandTypes, [Next]_vars
  PROVE  CommandTypes'
<1>1. \A result \in {"ok", "no_address", "unhealthy", "platform", "config", "usage"} :
         ExitCode(result) \in {0, 1, 2}
  BY DEF ExitCode
<1>2. ASSUME UNCHANGED <<listed, reports, slipped, user>>,
             UNCHANGED <<phase, code>> \/
             \/ /\ phase' = "prompt"
                /\ \E result \in {"ok", "no_address", "unhealthy", "platform", "config",
                                  "usage"} : code' = ExitCode(result)
             \/ phase' \in {"probe", "list", "snapshot"} /\ code' = code
      PROVE  CommandTypes'
  BY <1>1, <1>2 DEF CommandTypes, Paths
<1>3. CASE \E c \in user.commands : Invoke(c)
  BY <1>3 DEF Invoke, CommandTypes, Paths
<1>4. CASE Load
  <2>1. UNCHANGED <<listed, reports, slipped, user>>
    BY <1>4 DEF Load, project
  <2>2. \/ /\ phase' = "prompt"
           /\ \E result \in {"config", "platform", "usage"} : code' = ExitCode(result)
        \/ phase' \in {"list", "snapshot"} /\ code' = code
    BY <1>4 DEF Load, Ends, Goes
  <2> QED
    BY <1>2, <2>1, <2>2
<1>5. CASE Snapshot
  <2>1. UNCHANGED <<listed, reports, slipped, user>>
    BY <1>5 DEF Snapshot, project
  <2>2. \/ phase' = "probe" /\ code' = code
        \/ /\ phase' = "prompt"
           /\ \E result \in {"ok", "no_address", "unhealthy", "platform", "usage"} :
                code' = ExitCode(result)
    BY <1>5 DEF Snapshot, Tells, Ends, Status, Ip, DoctorEnds
  <2> QED
    BY <1>2, <2>1, <2>2
<1>6. CASE Diagnose
  <2>1. UNCHANGED <<listed, reports, slipped, user>>
    BY <1>6 DEF Diagnose, project
  <2>2. /\ phase' = "prompt"
        /\ \E result \in {"ok", "unhealthy"} : code' = ExitCode(result)
    BY <1>6 DEF Diagnose, DoctorEnds, Tells, Ends
  <2> QED
    BY <1>2, <2>1, <2>2
<1>7. CASE List
  <2>1. \A git : Listing(git) \subseteq Paths
    BY DEF Listing
  <2>2. code' \in {code, ExitCode("usage")} /\ phase' \in {"prompt", "scan"}
        /\ listed' \subseteq Paths /\ slipped' = {} /\ UNCHANGED <<user, reports>>
    BY <1>7, <2>1 DEF List, Ends, Goes, CommandTypes
  <2> QED
    BY <1>1, <2>2 DEF CommandTypes, Paths
<1>8. CASE Scan \/ Skip
  BY <1>8 DEF Scan, Skip, CommandTypes, Paths
<1>9. CASE ScanEnds
  BY <1>1, <1>9 DEF ScanEnds, Ends, CommandTypes, Paths
<1>10. CASE Environment \/ Probe \/ UNCHANGED vars
  <2>1. CASE \E f \in user.edits : Stage(f)
    <3>1. PICK f \in user.edits : Stage(f)
      BY <2>1
    <3>2. f \in Paths
      BY DEF CommandTypes
    <3> QED
      BY <3>1, <3>2 DEF Stage, CommandTypes, Paths
  <2>2. CASE UNCHANGED <<phase, code, listed, reports, slipped, user>>
    BY <2>2 DEF CommandTypes, Paths
  <2> QED
    BY <1>10, <2>1, <2>2 DEF Environment, NetworkMoves, ProcessesMove, Edit, Probe, vars,
       cliVars, project
<1> QED
  BY <1>3, <1>4, <1>5, <1>6, <1>7, <1>8, <1>9, <1>10 DEF Next, AutoNet

(***************************************************************************)
(* Type correctness of the commands and of the inspections they make.      *)
(***************************************************************************)
THEOREM TypeCorrect == Spec => []TypeOK
<1> DEFINE Inv == HandTypes /\ CommandTypes /\ Inspection /\ Walked
<1>1. Init => Inv
  <2> SUFFICES ASSUME Init PROVE Inv
    OBVIOUS
  <2>1. PICK b \in Beginnings : PortInit(b) /\ user = b.user
    BY DEF Init
  <2>2. HandTypes
    BY <2>1, BeginningsArePossible DEF PortInit, HandTypes
  <2>3. Inspection /\ Walked
    BY <2>1, BeginningsArePossible, InspectionBegins DEF PortInit, Walked
  <2>4. CommandTypes
    BY <2>1, BeginningsArePossible DEF Init, CommandTypes, Paths
  <2> QED
    BY <2>2, <2>3, <2>4
<1>2. Inv /\ [Next]_vars => Inv'
  BY HandTypesKept, CommandTypesKept, CommandsKeep
<1>3. Inv => TypeOK
  BY DEF HandTypes, CommandTypes, Inspection, Consistent, TypeOK, PortTypeOK
<1> QED
  BY <1>1, <1>2, <1>3, PTL DEF Spec

----------------------------------------------------------------------------
\* A machine that rests while it is asked.

\* A socket is open in some process, and has the account of each that has it
\* open: none is the kernel's own, or was passed to another account.
Owned(socks, people) ==
    \A s \in socks :
        /\ \E p \in Pids : people[p] # None /\ s.inode \in people[p].fds
        /\ \A p \in Pids : people[p] # None /\ s.inode \in people[p].fds
                              => people[p].uid = s.uid

LEMMA OwnedKept ==
  ASSUME Consistent, Owned(sockets, procs), MachineStep
  PROVE  Owned(sockets', procs')
<1>1. ASSUME NEW p \in Pids, NEW place \in Places, Opens(p, place)
      PROVE  Owned(sockets', procs')
  <2>1. PICK i \in Inodes \ ({s.inode : s \in sockets} \cup InHand) :
           /\ sockets' = sockets \cup {[inode |-> i, address |-> place.address,
                                        port |-> place.port, uid |-> procs[p].uid,
                                        pid |-> p, listening |-> place.listening,
                                        by |-> procs[p].name]}
           /\ procs' = [procs EXCEPT ![p].fds = @ \cup {i}]
    BY <1>1 DEF Opens
  <2>2. /\ procs[p] # None /\ procs[p] \in Processes /\ DOMAIN procs = Pids
    BY <1>1 DEF Opens, Consistent, KernelTables
  <2>3. /\ \A q \in Pids \ {p} : procs'[q] = procs[q]
        /\ procs'[p].fds = procs[p].fds \cup {i} /\ procs'[p].uid = procs[p].uid
        /\ procs'[p] \in Processes
    BY <2>1, <2>2 DEF Processes
  <2>4. \A q \in Pids : procs[q] # None => i \notin procs[q].fds
    BY <2>1 DEF Consistent, KernelTables
  <2>5. procs'[p] # None
    BY <2>3, NoneIsNoProcess
  <2>6. ASSUME NEW s \in sockets
        PROVE  /\ \E q \in Pids : procs'[q] # None /\ s.inode \in procs'[q].fds
               /\ \A q \in Pids : procs'[q] # None /\ s.inode \in procs'[q].fds
                                     => procs'[q].uid = s.uid
    <3>1. s.inode # i
      BY <2>1
    <3> QED
      BY <2>2, <2>3, <2>5, <3>1 DEF Owned
  <2>7. ASSUME NEW s \in sockets', s \notin sockets
        PROVE  /\ \E q \in Pids : procs'[q] # None /\ s.inode \in procs'[q].fds
               /\ \A q \in Pids : procs'[q] # None /\ s.inode \in procs'[q].fds
                                     => procs'[q].uid = s.uid
    <3>1. s.inode = i /\ s.uid = procs[p].uid
      BY <2>1, <2>7
    <3> QED
      BY <2>3, <2>4, <2>5, <3>1
  <2> QED
    BY <2>6, <2>7 DEF Owned
<1>2. ASSUME NEW p \in Pids, NEW child \in Pids, Inherits(p, child)
      PROVE  Owned(sockets', procs')
  <2>1. /\ procs'[child] = procs[p] /\ procs[child] = None /\ procs[p] # None
        /\ \A q \in Pids \ {child} : procs'[q] = procs[q]
        /\ sockets' = sockets
    BY <1>2 DEF Inherits, Consistent, KernelTables
  <2> QED
    BY <2>1 DEF Owned
<1>3. ASSUME NEW p \in Pids, NEW who \in People, Starts(p, who)
      PROVE  Owned(sockets', procs')
  <2>1. /\ procs'[p].fds = {} /\ procs[p] = None
        /\ \A q \in Pids \ {p} : procs'[q] = procs[q]
        /\ sockets' = sockets
    BY <1>3 DEF Starts, Consistent, KernelTables
  <2> QED
    BY <2>1 DEF Owned
<1>4. ASSUME NEW p \in Pids, Exits(p)
      PROVE  Owned(sockets', procs')
  <2>1. /\ procs'[p] = None /\ \A q \in Pids \ {p} : procs'[q] = procs[q]
        /\ \A r \in sockets' : \E s \in Opened(sockets, procs') :
              r = [s EXCEPT !.by = IF s.pid = p THEN None ELSE @]
    BY <1>4 DEF Exits, Consistent, KernelTables
  <2>2. \A s \in Opened(sockets, procs') : s \in sockets /\ s \in Sockets
    BY DEF Opened, Consistent, KernelTables
  <2>3. \A r \in sockets' : \E s \in Opened(sockets, procs') :
           r.inode = s.inode /\ r.uid = s.uid
    BY <2>1, <2>2 DEF Sockets
  <2> QED
    BY <2>1, <2>2, <2>3 DEF Owned, Opened
<1> QED
  BY <1>1, <1>2, <1>3, <1>4 DEF MachineStep

\* What is true of an inspection as long as the machine rests: the binds said
\* what is so, the rows are the listeners, and the row in hand is one that
\* refused the bind.
BindsTold ==
    calm => /\ at \notin {"idle", "bind"} => onAddress = Availability(address)
            /\ at \notin {"idle", "bind", "bind_wildcard"}
                  => onWildcard = Availability(Wildcard(address))

Taken == at \in {"table_v4", "table_v6", "match", "walk", "name"}
            => "in_use" \in {onAddress, onWildcard}

Resting == calm /\ host.hidden = {} /\ host.platform # "macos"

RowsTold ==
    Resting => /\ at = "table_v6" => rows = {s \in sockets : s.listening
                                                             /\ s.address.family = "v4"}
               /\ at = "match" => rows = {s \in sockets : s.listening}

FoundTold ==
    Resting =>
        /\ at = "walk" => /\ host.platform = "linux"
                          /\ found \in InTheWay(Asked)
                          /\ host.account \in {Root, found.uid}
                          /\ \A p \in Alive \ left : ~Holds(p)
        /\ at = "name" /\ host.platform = "linux" =>
                \E s \in InTheWay(Asked) :
                    /\ found.pid \in Alive
                    /\ s.inode \in procs[found.pid].fds
        /\ at = "name" /\ host.platform = "windows"
           /\ (\A s \in InTheWay(Asked) : s.listening)
                => \E s \in InTheWay(Asked) : s.pid = found.pid

Rest == BindsTold /\ Taken /\ RowsTold /\ FoundTold /\ RestingHolderFound

\* A bind that was refused had something in its way.
LEMMA RefusedBySomething ==
  ASSUME BindsTold, calm, "in_use" \in {onAddress, onWildcard},
         at \notin {"idle", "bind", "bind_wildcard"}
  PROVE  InTheWay(Asked) # {}
  BY DEF BindsTold, Availability, Asked

\* Whatever blocks a bind contends with it, and on Linux the other way round.
LEMMA BlocksContend ==
  ASSUME NEW b, NEW w
  PROVE  /\ Blocks(b, w) => Contends(Canonical(b), Canonical(w))
         /\ host.platform # "windows" /\ Contends(Canonical(b), Canonical(w)) => Blocks(b, w)
         /\ Canonical(b) = Canonical(w) => Blocks(b, w)
         /\ host.platform = "windows" /\ Blocks(b, w) => Canonical(b) = Canonical(w)
  BY DEF Blocks, Contends

\* The rows, of a machine at rest, that the lookup may settle on.
LEMMA CollidesAtRest ==
  ASSUME Consistent, rows = {s \in sockets : s.listening}
  PROVE  /\ \A t \in InTheWay(Asked) : t.listening => Collides(rows, Asked) # {}
         /\ host.platform # "windows" => Collides(rows, Asked) \subseteq InTheWay(Asked)
         /\ (\E t \in InTheWay(Asked) : t.listening) /\ host.platform = "windows"
                => Collides(rows, Asked) \subseteq InTheWay(Asked)
<1> DEFINE against == Contenders(rows, Asked)
           exact   == {r \in against : Canonical(r.address) = Canonical(Asked)}
           first   == {r \in against : r.address.family = "v4"}
<1>1. Collides(rows, Asked)
         = IF exact # {} THEN exact ELSE IF first # {} THEN first ELSE against
  BY DEF Collides
<1>2. \A t \in InTheWay(Asked) : t.listening => t \in against
  BY BlocksContend DEF InTheWay, Contenders
<1>3. host.platform # "windows" => against \subseteq InTheWay(Asked)
  BY BlocksContend DEF InTheWay, Contenders
<1>4. exact \subseteq InTheWay(Asked)
  BY BlocksContend DEF InTheWay, Contenders
<1>5. \A t \in InTheWay(Asked) : t.listening /\ host.platform = "windows" => t \in exact
  BY <1>2, BlocksContend DEF InTheWay
<1>6. exact \subseteq against /\ first \subseteq against
  OBVIOUS
<1> HIDE DEF against, exact, first
<1> QED
  BY <1>1, <1>2, <1>3, <1>4, <1>5, <1>6

\* What stays as it was while the machine and the two probes do.
LEMMA SameProbes ==
  ASSUME UNCHANGED <<host, sockets, procs, address>>
  PROVE  /\ \A w : Availability(w)' = Availability(w) /\ InTheWay(w)' = InTheWay(w)
         /\ onAddress' = onAddress => Asked' = Asked /\ InTheWay(Asked)' = InTheWay(Asked)
         /\ Alive' = Alive
  BY DEF Availability, InTheWay, Blocks, Asked, Alive

LEMMA BindingRests ==
  ASSUME Rest, BindAddress \/ BindWildcard
  PROVE  Rest'
<1>1. UNCHANGED <<host, sockets, procs, address, calm>>
  BY DEF BindAddress, BindWildcard, machine
<1>2. CASE BindAddress
  <2>1. /\ at = "bind" /\ at' = "bind_wildcard"
        /\ calm => onAddress' = Availability(address)
    BY <1>2 DEF BindAddress
  <2> QED
    BY <1>1, <2>1, SameProbes DEF Rest, BindsTold, Taken, RowsTold, FoundTold,
       RestingHolderFound
<1>3. CASE BindWildcard
  <2>1. /\ onAddress' = onAddress /\ onWildcard' = Availability(Wildcard(address))
        /\ at = "bind_wildcard"
        /\ \/ at' = "table_v4" /\ "in_use" \in {onAddress, onWildcard'}
           \/ at' = "answered" /\ host.platform = "macos"
           \/ at' = "answered" /\ "in_use" \notin {onAddress, onWildcard'}
    BY <1>3 DEF BindWildcard, Answer
  <2>2. BindsTold'
    BY <1>1, <2>1, SameProbes DEF Rest, BindsTold
  <2>3. RestingHolderFound'
    BY <1>1, <2>1 DEF RestingHolderFound
  <2> QED
    BY <1>1, <2>1, <2>2, <2>3 DEF Rest, Taken, RowsTold, FoundTold
<1> QED
  BY <1>2, <1>3

LEMMA ReadingRests ==
  ASSUME Rest, Consistent, ReadV4 \/ ReadV6
  PROVE  Rest'
<1>1. UNCHANGED <<host, sockets, procs, address, calm, onAddress, onWildcard>>
  BY DEF ReadV4, ReadV6, machine
<1>2. \A s \in sockets : s.address.family \in {"v4", "v6"}
  BY DEF Consistent, KernelTables, Sockets, Addresses
<1>3. host.hidden = {} =>
         /\ Table("v4") = {s \in sockets : s.listening /\ s.address.family = "v4"}
         /\ Table("v6") = {s \in sockets : s.listening /\ s.address.family = "v6"}
  BY DEF Table
<1>4. RowsTold'
  <2>1. CASE ReadV4
    BY <1>1, <1>3, <2>1 DEF ReadV4, RowsTold, Resting
  <2>2. CASE ReadV6
    <3>1. at = "table_v6" /\ rows' = rows \cup Table("v6") /\ at' = "match"
      BY <2>2 DEF ReadV6
    <3>2. Resting => rows = {s \in sockets : s.listening /\ s.address.family = "v4"}
      BY <3>1 DEF Rest, RowsTold
    <3>3. Resting => rows' = {s \in sockets : s.listening}
      BY <1>2, <1>3, <3>1, <3>2 DEF Resting
    <3> QED
      BY <1>1, <3>1, <3>3 DEF RowsTold, Resting
  <2> QED
    BY <2>1, <2>2
<1>5. BindsTold'
  BY <1>1, SameProbes DEF ReadV4, ReadV6, Rest, BindsTold
<1>6. Taken' /\ FoundTold' /\ RestingHolderFound'
  BY <1>1 DEF ReadV4, ReadV6, Rest, Taken, FoundTold, RestingHolderFound
<1> QED
  BY <1>4, <1>5, <1>6 DEF Rest

LEMMA MatchingRests ==
  ASSUME Rest, Consistent, HandTypes, MatchNone \/ MatchLinux \/ MatchWindows
  PROVE  Rest'
<1>1. /\ UNCHANGED <<host, sockets, procs, address, calm, onAddress, onWildcard>>
      /\ at = "match"
  BY DEF MatchNone, MatchLinux, MatchWindows, machine
<1>2. /\ \A w : Availability(w)' = Availability(w) /\ InTheWay(w)' = InTheWay(w)
      /\ Asked' = Asked /\ InTheWay(Asked)' = InTheWay(Asked) /\ Alive' = Alive
  BY <1>1, SameProbes
<1>3. at' \in {"walk", "name", "answered"}
  BY DEF MatchNone, MatchLinux, MatchWindows, Answer
<1>4. BindsTold' /\ Taken' /\ RowsTold'
  BY <1>1, <1>2, <1>3 DEF Rest, BindsTold, Taken, RowsTold
<1>5. Resting => /\ rows = {s \in sockets : s.listening}
                 /\ InTheWay(Asked) # {}
  BY <1>1, RefusedBySomething DEF Rest, RowsTold, Taken, Resting
<1>6. CASE MatchNone
  <2>1. at' = "answered" /\ holder' = NotListed /\ Collides(rows, Asked) = {}
    BY <1>6 DEF MatchNone, Answer
  <2>2. Resting => \A t \in InTheWay(Asked) : ~t.listening
    BY <1>5, <2>1, CollidesAtRest
  <2>3. RestingHolderFound'
    BY <1>1, <1>2, <1>5, <2>1, <2>2 DEF RestingHolderFound, Resting, NotListed
  <2> QED
    BY <1>4, <2>1, <2>3 DEF Rest, FoundTold
<1>7. CASE MatchLinux
  <2>1. PICK row \in Collides(rows, Asked) :
           IF Ours \in {None, Root, row.uid}
           THEN at' = "walk" /\ found' = row /\ left' = Alive
           ELSE at' = "answered" /\ holder' = OtherUser(row.uid)
    BY <1>7 DEF MatchLinux, Answer
  <2>2. host.platform = "linux"
    BY <1>7 DEF MatchLinux
  <2>3. Resting => row \in InTheWay(Asked)
    BY <1>5, <2>2, CollidesAtRest
  <2>4. Resting => Ours = host.account
    BY DEF Resting, Ours
  <2>5. CASE Ours \in {None, Root, row.uid}
    <3>1. host.account \in Nat
      BY DEF HandTypes
    <3>2. at' = "walk" /\ found' = row /\ left' = Alive
      BY <2>1, <2>5
    <3>3. Resting => host.account \in {Root, row.uid}
      BY <2>4, <2>5, <3>1, NoneIsNoNumber
    <3>4. FoundTold'
      BY <1>1, <1>2, <2>2, <2>3, <3>2, <3>3 DEF FoundTold, Resting
    <3> QED
      BY <1>4, <3>2, <3>4 DEF Rest, RestingHolderFound
  <2>6. CASE Ours \notin {None, Root, row.uid}
    <3>1. at' = "answered" /\ holder' = OtherUser(row.uid)
      BY <2>1, <2>6
    <3>2. RestingHolderFound'
      BY <1>1, <1>2, <2>3, <3>1 DEF RestingHolderFound, Resting, OtherUser
    <3> QED
      BY <1>4, <3>1, <3>2 DEF Rest, FoundTold
  <2> QED
    BY <2>5, <2>6
<1>8. CASE MatchWindows
  <2>1. PICK row \in Collides(rows, Asked) : found' = [row EXCEPT !.inode = None]
    BY <1>8 DEF MatchWindows
  <2>2. host.platform = "windows" /\ at' = "name"
    BY <1>8 DEF MatchWindows
  <2>3. Resting /\ (\A s \in InTheWay(Asked) : s.listening) => row \in InTheWay(Asked)
    BY <1>5, <2>2, CollidesAtRest
  <2>4. Resting => found'.pid = row.pid
    <3>1. Resting => row \in Sockets
      BY <1>5, CollidersContend DEF Consistent, KernelTables
    <3> QED
      BY <2>1, <3>1 DEF Sockets
  <2>5. FoundTold'
    BY <1>1, <1>2, <2>2, <2>3, <2>4 DEF FoundTold, Resting
  <2> QED
    BY <1>4, <2>2, <2>5 DEF Rest, RestingHolderFound
<1> QED
  BY <1>6, <1>7, <1>8

LEMMA NamingRests ==
  ASSUME Rest, Consistent, Owned(sockets, procs), HandTypes,
         Walk \/ CommandName \/ ImageName
  PROVE  Rest'
<1>1. UNCHANGED <<host, sockets, procs, address, calm, onAddress, onWildcard>>
  BY DEF Walk, CommandName, ImageName, machine
<1>2. /\ \A w : Availability(w)' = Availability(w) /\ InTheWay(w)' = InTheWay(w)
      /\ Asked' = Asked /\ InTheWay(Asked)' = InTheWay(Asked) /\ Alive' = Alive
  BY <1>1, SameProbes
<1>3. at \in {"walk", "name"} /\ at' \in {"walk", "name", "answered"}
  BY DEF Walk, CommandName, ImageName, Answer
<1>4. BindsTold' /\ Taken' /\ RowsTold'
  BY <1>1, <1>2, <1>3 DEF Rest, BindsTold, Taken, RowsTold
<1>5. CASE Walk
  <2>1. at = "walk"
    BY <1>5 DEF Walk
  <2>2. CASE left # {}
    <3>1. PICK p \in left :
             /\ left' = IF Holds(p) THEN {} ELSE left \ {p}
             /\ at' = IF Holds(p) THEN "name" ELSE "walk"
             /\ found' = IF Holds(p) THEN [found EXCEPT !.pid = p] ELSE found
      BY <1>5, <2>2 DEF Walk
    <3>2. CASE Holds(p)
      <4>1. Resting => found \in InTheWay(Asked) /\ found \in Sockets /\ host.platform = "linux"
        BY <2>1 DEF Rest, FoundTold, InTheWay, Consistent, KernelTables
      <4>2. Resting => found'.pid = p
        BY <3>1, <3>2, <4>1 DEF Sockets
      <4>3. p \in Alive /\ found.inode \in procs[p].fds
        BY <3>2 DEF Holds, Alive, HandTypes
      <4>4. FoundTold'
        BY <1>1, <1>2, <3>1, <3>2, <4>1, <4>2, <4>3 DEF FoundTold, Resting
      <4> QED
        BY <1>4, <3>1, <3>2, <4>4 DEF Rest, RestingHolderFound
    <3>3. CASE ~Holds(p)
      <4>1. left' = left \ {p} /\ at' = "walk" /\ found' = found
        BY <3>1, <3>3
      <4>2. \A q : Holds(q)' = Holds(q)
        BY <1>1, <4>1 DEF Holds
      <4>3. FoundTold'
        BY <1>1, <1>2, <2>1, <3>3, <4>1, <4>2 DEF Rest, FoundTold, Resting
      <4> QED
        BY <1>4, <4>1, <4>3 DEF Rest, RestingHolderFound
    <3> QED
      BY <3>2, <3>3
  <2>3. CASE left = {}
    <3>1. at' = "answered"
      BY <1>5, <2>3 DEF Walk, Answer
    <3>2. ~Resting
      <4> SUFFICES ASSUME Resting PROVE FALSE
        OBVIOUS
      <4>1. /\ found \in sockets /\ host.account \in {Root, found.uid}
            /\ \A p \in Alive : ~Holds(p)
        BY <2>1, <2>3 DEF Rest, FoundTold, InTheWay
      <4>2. PICK p \in Pids : procs[p] # None /\ found.inode \in procs[p].fds
        BY <4>1 DEF Owned
      <4>3. procs[p].uid = found.uid
        BY <4>1, <4>2 DEF Owned
      <4>4. p \in Alive /\ Holds(p)
        BY <4>1, <4>2, <4>3 DEF Alive, Holds
      <4> QED
        BY <4>1, <4>4
    <3> QED
      BY <1>1, <1>4, <3>1, <3>2 DEF Rest, FoundTold, RestingHolderFound, Resting
  <2> QED
    BY <2>2, <2>3
<1>6. CASE CommandName
  <2>1. /\ at = "name" /\ host.platform = "linux" /\ at' = "answered"
        /\ holder' = IF procs[found.pid] = None THEN Unnamed(found.pid)
                     ELSE Named(found.pid, procs[found.pid].name)
    BY <1>6 DEF CommandName, Answer
  <2>2. Resting => \E s \in InTheWay(Asked) :
                      procs[found.pid] # None /\ s.inode \in procs[found.pid].fds
    BY <2>1 DEF Rest, FoundTold, Alive
  <2>3. RestingHolderFound'
    BY <1>1, <1>2, <2>1, <2>2 DEF RestingHolderFound, Resting, Named
  <2> QED
    BY <1>4, <2>1, <2>3 DEF Rest, FoundTold
<1>7. CASE ImageName
  <2>1. /\ at = "name" /\ host.platform = "windows" /\ at' = "answered"
        /\ holder' \in {Unnamed(found.pid), Named(found.pid, procs[found.pid].name)}
    BY <1>7 DEF ImageName, Answer
  <2>2. Resting /\ (\A s \in InTheWay(Asked) : s.listening)
           => \E s \in InTheWay(Asked) : s.pid = found.pid
    BY <2>1 DEF Rest, FoundTold
  <2>3. RestingHolderFound'
    BY <1>1, <1>2, <2>1, <2>2 DEF RestingHolderFound, Resting, Named, Unnamed
  <2> QED
    BY <1>4, <2>1, <2>3 DEF Rest, FoundTold
<1> QED
  BY <1>5, <1>6, <1>7

\* A new inspection, the end of one, and a machine that moves.
LEMMA OtherStepsRest ==
  ASSUME Rest, \/ UNCHANGED portVars
               \/ \E wanted : Inspect(wanted)
               \/ Forget
               \/ \E gone : Moves(gone)
  PROVE  Rest'
<1>1. CASE UNCHANGED portVars
  <2>1. /\ UNCHANGED <<host, sockets, procs, address, calm, onAddress, onWildcard>>
        /\ UNCHANGED <<at, rows, found, left, holder>>
    BY <1>1 DEF portVars, machine, lookup
  <2>2. \A p : Holds(p)' = Holds(p)
    BY <2>1 DEF Holds
  <2> QED
    BY <2>1, <2>2, SameProbes DEF Rest, BindsTold, Taken, RowsTold, FoundTold, Resting,
       RestingHolderFound, Readable
<1>2. CASE (\E wanted : Inspect(wanted)) \/ Forget
  BY <1>2 DEF Inspect, Forget, Rest, BindsTold, Taken, RowsTold, FoundTold, Resting,
     RestingHolderFound
<1>3. CASE \E gone : Moves(gone)
  BY <1>3 DEF Moves, lookup, Rest, BindsTold, Taken, RowsTold, FoundTold, Resting,
     RestingHolderFound
<1> QED
  BY <1>1, <1>2, <1>3

LEMMA NextRests ==
  ASSUME Rest, Owned(sockets, procs), HandTypes, Inspection, [Next]_vars
  PROVE  Rest' /\ Owned(sockets', procs')
<1>1. CASE Probe
  <2>1. UNCHANGED <<sockets, procs>>
    BY <1>1 DEF Probe, PortStep, BindAddress, BindWildcard, ReadV4, ReadV6, MatchNone,
       MatchLinux, MatchWindows, Walk, CommandName, ImageName, machine
  <2>2. Rest'
    BY <1>1, BindingRests, ReadingRests, MatchingRests, NamingRests
    DEF Probe, PortStep, Inspection
  <2> QED
    BY <2>1, <2>2
<1>2. CASE Environment
  <2>1. \E gone : Moves(gone)
    BY <1>2 DEF Environment, NetworkMoves, ProcessesMove, Edit, Stage, MachineStep,
       Opens, Inherits, Starts, Exits
  <2>2. MachineStep \/ UNCHANGED <<sockets, procs>>
    BY <1>2 DEF Environment, NetworkMoves, ProcessesMove, Edit, Stage
  <2> QED
    BY <2>1, <2>2, OtherStepsRest, OwnedKept DEF Inspection
<1>3. CASE ~Probe /\ ~Environment
  <2>1. UNCHANGED portVars \/ (\E wanted : Inspect(wanted)) \/ Forget
    BY <1>3 DEF Next, AutoNet, Invoke, Load, Snapshot, Diagnose, List, Scan, Skip,
       ScanEnds, vars
  <2>2. UNCHANGED <<sockets, procs>>
    BY <2>1 DEF portVars, machine, Inspect, Forget
  <2> QED
    BY <2>1, <2>2, OtherStepsRest
<1> QED
  BY <1>1, <1>2, <1>3

(***************************************************************************)
(* On a machine that rests, a bind that was refused is explained by a      *)
(* socket that refused it, its process named where this account may see    *)
(* it (port.rs:25-44, portmatch.rs:33-43): for every table of sockets and  *)
(* processes in which a socket is open somewhere, and in no process of     *)
(* another account.                                                        *)
(***************************************************************************)
THEOREM HoldersFoundAtRest ==
  ASSUME \A b \in Beginnings : Owned(b.sockets, b.procs)
  PROVE  Spec => []RestingHolderFound
<1> DEFINE Inv == /\ Rest /\ Owned(sockets, procs)
                  /\ HandTypes /\ Inspection /\ Walked
<1>1. Init => Inv
  <2> SUFFICES ASSUME Init PROVE Inv
    OBVIOUS
  <2>1. PICK b \in Beginnings : PortInit(b)
    BY DEF Init
  <2>2. HandTypes
    BY <2>1, BeginningsArePossible DEF PortInit, HandTypes
  <2>3. Inspection /\ Walked
    BY <2>1, BeginningsArePossible, InspectionBegins DEF PortInit, Walked
  <2>4. Rest
    BY <2>1 DEF PortInit, Rest, BindsTold, Taken, RowsTold, FoundTold, RestingHolderFound
  <2>5. Owned(sockets, procs)
    BY <2>1 DEF PortInit
  <2> QED
    BY <2>2, <2>3, <2>4, <2>5
<1>2. Inv /\ [Next]_vars => Inv'
  BY NextRests, HandTypesKept, CommandsKeep
<1>3. Inv => RestingHolderFound
  BY DEF Rest
<1> QED
  BY <1>1, <1>2, <1>3, PTL DEF Spec

----------------------------------------------------------------------------
\* The settings: what each layer adds, and what the flags do to them.

Settings == WithFlags(Below, Flags)

LEMMA LayersComplete ==
  ASSUME NEW disk, NEW roots, NEW env, NEW explicit,
         LoadLayered(disk, roots, env, explicit) # Unreadable
  PROVE  DOMAIN Defaults \subseteq DOMAIN LoadLayered(disk, roots, env, explicit)
  BY DEF LoadLayered

LEMMA FlagsOnTop ==
  ASSUME NEW below, NEW flags, DOMAIN Defaults \subseteq DOMAIN below
  PROVE  LET top == WithFlags(below, flags) IN
         /\ top.require = IF flags.interface # None THEN flags.interface ELSE below.require
         /\ top.exclude = below.exclude \cup flags.exclude
         /\ top.prefer_family = IF flags.family # None THEN flags.family
                                   ELSE below.prefer_family
         /\ top.allow_loopback = (below.allow_loopback \/ flags.allow_loopback)
  BY DEF WithFlags, Defaults

\* The flags, of what was chosen under the settings.
Obeyed(chosen) ==
    /\ Flags.interface # None => chosen.interface = Flags.interface
    /\ ~AnyNameMatches(Flags.exclude \cup Below.exclude, chosen.interface)
    /\ Flags.family # None => Admits(Flags.family, chosen.family)
    /\ chosen.scope = "loopback" => Flags.allow_loopback \/ Below.allow_loopback

\* An interface that some pattern names is among the names the selector is
\* told to leave out, so no filter lets its addresses through.
LEMMA ChosenObeys ==
  ASSUME NEW s, WellFormed(s), Below # Unreadable, Chosen(Settings, s) # None
  PROVE  Obeyed(Chosen(Settings, s))
<1> DEFINE chosen == Chosen(Settings, s)
           told == Selecting(Settings, s)
<1>1. chosen = Selected(s, told)
  BY DEF Chosen
<1>2. PICK p \in Eligible(Candidates(s, told)) :
        Wins(s, told, s.interfaces[p[1]], s.interfaces[p[1]].addresses[p[2]])
  BY <1>1, SomeAddressWins
<1> DEFINE link == s.interfaces[p[1]]
           ip == link.addresses[p[2]]
<1>3. /\ link \in ToSet(s.interfaces) /\ Admitted(s, told, link, ip)
      /\ chosen.interface = link.name /\ chosen.family = ip.family
      /\ chosen.scope = ip.scope
  BY <1>1, <1>2 DEF Wins
<1>4. DOMAIN Defaults \subseteq DOMAIN Below
  BY LayersComplete DEF Below
<1>5. /\ Settings.require = IF Flags.interface # None THEN Flags.interface ELSE Below.require
      /\ Settings.exclude = Below.exclude \cup Flags.exclude
      /\ Settings.prefer_family = IF Flags.family # None THEN Flags.family
                                  ELSE Below.prefer_family
      /\ Settings.allow_loopback = (Below.allow_loopback \/ Flags.allow_loopback)
  BY <1>4, FlagsOnTop DEF Settings
<1>6. Flags.interface # None => link.name = Flags.interface
  <2>1. told.require = Settings.require
    BY DEF Selecting
  <2> QED BY <1>3, <1>5, <2>1 DEF Admitted
<1>7. ~AnyNameMatches(Flags.exclude \cup Below.exclude, link.name)
  <2>1. told.exclude = {i.name : i \in {j \in ToSet(s.interfaces) :
                                          AnyNameMatches(Settings.exclude, j.name)}}
    BY DEF Selecting
  <2>2. ~AnyNameMatches(Settings.exclude, link.name)
    BY <1>3, <2>1 DEF Admitted
  <2> QED BY <1>5, <2>2 DEF AnyNameMatches
<1>8. Flags.family # None => Admits(Flags.family, ip.family)
  <2>1. told.prefer_family = Settings.prefer_family
    BY DEF Selecting
  <2> QED BY <1>3, <1>5, <2>1 DEF Admitted
<1>9. ip.scope = "loopback" => Flags.allow_loopback \/ Below.allow_loopback
  <2>1. told.allow_loopback = Settings.allow_loopback
    BY DEF Selecting
  <2> QED BY <1>3, <1>5, <2>1 DEF Admitted
<1> HIDE DEF chosen, link, ip
<1>10. Obeyed(chosen)
  BY <1>3, <1>6, <1>7, <1>8, <1>9 DEF Obeyed
<1> QED BY <1>10 DEF chosen

----------------------------------------------------------------------------
\* Doctor's verdict: the rows that can fail are about the network alone, and
\* what the port's row says is not among them.

Sound(s, set) ==
    "fail" \notin {NetworkInterface(s), Ipv4Address(s, set), DefaultRoute(s),
                   SelectedRow(Selected(s, set)), LanCandidate(s, set)}

LEMMA ToSetOfConcat ==
  ASSUME NEW S, NEW u \in Seq(S), NEW v \in Seq(S)
  PROVE  u \o v \in Seq(S) /\ ToSet(u \o v) = ToSet(u) \cup ToSet(v)
<1>1. /\ u \o v \in Seq(S) /\ Len(u \o v) = Len(u) + Len(v)
      /\ \A k \in 1..Len(u) : (u \o v)[k] = u[k]
      /\ \A k \in 1..Len(v) : (u \o v)[Len(u) + k] = v[k]
  OBVIOUS
<1>2. Len(u) \in Nat /\ Len(v) \in Nat
  OBVIOUS
<1>3. ASSUME NEW k \in 1..Len(u \o v)
      PROVE  (u \o v)[k] \in ToSet(u) \cup ToSet(v)
  <2>1. CASE k \in 1..Len(u)
    BY <1>1, <2>1 DEF ToSet
  <2>2. CASE k \notin 1..Len(u)
    <3>1. k - Len(u) \in 1..Len(v) /\ k = Len(u) + (k - Len(u))
      BY <1>1, <1>2, <2>2
    <3>2. (u \o v)[k] = v[k - Len(u)]
      BY <1>1, <3>1
    <3> QED BY <3>1, <3>2 DEF ToSet
  <2> QED BY <2>1, <2>2
<1>4. ASSUME NEW k \in 1..Len(u) PROVE u[k] \in ToSet(u \o v)
  <2>1. k \in 1..Len(u \o v)
    BY <1>1, <1>2
  <2> QED BY <1>1, <2>1 DEF ToSet
<1>5. ASSUME NEW k \in 1..Len(v) PROVE v[k] \in ToSet(u \o v)
  <2>1. Len(u) + k \in 1..Len(u \o v)
    BY <1>1, <1>2
  <2> QED BY <1>1, <2>1 DEF ToSet
<1>6. /\ DOMAIN (u \o v) = 1..Len(u \o v)
      /\ DOMAIN u = 1..Len(u) /\ DOMAIN v = 1..Len(v)
  BY <1>1
<1>7. ToSet(u \o v) \subseteq ToSet(u) \cup ToSet(v)
  <2> SUFFICES ASSUME NEW x \in ToSet(u \o v) PROVE x \in ToSet(u) \cup ToSet(v)
    OBVIOUS
  <2>1. PICK k \in 1..Len(u \o v) : x = (u \o v)[k]
    BY <1>6 DEF ToSet
  <2> QED BY <1>3, <2>1
<1>8. ToSet(u) \subseteq ToSet(u \o v) /\ ToSet(v) \subseteq ToSet(u \o v)
  <2>1. ASSUME NEW x \in ToSet(u) PROVE x \in ToSet(u \o v)
    BY <1>4, <1>6, <2>1 DEF ToSet
  <2>2. ASSUME NEW x \in ToSet(v) PROVE x \in ToSet(u \o v)
    BY <1>5, <1>6, <2>2 DEF ToSet
  <2> QED BY <2>1, <2>2
<1> QED BY <1>1, <1>7, <1>8

LEMMA PortIsNoFault ==
  ASSUME NEW s, s # None, NEW set, NEW probe,
         probe # None => PortRow(probe[1], probe[2]) # "fail"
  PROVE  Healthy(Checks(s, set, probe)) <=> Sound(s, set)
<1> DEFINE c1 == Checked("operating_system", "pass")
           c2 == Checked("network_interface", NetworkInterface(s))
           c3 == Checked("ipv4_address", Ipv4Address(s, set))
           c4 == Checked("default_route", DefaultRoute(s))
           c5 == Checked("selected_address", SelectedRow(Selected(s, set)))
           c6 == Checked("lan_candidate", LanCandidate(s, set))
           c7 == Checked("port", PortRow(probe[1], probe[2]))
           c8 == Checked("bind_address", "unknown")
           six == <<c1, c2, c3, c4, c5, c6>>
           port == IF probe = None THEN <<>> ELSE <<c7>>
           S == {c1, c2, c3, c4, c5, c6, c7, c8}
<1>1. Checks(s, set, probe) = six \o port \o <<c8>>
  BY DEF Checks
<1>2. six \in Seq(S) /\ port \in Seq(S) /\ <<c8>> \in Seq(S)
  OBVIOUS
<1>3. ToSet(six \o port \o <<c8>>) = ToSet(six) \cup ToSet(port) \cup ToSet(<<c8>>)
  <2> HIDE DEF six, port, S, c8
  <2>1. six \o port \in Seq(S) /\ ToSet(six \o port) = ToSet(six) \cup ToSet(port)
    BY <1>2, ToSetOfConcat
  <2>2. PICK rest : rest = <<c8>>
    OBVIOUS
  <2>3. PICK most : most = six \o port
    OBVIOUS
  <2>4. most \in Seq(S) /\ rest \in Seq(S)
    BY <1>2, <2>1, <2>2, <2>3
  <2>5. ToSet(most \o rest) = ToSet(most) \cup ToSet(rest)
    BY <2>4, ToSetOfConcat
  <2> QED BY <2>1, <2>2, <2>3, <2>5
<1>4. /\ ToSet(six) = {c1, c2, c3, c4, c5, c6} /\ ToSet(<<c8>>) = {c8}
      /\ ToSet(port) \subseteq {c7} /\ (probe = None => ToSet(port) = {})
  <2> HIDE DEF c1, c2, c3, c4, c5, c6, c7, c8
  <2> QED BY DEF ToSet
<1>5. /\ c1.status = "pass" /\ c8.status = "unknown"
      /\ c2.status = NetworkInterface(s) /\ c3.status = Ipv4Address(s, set)
      /\ c4.status = DefaultRoute(s) /\ c5.status = SelectedRow(Selected(s, set))
      /\ c6.status = LanCandidate(s, set)
      /\ c7.status = PortRow(probe[1], probe[2])
  BY DEF Checked
<1> HIDE DEF c1, c2, c3, c4, c5, c6, c7, c8, six, port
<1>6. (\E c \in ToSet(six \o port \o <<c8>>) : c.status = "fail") <=> ~Sound(s, set)
  BY <1>3, <1>4, <1>5 DEF Sound
<1> QED BY <1>1, <1>6 DEF Healthy, Verdict, Worst

\* Where something is selected, only two of those rows can fail.
LEMMA FaultsLeft ==
  ASSUME NEW s, WellFormed(s), NEW set, Selected(s, set) # None, ~Sound(s, set)
  PROVE  DefaultRoutes(s) = {} \/ NoPeer(s, Selected(s, set))
<1> DEFINE all == Candidates(s, set)
           selected == Selected(s, set)
<1>1. PICK p \in Eligible(all) :
        Pair(s, p) /\ Wins(s, set, s.interfaces[p[1]], s.interfaces[p[1]].addresses[p[2]])
  BY SomeAddressWins
<1> DEFINE link == s.interfaces[p[1]]
           ip == link.addresses[p[2]]
<1>2. /\ link \in ToSet(s.interfaces) /\ ip \in ToSet(link.addresses)
      /\ ip.family \in Families
      /\ selected.index = link.index /\ selected.kind = link.kind
      /\ selected.scope = ip.scope
  BY <1>1 DEF Wins
<1>3. all[p].address = ip
  <2>1. all[p] = Evaluate(s, set, link, ip)
    BY <1>1, CandidateAt DEF Eligible
  <2> QED BY <2>1 DEF Evaluate
<1> SUFFICES ASSUME DefaultRoutes(s) # {}, ~NoPeer(s, selected)
             PROVE  Sound(s, set)
  OBVIOUS
<1>4. /\ IsReachableByPeers(ip.scope) /\ link.kind # "loopback"
      /\ ~IsDown(link.state)
  BY <1>2 DEF NoPeer, InterfaceByIndex
<1>5. link \in UsableLinks(s)
  BY <1>2, <1>4 DEF UsableLinks, IsUsableLink
<1>6. NetworkInterface(s) = "pass"
  BY <1>5 DEF NetworkInterface
<1>7. Ipv4Address(s, set) # "fail"
  <2>1. Addressed(s, "v4") \/ Addressed(s, "v6")
    BY <1>2, <1>5 DEF Addressed, Families
  <2> QED BY <2>1 DEF Ipv4Address
<1>8. DefaultRoute(s) = "pass"
  BY DEF DefaultRoute
<1>9. SelectedRow(selected) # "fail"
  BY DEF SelectedRow
<1>10. LanCandidate(s, set) = "pass"
  BY <1>3, <1>4 DEF LanCandidate
<1> HIDE DEF selected
<1>11. SelectedRow(Selected(s, set)) # "fail"
  BY <1>9 DEF selected
<1> QED BY <1>6, <1>7, <1>8, <1>10, <1>11 DEF Sound

----------------------------------------------------------------------------
\* What is known while the commands run: the settings come from the layers and
\* the flags, the networks are well formed, the step belongs to the command,
\* and the first bind has answered once the second one is asked.

SettingsKnown ==
    /\ config \in {None, Settings}
    /\ phase \in {"snapshot", "probe"} => config = Settings /\ Below # Unreadable

NetworksKnown ==
    \A s \in {network} \cup user.networks : s # None => WellFormed(s)

StepKnown ==
    /\ phase \in {"list", "scan"} => command \in {"check", "commit"}
    /\ phase = "probe" => /\ command = "doctor" /\ out # None
                          /\ ~MissesInterface(Settings, out)

BindKnown == at \notin {"idle", "bind"} => onAddress \in {"free", "in_use", "undetermined"}

\* The exit code of a command that looks at the network s.
Verdicts(c, s) ==
    IF s = None THEN 2
    ELSE IF c \in {"interfaces", "routes"} THEN 0
    ELSE IF MissesInterface(Settings, s) THEN 2
    ELSE IF c = "doctor" THEN IF Sound(s, Selecting(Settings, s)) THEN 0 ELSE 1
    ELSE IF Chosen(Settings, s) = None THEN 1 ELSE 0

VerdictsKept ==
    \A e \in codes : e = <<e[1], e[2], e[3]>> /\ e[3] = Verdicts(e[1], e[2])

OneStory == /\ SettingsKnown /\ NetworksKnown /\ StepKnown /\ BindKnown
         /\ VerdictsKept /\ FlagsObeyed

LEMMA ExitCodes ==
  /\ ExitCode("ok") = 0
  /\ ExitCode("no_address") = 1 /\ ExitCode("unhealthy") = 1
  /\ ExitCode("platform") = 2 /\ ExitCode("config") = 2 /\ ExitCode("usage") = 2
<1>1. ExitCode("ok") = 0
  BY DEF ExitCode
<1>2. ExitCode("no_address") = 1
  BY DEF ExitCode
<1>3. ExitCode("unhealthy") = 1
  BY DEF ExitCode
<1>4. ExitCode("platform") = 2
  BY DEF ExitCode
<1>5. ExitCode("config") = 2
  BY DEF ExitCode
<1>6. ExitCode("usage") = 2
  BY DEF ExitCode
<1> QED BY <1>1, <1>2, <1>3, <1>4, <1>5, <1>6

\* What is kept by a step that tells of the network what its verdict is.
LEMMA Tellings ==
  ASSUME OneStory, NEW s, NEW result, NEW printed, Tells(s, result, printed),
         ExitCode(result) = Verdicts(command, s),
         UNCHANGED <<user, network, command, config>>, BindKnown',
         command \in {"status", "ip"} /\ ExitCode(result) = 0
            => FlagsObeyed'
  PROVE  OneStory'
<1>1. /\ phase' = "prompt" /\ code' = ExitCode(result)
      /\ codes' = codes \cup {<<command, s, ExitCode(result)>>}
  BY DEF Tells, Ends
<1>2. Settings' = Settings /\ Below' = Below /\ Flags' = Flags
  BY DEF Settings, Below, Flags
<1>3. SettingsKnown' /\ NetworksKnown' /\ StepKnown'
  BY <1>1, <1>2 DEF OneStory, SettingsKnown, NetworksKnown, StepKnown
<1>4. \A c, t : Verdicts(c, t)' = Verdicts(c, t)
  BY <1>2 DEF Verdicts, Chosen
<1>5. VerdictsKept'
  BY <1>1, <1>4 DEF OneStory, VerdictsKept
<1>6. FlagsObeyed'
  BY <1>1 DEF FlagsObeyed
<1> QED BY <1>3, <1>5, <1>6 DEF OneStory

LEMMA Printing ==
  ASSUME NEW chosen, Obeyed(chosen), UNCHANGED user,
         out'.selected = chosen, out'.port = PortOf(Settings, Flags)
  PROVE  FlagsObeyed'
<1>1. Flags' = Flags /\ Below' = Below
  BY DEF Flags, Below
<1>2. Flags.port \notin {None, 0} => PortOf(Settings, Flags) = Flags.port
  BY DEF PortOf
<1> QED BY <1>1, <1>2 DEF FlagsObeyed, Obeyed

LEMMA SnapshotTells ==
  ASSUME OneStory, Snapshot
  PROVE  OneStory'
<1>1. /\ phase = "snapshot" /\ config = Settings /\ Below # Unreadable
      /\ UNCHANGED <<user, network, command, config, project>>
  BY DEF Snapshot, OneStory, SettingsKnown
<1>2. UNCHANGED portVars => BindKnown'
  BY DEF portVars, lookup, OneStory, BindKnown
<1>3. network # None => WellFormed(network)
  BY DEF OneStory, NetworksKnown
<1>4. CASE network = None
  <2>1. PICK printed : Tells(None, "platform", printed) /\ UNCHANGED portVars
    BY <1>4 DEF Snapshot
  <2>2. ExitCode("platform") = Verdicts(command, None) /\ ExitCode("platform") # 0
    BY ExitCodes DEF Verdicts
  <2> QED BY <1>1, <1>2, <2>1, <2>2, Tellings
<1>5. CASE network # None /\ command \in {"interfaces", "routes"}
  <2>1. Tells(network, "ok", None) /\ UNCHANGED portVars
    BY <1>5 DEF Snapshot
  <2>2. ExitCode("ok") = Verdicts(command, network) /\ command \notin {"status", "ip"}
    BY <1>5, ExitCodes DEF Verdicts
  <2> QED BY <1>1, <1>2, <2>1, <2>2, Tellings
<1>6. CASE /\ network # None /\ command \in {"status", "ip", "doctor"}
           /\ MissesInterface(config, network)
  <2>1. Tells(network, "usage", None) /\ UNCHANGED portVars
    BY <1>6 DEF Snapshot
  <2>2. ExitCode("usage") = Verdicts(command, network) /\ ExitCode("usage") # 0
    BY <1>1, <1>6, ExitCodes DEF Verdicts
  <2> QED BY <1>1, <1>2, <2>1, <2>2, Tellings
<1>7. CASE /\ network # None /\ command \in {"status", "ip"}
           /\ ~MissesInterface(config, network)
  <2> DEFINE selected == Chosen(Settings, network)
             result == IF selected = None THEN "no_address" ELSE "ok"
  <2>1. PICK printed :
          /\ Tells(network, result, printed) /\ UNCHANGED portVars
          /\ printed = IF command = "status" THEN Document(config, selected)
                       ELSE IpLine(config, selected)
    BY <1>1, <1>7 DEF Snapshot, Status, Ip
  <2>2. ExitCode(result) = Verdicts(command, network)
    BY <1>1, <1>7, ExitCodes DEF Verdicts
  <2>3. ASSUME ExitCode(result) = 0 PROVE FlagsObeyed'
    <3>1. selected # None
      BY <2>3, ExitCodes
    <3>2. Obeyed(selected)
      BY <1>1, <1>3, <1>7, <3>1, ChosenObeys
    <3>3. printed.selected = selected /\ printed.port = PortOf(Settings, Flags)
      BY <1>1, <2>1, <3>1 DEF Document, IpLine
    <3>4. out' = printed
      BY <2>1 DEF Tells, Ends
    <3> HIDE DEF selected
    <3> QED BY <1>1, <3>2, <3>3, <3>4, Printing
  <2> HIDE DEF result
  <2> QED BY <1>1, <1>2, <2>1, <2>2, <2>3, Tellings
<1>8. CASE network # None /\ ~MissesInterface(config, network) /\ command = "doctor"
  <2>1. CASE DoctorEnds(network, None) /\ UNCHANGED portVars
    <3>1. PICK checks : /\ checks = Checks(network, Selecting(config, network), None)
                        /\ Tells(network, IF Healthy(checks) THEN "ok" ELSE "unhealthy",
                                 Report(checks))
      BY <2>1 DEF DoctorEnds
    <3>2. Healthy(checks) <=> Sound(network, Selecting(config, network))
      BY <1>8, <3>1, PortIsNoFault
    <3>3. ExitCode(IF Healthy(checks) THEN "ok" ELSE "unhealthy")
             = Verdicts(command, network)
      BY <1>1, <1>8, <3>2, ExitCodes DEF Verdicts
    <3> QED BY <1>1, <1>2, <1>8, <2>1, <3>1, <3>3, Tellings
  <2>2. CASE \E wanted : /\ Inspect(wanted) /\ phase' = "probe" /\ out' = network
                         /\ UNCHANGED codes
    <3>1. at' = "bind" /\ phase' = "probe" /\ out' = network /\ UNCHANGED codes
      BY <2>2 DEF Inspect
    <3>2. Settings' = Settings /\ Below' = Below
      BY <1>1 DEF Settings, Below, Flags
    <3>3. \A c, t : Verdicts(c, t)' = Verdicts(c, t)
      BY <3>2 DEF Verdicts, Chosen
    <3> QED BY <1>1, <1>8, <3>1, <3>2, <3>3 DEF OneStory, SettingsKnown, NetworksKnown,
         StepKnown, BindKnown, VerdictsKept, FlagsObeyed
  <2> QED BY <1>8, <2>1, <2>2 DEF Snapshot
<1> QED BY <1>4, <1>5, <1>6, <1>7, <1>8 DEF Snapshot

LEMMA DiagnoseTells ==
  ASSUME OneStory, Diagnose
  PROVE  OneStory'
<1> DEFINE probe == <<onAddress, onWildcard>>
<1>1. /\ phase = "probe" /\ at = "answered" /\ config = Settings
      /\ command = "doctor" /\ out # None /\ ~MissesInterface(Settings, out)
      /\ onAddress \in {"free", "in_use", "undetermined"}
      /\ at' = "idle" /\ UNCHANGED <<user, network, command, config>>
  BY DEF Diagnose, Forget, OneStory, SettingsKnown, StepKnown, BindKnown
<1>2. PICK checks : /\ checks = Checks(out, Selecting(config, out), probe)
                    /\ Tells(out, IF Healthy(checks) THEN "ok" ELSE "unhealthy",
                             Report(checks))
  BY DEF Diagnose, DoctorEnds
<1>3. PortRow(probe[1], probe[2]) # "fail"
  BY <1>1 DEF PortRow
<1>4. Healthy(checks) <=> Sound(out, Selecting(config, out))
  BY <1>1, <1>2, <1>3, PortIsNoFault
<1>5. ExitCode(IF Healthy(checks) THEN "ok" ELSE "unhealthy") = Verdicts(command, out)
  BY <1>1, <1>4, ExitCodes DEF Verdicts
<1>6. BindKnown'
  BY <1>1 DEF BindKnown
<1> QED BY <1>1, <1>2, <1>5, <1>6, Tellings

\* What no step but those two and Load needs more for.
LEMMA Unmoved ==
  ASSUME OneStory, UNCHANGED <<user, codes>>
  PROVE  /\ Settings' = Settings /\ Below' = Below
         /\ VerdictsKept'
<1>1. Settings' = Settings /\ Below' = Below
  BY DEF Settings, Below, Flags
<1>2. \A c, t : Verdicts(c, t)' = Verdicts(c, t)
  BY <1>1 DEF Verdicts, Chosen
<1> QED BY <1>1, <1>2 DEF OneStory, VerdictsKept

LEMMA LoadTells ==
  ASSUME OneStory, Load
  PROVE  OneStory'
<1>1. /\ UNCHANGED <<portVars, user, network, command, codes>>
  BY DEF Load, Ends, Goes
<1>2. Settings' = Settings /\ Below' = Below /\ VerdictsKept'
  BY <1>1, Unmoved
<1>3. NetworksKnown' /\ BindKnown'
  BY <1>1 DEF OneStory, NetworksKnown, BindKnown, portVars, lookup
<1>4. \/ config' = config /\ phase' = "prompt" /\ code' = 2
      \/ /\ config' = Settings /\ Below # Unreadable
         /\ \/ phase' = "list" /\ command \in {"check", "commit"}
            \/ phase' = "prompt" /\ code' = 2
            \/ phase' = "snapshot"
  <2>1. CASE Below = Unreadable
    BY <2>1, ExitCodes DEF Load, Ends, Below
  <2>2. CASE Below # Unreadable
    <3>1. CASE Ends("platform", None) /\ UNCHANGED config
      BY <3>1, ExitCodes DEF Ends
    <3>2. CASE config' = Settings /\ command \in {"check", "commit"} /\ Goes("list")
      BY <2>2, <3>2 DEF Goes
    <3>3. CASE config' = Settings /\ Ends("usage", None)
      BY <2>2, <3>3, ExitCodes DEF Ends
    <3>4. CASE config' = Settings /\ Goes("snapshot")
      BY <2>2, <3>4 DEF Goes
    <3> QED BY <2>2, <3>1, <3>2, <3>3, <3>4 DEF Load, Below, Settings
  <2> QED BY <2>1, <2>2
<1>5. SettingsKnown' /\ StepKnown' /\ FlagsObeyed'
  BY <1>1, <1>2, <1>4 DEF OneStory, SettingsKnown, StepKnown, FlagsObeyed
<1> QED BY <1>2, <1>3, <1>5 DEF OneStory

LEMMA PortStepTells ==
  ASSUME OneStory, PortStep, UNCHANGED cliVars
  PROVE  OneStory'
<1>1. UNCHANGED <<user, network, phase, command, config, code, out, codes>>
  BY DEF cliVars
<1>2. Settings' = Settings /\ Below' = Below /\ VerdictsKept'
  BY <1>1, Unmoved
<1>3. SettingsKnown' /\ NetworksKnown' /\ StepKnown' /\ FlagsObeyed'
  BY <1>1, <1>2 DEF OneStory, SettingsKnown, NetworksKnown, StepKnown, FlagsObeyed, Flags
<1>4. BindKnown'
  <2>1. CASE BindAddress
    BY <2>1 DEF BindAddress, Availability, BindKnown
  <2>2. CASE PortStep /\ at \notin {"idle", "bind"} /\ UNCHANGED onAddress
    BY <2>2 DEF OneStory, BindKnown
  <2> QED BY <2>1, <2>2 DEF PortStep, BindWildcard, ReadV4, ReadV6, MatchNone, MatchLinux,
       MatchWindows, Walk, CommandName, ImageName
<1> QED BY <1>2, <1>3, <1>4 DEF OneStory

\* The machine moves, its network too.
LEMMA EnvironmentTells ==
  ASSUME OneStory, Environment
  PROVE  OneStory'
<1>1. /\ UNCHANGED <<user, phase, command, config, code, out, codes, at, onAddress>>
      /\ network' \in {network} \cup user.networks
  <2>1. \E gone : Moves(gone)
    BY DEF Environment, NetworkMoves, ProcessesMove, Edit, Stage, MachineStep,
       Opens, Inherits, Starts, Exits
  <2>2. UNCHANGED <<at, onAddress>>
    BY <2>1 DEF Moves, lookup
  <2> QED BY <2>2 DEF Environment, NetworkMoves, ProcessesMove, Edit, Stage, cliVars, project
<1>2. Settings' = Settings /\ Below' = Below /\ VerdictsKept'
  BY <1>1, Unmoved
<1> QED BY <1>1, <1>2 DEF OneStory, SettingsKnown, NetworksKnown, StepKnown, BindKnown,
     FlagsObeyed, Flags

LEMMA NextTells ==
  ASSUME OneStory, [Next]_vars
  PROVE  OneStory'
<1>1. CASE UNCHANGED vars
  <2>1. UNCHANGED <<user, network, phase, command, config, code, out, codes, at, onAddress>>
    BY <1>1 DEF vars, cliVars, portVars, lookup
  <2>2. Settings' = Settings /\ Below' = Below /\ VerdictsKept'
    BY <2>1, Unmoved
  <2> QED BY <2>1, <2>2 DEF OneStory, SettingsKnown, NetworksKnown, StepKnown, BindKnown,
       FlagsObeyed, Flags
<1>2. CASE (\E c \in user.commands : Invoke(c)) \/ List \/ Scan \/ Skip \/ ScanEnds
  <2>1. /\ UNCHANGED <<user, network, codes, at, onAddress>>
        /\ \/ config' = None /\ phase' = "load"
           \/ /\ UNCHANGED <<config, command>> /\ command \in {"check", "commit"}
              /\ phase' \in {"prompt", "scan"}
    <3>1. CASE \E c \in user.commands : Invoke(c)
      BY <3>1 DEF Invoke, portVars, lookup
    <3>2. CASE List
      BY <3>2 DEF List, Goes, Ends, portVars, lookup, OneStory, StepKnown
    <3>3. CASE Scan \/ Skip
      BY <3>3 DEF Scan, Skip, portVars, lookup, OneStory, StepKnown
    <3>4. CASE ScanEnds
      BY <3>4 DEF ScanEnds, Ends, portVars, lookup, OneStory, StepKnown
    <3> QED BY <1>2, <3>1, <3>2, <3>3, <3>4
  <2>2. Settings' = Settings /\ Below' = Below /\ VerdictsKept'
    BY <2>1, Unmoved
  <2> QED BY <2>1, <2>2 DEF OneStory, SettingsKnown, NetworksKnown, StepKnown, BindKnown,
       FlagsObeyed
<1> QED BY <1>1, <1>2, LoadTells, SnapshotTells, PortStepTells, DiagnoseTells,
       EnvironmentTells DEF Next, AutoNet, Probe

LEMMA StoryBegins == Init => OneStory
<1> SUFFICES ASSUME Init PROVE OneStory
  OBVIOUS
<1>1. PICK b \in Beginnings : PortInit(b) /\ user = b.user /\ network = b.network
  BY DEF Init
<1>2. phase = "prompt" /\ config = None /\ code = None /\ codes = {} /\ command = None
  BY DEF Init
<1>3. NetworksKnown
  BY <1>1, BeginningsArePossible DEF NetworksKnown
<1>4. BindKnown
  BY <1>1 DEF PortInit, BindKnown
<1>5. FlagsObeyed
  BY <1>2, NoneIsNoNumber DEF FlagsObeyed
<1> QED BY <1>2, <1>3, <1>4, <1>5 DEF OneStory, SettingsKnown, StepKnown, VerdictsKept

(***************************************************************************)
(* An address that is printed obeys every flag, whatever the file and the  *)
(* environment say (cli.rs:455-490): for every network, every set of       *)
(* layers and patterns, and whatever ran before.                           *)
(***************************************************************************)
THEOREM FlagsAreObeyed == Spec => []FlagsObeyed
<1>1. OneStory /\ [Next]_vars => OneStory'
  BY NextTells
<1>2. OneStory => FlagsObeyed
  BY DEF OneStory
<1> QED BY StoryBegins, <1>1, <1>2, PTL DEF Spec

LEMMA OneCode ==
  ASSUME OneStory, NEW c
  PROVE  Codes(c) \subseteq {Verdicts(c, network)}
<1> SUFFICES ASSUME NEW k \in Codes(c) PROVE k = Verdicts(c, network)
  OBVIOUS
<1>1. PICK e \in codes : e = <<c, network, k>>
  BY DEF Codes
<1>2. e[3] = Verdicts(e[1], e[2]) /\ e[1] = c /\ e[2] = network /\ e[3] = k
  BY <1>1 DEF OneStory, VerdictsKept
<1> QED BY <1>2

(***************************************************************************)
(* On one network the commands tell one story (commands.rs:531-538),       *)
(* however often and in whatever order they are run, and whatever holds    *)
(* the port: for every network, its interfaces, addresses and routes.      *)
(***************************************************************************)
THEOREM CommandsAgree == Spec => []OneVerdict
<1>1. OneStory /\ [Next]_vars => OneStory'
  BY NextTells
<1>2. ASSUME OneStory PROVE OneVerdict
  <2>1. \A c : Codes(c) \subseteq {Verdicts(c, network)}
    BY <1>2, OneCode
  <2>2. \A c : Codes(c) # {} => Codes(c) = {Verdicts(c, network)}
    BY <2>1
  <2>3. \A c : Cardinality(Codes(c)) <= 1
    <3> TAKE c
    <3>1. IsFiniteSet({Verdicts(c, network)}) /\ Cardinality({Verdicts(c, network)}) = 1
      BY FS_Singleton
    <3>2. Cardinality(Codes(c)) <= Cardinality({Verdicts(c, network)})
      BY <2>1, <3>1, FS_Subset
    <3> QED BY <3>1, <3>2
  <2>4. Verdicts("status", network) = Verdicts("ip", network)
    BY DEF Verdicts
  <2>5. Verdicts("doctor", network) \in {0, 2}
           => Verdicts("ip", network) = Verdicts("doctor", network)
    <3>1. Sound(network, Selecting(Settings, network)) => Chosen(Settings, network) # None
      BY DEF Sound, SelectedRow, Chosen
    <3> QED BY <3>1 DEF Verdicts
  <2>6. ASSUME Verdicts("doctor", network) = 1, Verdicts("ip", network) = 0, config # None
        PROVE  DefaultRoutes(network) = {} \/ NoPeer(network, Chosen(config, network))
    <3>1. config = Settings
      BY <1>2, <2>6 DEF OneStory, SettingsKnown
    <3>2. network # None /\ WellFormed(network)
      BY <1>2, <2>6 DEF Verdicts, OneStory, NetworksKnown
    <3>3. ~Sound(network, Selecting(Settings, network))
      BY <2>6 DEF Verdicts
    <3>4. Selected(network, Selecting(Settings, network)) # None
      BY <2>6 DEF Verdicts, Chosen
    <3> QED BY <3>1, <3>2, <3>3, <3>4, FaultsLeft DEF Chosen
  <2> QED BY <2>2, <2>3, <2>4, <2>5, <2>6 DEF OneVerdict
<1> QED BY StoryBegins, <1>1, <1>2, PTL DEF Spec

=============================================================================
