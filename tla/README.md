# AutoNet in TLA+

AutoNet finds the one address of a machine that other devices should use, says
it in several ways (a line, a state file, an mDNS name, files in a project),
and keeps saying it while the network moves.  These modules model that program:
what it computes from one look at the machine, how it notices that the machine
has moved, and what happens to the consumers of the answer when threads,
signals, failing system calls and a moving network interleave.

Paths below are relative to `src/`, the repository.

## 1. The system

| Component | State it keeps | Operations | Talks to |
|---|---|---|---|
| Snapshot model (`autonet-core/src/model.rs`) | none; a value | default routes, gateways, metrics of a link | selector, differ |
| Selection (`select.rs`) | none; pure | disqualify, score, order, take the first | every command |
| Change detection (`event.rs`) | none; pure | `diff`, `affects_selection` | observation loop |
| Linux backend (`autonet-platform/src/linux`) | a netlink socket | three dumps, joined by index; a monitor that only says "look again" | kernel |
| macOS, Windows backends | none | system calls, decoded | kernel |
| Observation loop (`autonet-cli/src/watch.rs`) | event source, last snapshot, last accepted answer | subscribe, snapshot, compare, call back, wait | backends, selector, differ; the callback of each command |
| `run` (`spawn.rs`, `state.rs`, `signal.rs`) | child, tracker thread, state file, termination flag | launch, wait, pass the code on, write, remove | loop, file system, child |
| `dev` (`dev.rs`, `outputs.rs`) | primary and background children, generated files | start all, keep files current, stop all | loop, project plan, file system |
| `advertise` (`advertise.rs`) | what is on the wire | register, withdraw | loop, mDNS daemon |
| Project plan (`project.rs`, `generate.rs`, `autodetect.rs`) | none; pure | detect, plan, refuse, render | `dev`, `init` |
| `init` (`init.rs`, `scaffold.rs`, `outputs.rs`) | manifest, `.gitignore`, pre-commit hook, address files | plan, check ownership, compute every change, apply | project plan, selector, file system, git |
| Configuration (`config.rs`) | none | defaults, file, environment, flags in layers | every command |
| Scanner (`ipscan.rs`, `check.rs`) | none; pure | find literal addresses | `check`, `dev` |
| Ports (`port.rs`, `portmatch.rs`, `linux/procnet.rs`, `linux/portowner.rs`) | none | probe, match the table of listeners | `run`, `dev`, `doctor` |
| Doctor (`doctor.rs`) | none | probes, verdicts, an exit code | everything |
| Classification (`classify.rs`, `linktype.rs`, `wintype.rs`, `servicerank.rs`) | none; tables | scope of an address, kind of a link, rank of a service | backends |
| Command line and rendering (`main.rs`, `cli.rs`, `commands.rs`, `render.rs`, `qr.rs`, `url.rs`) | none | parse, dispatch, print | user |

Most of the code is pure.  What is hard is in five places.

* **One look is not atomic.**  A snapshot is three dumps on Linux, three calls
  on Windows and seven on macOS, joined by index, LUID or name.  The machine may
  move between them, so a snapshot may describe a machine that never existed.
  The lookup of a port is two binds, two tables and a walk over the processes.
* **Each system tells the same thing in its own words.**  A bridge, a tunnel, a
  default route or a favourite among several look different to each of the
  three kernels, and the selector must not notice.
* **Two comparisons stand between a change and its report.**  The differ's gate
  (`affects_selection`) is a list kept by hand beside a selector that reads
  more of the snapshot than the list mentions; `differs` compares less than the
  consumers keep.  And the last snapshot is replaced before either is asked.
* **Several threads share a flag and a file.**  In `run` the main thread, the
  tracker, the signal handler's thread, the child and the user share the
  termination flag and the state file; the flag means "the user wants out" to
  one of them and "the child has ended" to another.
* **Everything can fail half way**: a dump, the event source, a write between
  truncating and renaming, a removal, a spawn, a wait.

What makes each component correct:

* *Selection*: the order of importance the documentation states survives every
  sum of the fifteen weights; the answer is a function of the machine and not
  of the order it was enumerated in.
* *Change detection*: a change it lets pass cannot move the answer.
* *Loop*: a consumer that is told nothing more has the answer of the machine as
  it is; it is told only what moved; failures cost latency and nothing else; a
  signal ends it.
* *run*: a reader never sees half a file, a file that is there is right, none
  is left behind; the exit code is the child's; the program ends.
* *dev*: the files agree with the loop, no child outlives AutoNet, no child is
  stopped for a reason other than the end of the session.
* *advertise*: what is on the wire is the last thing told, and nothing after
  the end.
* *Project plan*: a server AutoNet says it started where it said listens there;
  what it cannot be sure of it refuses.
* *init*: a refusal changes nothing, what is said to be set up is, nothing the
  developer wrote is lost, a second run finds nothing to do, and `dev` makes the
  same plan of what was written.
* *Backends*: what a snapshot says was so at some moment while it was taken, and
  what was so all the time is in it, with the kind, the index and the rank every
  system agrees on; a snapshot ends.
* *Configuration*: what is printed obeys every layer that should win.
* *Ports*: a process that is named held the port, and its name is the holder's,
  while the holder lives; on a machine at rest the one in the way is found, as
  far as the account may see.
* *Scanner*: what a hook has read and lets through has no address in it.
* *Doctor and the other commands*: on one network they tell one story.

The hazards, line by line, with the property that would notice each, are listed
in `PROJECT.json`.

## 2. The modules

| Module | Models | Kind |
|---|---|---|
| `Option` | Rust's `Option`: one value `None` outside every other set | shared |
| `Filter` | `Iterator::filter`: the elements at some positions, in order (external) | shared |
| `Network` | the questions asked of a snapshot | operators |
| `Select` | filters, weights, order, the winner | operators |
| `Event` | `diff` and `affects_selection` | operators |
| `Netlink` | how the three dumps become a snapshot | operators |
| `Machine` | a machine reconfigured step by step, and what `Select` and `Event` make of it | state machine |
| `AnswerFeed` | the abstract promise of the loop to its consumer | abstract specification |
| `Watch` | `watch::observe` and `wait`, with the event source | state machine |
| `Run` | `run`, `track`, `wait_for`, `StateFile`, the flag; contains a `Watch` as its tracker | composition |
| `Dev` | `dev`: files, primary, services, `stop_all`; a consumer of `AnswerFeed` | composition |
| `Advertise` | `advertise`: the callback, the way out, the responder's queue; a consumer of `AnswerFeed` | composition |
| `Plan` | from a project's files and its manifest to how it is run, or why not | operators |
| `Frameworks` | where a framework started that way listens (external) | reference |
| `Setup` | `init` run again and again, by a developer who changes things between | state machine |
| `Config` | layers of settings, name patterns, flags | operators |
| `Doctor` | the rows of the checklist and their verdict | operators |
| `Scanner` | literal addresses in a text, and what exempts them | operators |
| `Ports` | `port::inspect` and the platforms' lookups, against processes that come and go | state machine |
| `Commands` | `status`, `ip`, `interfaces`, `routes`, `doctor`, `check` and the commit hook, one after the other | composition |
| `LinkKinds` | from what each system says of a link to its kind | operators |
| `RouteDump` | `rtparse.rs`: a BSD routing dump, message by message and word by word | operators |
| `Darwin` | how the macOS backend joins links, addresses, services and routes | operators |
| `WinTables` | how the Windows backend joins adapters, interface rows and routes | operators |
| `Kernels` | what the three kernels report of one and the same machine (external) | reference |
| `Backends` | a snapshot, call by call, on each system, while the machine moves | state machine |
| `SelectProofs` | what the selector does with any snapshot: a score is the sum of its parts, the sort has a first element, the reason for no answer knows no positions; what a filter keeps | proofs |
| `MachineProofs`, `WatchProofs`, `RunProofs`, `DevProofs`, `AdvertiseProofs`, `CommandsProofs`, `SetupProofs` | theorems about `Machine` (the weights, the order, the gate) and `Backends`, `Watch`, `Run`, `Dev`, `Advertise`, `Commands` and `Setup` | proofs |
| `MCMachine`, `MCWatch`, `MCRun`, `MCDev`, `MCAdvertise`, `MCSetup`, `MCCommands`, `MCBackends` | values of the constants for TLC | model checking |

```
 Option, Filter <- Network <- Select ---+
                           <- Event ----+--> Machine --> MCMachine
                           <- Netlink --+
                                         \
         AnswerFeed <-(refines)- Watch ---+--> MCWatch
            |                      ^
            |                      +-(INSTANCE, pc <- tracker)- Run --> MCRun
            |
            +--(EXTENDS)- Dev --> MCDev
            +--(EXTENDS)- Advertise --> MCAdvertise

 Select <- SelectProofs <- MachineProofs, CommandsProofs, SetupProofs

 Option, Filter <- Plan <- Frameworks <- Setup --> MCSetup

 Select <- Doctor ---+
          Config ----+--> Commands --> MCCommands
          Scanner ---+
          Ports -----+

 Network <- RouteDump <- Darwin <- Kernels ---+
 LinkKinds <-----------/                      +--> Backends --> MCBackends
 Network, LinkKinds <- WinTables -------------+
 Network <- Netlink --------------------------+

 Backends <- MachineProofs
```

### Selection and change detection

`Network`, `Select`, `Event` and `Netlink` are translations of pure functions;
they take whole snapshots.  A snapshot is what the code's `NetworkState` is: a
sequence of interfaces with their sequences of addresses, and a sequence of
routes, in the order the kernel gave them.  IP addresses are numbers in the
order of `IpAddr`; the scope of an address and the kind of a link are inputs
here (`LinkKinds` has the kinds).  `Iterator::min_by_key` is `FirstLeast`: the first
of the least elements, because that *first* is where the order of enumeration
can leak into the answer.  Routes, addresses and candidates are told by their
positions in the enumeration (a candidate by the link's and the address's), so
that two equal rows stay two; `Precedes` is the stable sort, `FirstSorted` its
first element.

`Machine` supplies the inputs: links appear, change state and go, addresses and
routes come and go.  The kernel's side is external, and follows the kernel: a
link that goes takes its rows with it, one address family per row, bounded rows
per link.  Every state of `Machine` is a machine the program can be run on, and
every step a change the loop may have to notice.

### The observation loop

`Watch` is `observe` with its `pc`:

| `pc` | Code (`watch.rs`) |
|---|---|
| `subscribe` | the flag is installed and the event source opened |
| `links`, `addresses`, `routes` | inside `snapshot()`, before each of the three dumps |
| `compare` | the snapshot is complete: first report, or diff, gate, `differs` |
| `deliver` | inside the callback |
| `wait`, `settle`, `woken` | inside `wait`; within the monitor's settle window (`linux/monitor.rs`); after both, before the flag is read |
| `stopped`, `failed` | `observe` has returned `Ok` or an error |

`Resolve`, `Answer`, `Affects` and `Requested` are constants, so the loop can
be checked over the real selector and differ (`MCWatch` does that) and proved
about for any.  `blind` is the one history variable: it says that the loop has
been robbed of a message (a buffer overflow, or a snapshot that failed after
its message was consumed), which is when only the backstop can help.

`AnswerFeed` is what a consumer may rely on; `Feed` in `Watch` is the mapping:
`truth` is the answer of the machine as it is, `told` the answer last handed to
the callback.

### run and its state file

`Run` instantiates `Watch` with `pc <- tracker`: the tracker's steps *are* the
loop's steps, with a file as the callback.  `main` is the main thread:
`resolve, install, create, write, spawn, wait, reap, read, raise, join, remove,
exit` name the statements of `run` in order; `over` is an exit AutoNet chose,
`dead` one it did not (SIGKILL, or a signal before the handler is installed).
`writing` is how far a `StateFile::write` has come (`open`, `fill`, `rename`,
or `discard` after a failed update), whoever of the two threads called it.
`target` and `temporary` are what a reader finds under the two paths: nothing,
a document, or `Torn`.

### dev and advertise

Both are consumers of the loop and rest on `AnswerFeed`, the promise `Watch`
keeps, instead of containing a `Watch`: their variables `truth`, `told`, `phase`
are the loop as the consumer sees it, `Tell` a call of the callback, `Taken` its
return, `End` the return of `observe`.

`Dev`'s `main` names the statements of `dev`, `run_primary` and
`run_background_only` in order: `plan, check, write, install, start, spawn,
wait, read, raise, join, exit`, with `observe` for a plan that runs nothing and
`ask, grace` inside `stop_all`, which is called from four places and returns to
`then`.  `child` is each command's process, `tree` the processes it started;
`watched` is the vector of background children, from which `report_finished`
takes the ended ones.  `pending` are the outputs the current pass has left.
`spoiled` is history: outputs whose last write failed, or that someone edited.

`Advertise`'s `at` names the callback's branches and the statements of the way
out.  `queue` and `wire` are the responder's: commands on their way, and the
address other devices are given.  `lost` is history: what may excuse a record
left behind.

### The commands that look once

`Commands` is `main::run` over and over: `prompt`, then `load` (the layers of
`Config`), then `snapshot`, and for `doctor` with a port `probe`, in which the
steps are those of `Ports`; `list` and `scan` are `check`'s.  The network, the
processes and the files move between any two steps, and a user stages and
edits while the hook of a commit reads.  `codes`, `slipped`, `seen`, `ended` and
`calm` are history: what each command said of each network; which files were
staged anew under the hook or not shown to it (`Skip` is a `git show` that
fails); who listened on the port since the probe began, by number and name;
which numbers were given up since the first table that names processes was
read; and whether the machine has moved since the probe began.

`Ports`' `at` names the steps of `inspect` and of what it calls: `bind,
bind_wildcard`, the two tables, `match`, `walk` over `/proc` one process at a
time, `name`.  Which overlapping binds a kernel refuses, who may read
`/proc/<pid>/fd`, and the numbers the kernel gives to sockets and processes are
external.  A pid may be given to another process at any moment; a socket's inode
is not used twice within an inspection, since the kernel counts them up.
A process keeps its name.  `by` in a socket is the name of the process that opened
it, `None` once that process has ended: Windows' table keeps showing its number.

`Scanner` sees a line as the tokens that could be an address, each with the
classes of the characters around it: what the scanner's look-around tells apart.
`Config` sees a file or a variable as the layer it parses to, or `Garbled`.

### The backends

`Kernels` is external: from one `scene` - links, addresses, routes, services, and
how large the tables are - it makes what macOS, Windows and Linux return for each
call.  `Backends` takes a snapshot with one action per system call, named by `pc`;
`scene` may be exchanged between any two, and `been` is the history of those the
snapshot lived through.  A call in `box.hidden` does not answer.  What a backend
does with what it got is in `RouteDump` and `Darwin`, `WinTables` and `Netlink`.
Adapters, interface rows and links come as sets or under their names, since the
code sorts them or looks them up, whatever order they are in; addresses and
routes keep the order they came in.

Two assumptions say what is external.  A scene is `Plausible`: addresses and
routes are on links it has, numbers are in their ranges, a route to one host has
a prefix.  The scenes of one snapshot are `Systematic` together: macOS and
Linux number every link, Linux gives no index to another name and Windows no
LUID to another adapter while the snapshot lasts; on Windows an IPv4 route is on
an adapter with an IPv4 index; on macOS duplicates are of IPv6, and an address
keeps its family and scope.

A third, `Unmistakable`, is no assumption of the model but the hypothesis of the
theorem that nothing is lost: no two things of a scene look alike to the system
that lists them, and none is too much for it.  Every link has a name of its own,
and is bound an address once; a table with rows has a size; on macOS no index
comes twice and no more than ten services are ranked, as `servicerank.rs` has a
metric of its own for ten ranks and one for all others; on Windows the metrics of
a route and of its adapter add up without saturating; on Linux a name does not
speak against its link (no wired link is called like a tunnel or a container's).
TLC evaluates it on every machine of `backends` (`BoxesAreUnmistakable`).

A routing dump is words of four bytes: a message claims slots, each slot's
sockaddr has a length, and the next begins at the next word.  A sockaddr of length
zero, one cut off by its message, and a message that lies of its own length are all
met.  Addresses with a scope embedded in them (KAME) are numbers above every other.

### Project plans and init

`Plan` is `project.rs`: facts and a manifest go in, a plan or a refusal comes
out.  Words of scripts are strings and tokens are words with what follows their
`=`; nothing is taken apart letter by letter.  `Frameworks` is the other side,
and none of it is AutoNet's: the arguments and the environment a framework ends
up with and the ports and hosts its server may then listen on, all of them
where a flag is given twice.

`Setup` is `init.rs`, with its `pc`: `plan` (facts, manifest, plan), `own`
(`check_ownership`), `collect` (every change computed), `snapshot` (the
address), `apply` (the plain writes, then the address files), `idle` between
runs.  `disk` holds what AutoNet writes; `facts`, `git` and `answer` are the
project, its repository and the network, and change between runs.  Between the
hook and the next change is `mode`, where it becomes `disk.executable`; `half` is
history and says that a run died in writing it, or before its mode was set.  Texts are
sequences of the lines that tell them apart: `.gitignore` its patterns and a
line of the developer's, the hook its shebang, the block and theirs.  A plain
write truncates before it fills, so one that does not end leaves a prefix: of a
manifest nothing that parses, or a part that does, half a port included.
Address files are renamed into place.

## 3. What the runs check

Runs that pass:

| Run | Question | Answer |
|---|---|---|
| `weights` | Do the weights keep the documented order of importance against every sum of the others? | `WeightsKeepOrder` (a routed link wins, a VPN yields, a preferred link wins) holds on every machine of two links of any kind and state with every extreme of scope, family, metric and gateway, under four configurations: the default, a preferred link, IPv4 with VPNs allowed, IPv6 |
| `lan` | Does the answer depend on the order of enumeration; can one change move it and pass the gate? | Neither, the reason given for no answer included, and the answer is an address of the machine, on a wired, wireless and container network whose default routes have distinct metrics |
| `watch_lan` | Is the consumer right when the loop rests, told only what moved, told eventually, and does Ctrl-C end it? | `QuietMeansTold`, `FeedSafe`, `CatchesUp`, `StopsWhenInterrupted` hold with torn dumps, lost messages, a lost source and failing snapshots |
| `run` | Is the file whole, right and gone at the end; is the exit code the child's; does `run` end? | Yes, with every failure the model has, at every step; it ends once its child has, and once it is told to, unless the child cannot be killed |
| `dev` | Do the files follow the loop; is every command stopped, and only for a reason; is the exit code honest; does the session end? | Yes, for sessions with a primary, with services alone and with files alone |
| `advertise` | Is the wire what was told; is the record withdrawn on every way out; is Ctrl-C heeded; does a stale record go? | Yes, short of a refused command, a wait that ran out or a failed report |
| `init` | Does a server listen where the plan says; is a project set up when `init` says so, whatever was there and whatever went wrong before; is the developer's work kept; does a second run, and `dev`, agree? | Yes, for scripts that do not set a framework's own variables, short of a write that did not end and of a hook whose run died before it was made executable (section 6); a script that fixes port 0 is the one project whose second `init` and `dev` are refused (section 6) |
| `commands` | Did a named process hold the port, under the number and the name it is given, and is it found where it can be; do the commands tell one story; do flags win; is what a hook lets through clean? | Yes, with processes that exit, fork and take over numbers between the steps, machines that move between commands, settings in every layer, and files staged and edited under the hook; apart from the name of a process that ended while it was looked up, and from files staged anew under the hook or not shown to it (section 6) |
| `backends` | Is all of a snapshot true of some moment of it, and all that lasted in it; do the three systems agree; does it end? | `NothingInvented`, `NothingLost`, `SnapshotEnds` hold with a machine that is docked, undocked, renumbered and put on a tunnel between any two calls, and with sources that do not answer |

Runs that find the code and what is said of it apart (section 6):
`watch_tunnel`, `run_spawn`, `init_port`.

### Bounds, and why they are enough

* `Machine`: two links are what a comparison of weights needs, three what a
  fallback past the second needs.  `MaxAddresses` and `MaxRoutes` (one or two)
  limit the rows of one link; two is where an order begins to exist.  The
  metrics are the extremes and the values NetworkManager assigns.
* `Watch`: `MaxChanges` limits how often the machine moves, in each of the
  three tables, at any moment; two changes can fall into one pass of the loop,
  on both sides of a dump, and undo each other.  `MaxFailures` limits failing
  snapshots; one failure in any pass meets every other event.
* `Run`: one signal (a second one sets a flag that is set), one child, one
  ordinary code 256, the smallest that a byte turns into another, and the 1 a killed
  child reports on Windows (the theorem has every code); one interface whose address goes and comes back, one failure.
* `Commands`: two processes, three sockets and three moves: an exit, a process
  under the same number and a socket of its own, anywhere in an inspection.  The
  places a socket may be bound to include one that does not listen and one at
  another port; in one beginning on Windows, the process that opened it has ended.
  One move of the network between commands.  Settings: each layer with values the
  others contradict.  Files: one of each kind and place; five edits or stagings of
  one of them, or three of two, under any number of commits.
* `Backends`: four scenes, in any order and without end, so that every pair of
  scenes falls on every pair of calls; one scene with a link of every nature.
  `bulk` is set so that tables outgrow what was measured, and every attempt fails.
* `Dev`: one output, one service, one primary: the least with which a start
  can fail while another command runs, and with which the two calls of
  `stop_all` differ.  Two addresses and none: a move, a loss, and a return to
  what the files still say.  Exit codes 0 and 3.
* `Advertise`: `QueueSize` 2 is the least that holds a registration and the
  withdrawal behind it; full and closed queues are both met.  `MaxMoves` limits
  the moves of the network.
* `Setup`: every framework with each of its programs, port and host arguments
  absent, right and wrong, in both spellings and orders, an environment before
  them or none, npm (which needs `--`) and pnpm (which stands for the others),
  once; three projects - flags to add, a fixed port, two address files - in 120
  repositories each with two `chances`: an edit, a clone, a file put in the
  way, a failing write, a kill or a move of the network.  Two is a crash and
  then an edit, or two crashes.  Runs of `init` themselves are not limited.

`CHECK_DEADLOCK FALSE` appears where the program ends and the bounded machine
has made its changes; `Machine` never stops and is checked for deadlock.

### Fairness, and why the code justifies it

The threads are scheduled: `Watch` has `WF(Progress)` - the loop's next step
when nothing goes wrong, callbacks return and timeouts expire - and `Run` has
weak fairness for the main thread, the file operations, the tracker and the
handler's thread.  No failure is ever owed, nor any step of the machine, the
child or the user: they may stop for ever.

A wait for the primary that fails (`Dev!WaitFails`, as in `Run`) is an action
of its own outside the fairness, so that a session that ends does so because
somebody ends it.

`Dev` and `Advertise` assume of the loop what `Watch` is checked to provide.
`Dev` has strong fairness for `Returns("ok")`: the loop reads the flag between
any two reports, so it cannot report for ever and not notice
(`Watch!StopsWhenInterrupted`).  `Advertise` has `CatchesUp`, the promise of
`AnswerFeed`, as a conjunct of its specification (checked of `Watch` by
`watch_lan`).  The responder, the commands and the user owe nothing.

`Backends` has `WF(Proceed)`: system calls return, with an answer or an error.
The machine may move for ever.  `Watch` also has `WF(Deadline)`: a quarter of a
second passes, however many messages arrive (`Announce` has no bound).

`CatchesUp` is conditional, as it must be: *once the machine rests* the
consumer ends up knowing its answer or the loop has ended.

## 4. What is proved

By TLAPS, for every set of tables, every pure function and every bound:

* `WatchProofs!TypeCorrect`, `Accurate`, `ImplementsFeed`.
  `Accurate` says `GateSound => (Spec => []QuietMeansTold)`: what the loop
  needs of the differ, and cannot check, is a hypothesis of the theorem.
  The property alone is not inductive.  The strengthening says what a pass of
  the loop knows at each `pc`: unless a message is queued or was lost, each
  table already dumped is the machine's, and after the comparison the accepted
  answer is that of the last snapshot.  The gate's soundness is used once, in
  the step where a snapshot is let pass.
* `MachineProofs!WeightsDecide`, in every reachable state, for any number of links, addresses and routes,
  any metrics and any configuration.  What cannot decide between two
  candidates - scope, gateway, temporary, metric - is worth between -320 and
  125; the bonus for a family is the same for both, because a preferred family
  excludes the other (`FamilyCancels`).  So an ordinary link with a route of
  its own has 830 points or more, against at most 775 without one and 825 for a
  tunnel with one, and a preferred link 1380, against at most 1375.  The fifty
  and the five points between are all there is.
* `MachineProofs!OrderForgotten`: two enumerations of one machine, with links,
  addresses and routes in different orders, are given the same selection,
  score and gateway included, wherever no two default routes of one link and
  family cost the same.  Without that the gateway may differ (section 6).
* `MachineProofs!OrderNeverMatters`: the same of the snapshots that the Linux
  backend collects, in every reachable state and for every order of the two
  dumps, with the reason that is given where nothing is selected, and with the
  winner one of the machine's addresses.  The inductive invariant is small
  (`MachineOK`: what is there are options, finitely many of them, which gives
  the dumps a length).  The work is in what a filter keeps of a dump
  (`PickedKeeps`: each position at one place, which is a fact about ranks in a
  finite set), in what every enumeration shows (`Taken`), and in the bijection
  between the candidates of two enumerations (`CandidatesMove`): it keeps the
  number of those that give each reason, the first of them in the sort, and so
  the reason that comes last among the most common (`ReasonMoves`).  Two things
  are asked of the state: an address is bound to a link once (`BoundOnce`),
  and no two default routes of one link and family at one metric lead to
  different gateways (`CostsDiffer`).  `OrderForgottenForEver` asks them of the
  options instead, and has `OrderIndependent` in every state.
* `MachineProofs!GateHolds`: when the gate *is* sound.  Between two snapshots
  that no event affecting selection separates, address and interface stay, if
  the configuration admits one default route, before and after, if an eligible
  address of an ordinary link owns it, and if no interface is preferred.  The
  route's metric and gateway, the indices of links and all other links may
  change as long as no event tells.  `watch_tunnel` is what a second route does.
* `MachineProofs!GateNeverLies`: `GateSound` itself, of every step of a machine
  on which at every moment no two links share a name, no address is bound twice
  to a link and each family has one default route at most - with any links,
  whatever they become, any preference and any configuration, and with an
  uplink that may move from link to link.  A link that comes with addresses is
  reported by them (`NothingNew`).  A step leaves every link its kind and its
  name, and only adds routes or only takes some away (`OneStep`), so that with
  one uplink the link it leaves by, which is all an event tells of it, tells
  the route with its metric and gateway (`SameUplinks`).  What nothing is
  reported of is therefore `Equivalent` in the sense of `OrderForgotten`: the
  same links, where they have addresses, and the same default routes.
* These rest on the sort having a first element (`SortedFirst`), which
  follows from the library's well-foundedness of `<`, five keys one after the
  other.  They are about snapshots that are `WellFormed` - positions, indices,
  addresses and metrics are naturals, families are the two - and so is every
  snapshot that is collected of a machine (`TakenIsWellFormed`).
* `RunProofs!NeverHalfWritten`: only the temporary is ever torn, and what is
  renamed is whole, because the two threads that write never do so at once.
* `RunProofs!NothingLeftBehind`: the removal comes after the join, and after
  the join nobody writes.
* `RunProofs!ExitCodeHonest`: what `ReadFlag` saw was a signal, because the
  main thread raises the flag only after it has read it.
* `RunProofs!FileFollows`, given a sound gate: a file that rests with nothing
  outstanding has the machine's answer.  Every step of the tracker is a step of
  `Watch`, so `WatchProofs` is instantiated with `pc <- tracker` and what it
  knows of a pass of the loop is known here; what is added says that the file
  has the answer handed over last or is gone, and that a tracker that ended was
  told to or took the file with it (`Follows`).
* `RunProofs!TypeCorrect`.
* `DevProofs!NothingOutlives`, for any number of services.  A service that
  runs is always on the list `stop_all` is given (`ServicesKept`), the list
  keeps it until its process is gone, and a primary runs only where it is
  waited for, about to be stopped, or where waiting failed (`PrimaryKept`).
* `DevProofs!StopsForAReason` and `StatusHonest`: the flag is read before the
  main thread raises it, so that what was read was a signal (`FlagTrue`), and
  the status that is reported is the one that was waited for (`CodeFinal`).
* `DevProofs!FilesFollow`, for any set of outputs: each output that was neither
  spoiled nor is still to come holds the values the writer is at, so that a
  report which changes nothing may write nothing, and a loss, which keeps the
  last values, only turns `online` off.
* `AdvertiseProofs!FollowsTheLoop` and `NothingLeftOnTheWire`, for every size
  of the responder's queue.  The responder is behind, so neither says anything
  of the moment a command is sent; the strengthening says what the wire will
  give once the queue is carried out (`EndsIn`: its last command, or the wire
  where it is empty), what each branch of the callback and each step of the
  way out knows of that (`CallbackKnows`, `WayOutKnows`), and that Stop is
  never anything but the last command (`StopLast`).
* `CommandsProofs!NamesHolders`, for any number of processes and sockets and
  all moves between two steps of an inspection.  What is named at the end was
  read from two tables at two moments; the strengthening says what each step
  knows: who listened on the port since the probe began is in `seen`; a row in hand
  is still its socket's row, or the socket is gone, because the kernel does not
  use the inode again meanwhile; and the wildcard bind is the widest question,
  so that whatever collides with it holds the port.  The name is read after the
  number was found, by the number alone: `NumberKnown` says that a number in hand
  is one of `seen`, and that unless it was given up since (`ended`) whoever has it
  now is the process that listened, whose name is therefore read.
* `CommandsProofs!CommitsAreClean`, for any project: what the hook has read so
  far and let pass is what is staged, unless it was staged anew or Git would not
  show it (`HookKnows`).
* `CommandsProofs!TypeCorrect`: the commands with the layers of their settings,
  and the inspection they make.
* `CommandsProofs!HoldersFoundAtRest`, of every table in which each socket is
  open in some process and in none of another account (`Owned`; a socket of the
  kernel's own, or one that was passed on, may be settled on first and has no
  process to name, so that without it the property is false).  While nothing
  moves, what each step found is still so: the tables are the sockets as they
  are, the row in hand is one that refused the bind, and the processes the walk
  has left behind do not hold it (`Inspection`, `Walked`).
* `CommandsProofs!FlagsAreObeyed`: each setting has the value of the topmost
  layer that mentions it, so that a flag's is in the configuration the selector
  is given, and what is selected passed every filter of that configuration
  (`ChosenObeys`).
* `CommandsProofs!CommandsAgree`: what is remembered of each command is what it
  would say of that network and these settings now (`OneStory`); `status` and
  `ip` ask the selector, `doctor` looks at links and addresses itself, and the
  theorem says that on a well-formed network the two come to the same.
* `MachineProofs!SnapshotsInventNothing`, for any scenes, any sources that do
  not answer and any moves between two calls: `NothingInvented` is a conjunct of
  the inductive invariant `AsItWas`, which TLC found to hold on the scenes of
  `backends` first.  `Situated` says that the present scene is among those
  the snapshot lived through; those only become more, so that what was
  rightly shown stays right (`ShownStays`).  `Gathered` says what each `pc` knows
  of what was gathered so far: on macOS that each link is one of some scene, with
  addresses of some scene, if not of the same (`LinksNamed`, `ShownOne`); on Windows
  that the adapters are those of one scene; on Linux that a link is under the
  index it had (`LinksAt`) and a row is one of a dump (`RowTold`).  The joins come
  after, and a join by index is right because an index is not given away.  The
  routing dump of BSD is read as the kernel wrote it, word by word: the walk
  over the slots ends behind every sockaddr that was put there (`SlotsWalk`,
  `BlockRead`), a mask cut to its last non-zero byte has the length of its prefix
  (`MaskReads`), an embedded scope comes off (`EmbeddedStrips`), and so a message
  is its route again (`MessageRead`, `DumpRead`).
* `MachineProofs!SnapshotsLoseNothing`, for any scenes that are `Unmistakable`
  and any moves between two calls: every link, usable address and route that was
  there all the time is in the snapshot, each link once, with the kind of its
  nature; of a machine at rest whose calls answer there is a snapshot, and the
  default route found in it is one the system prefers (`NothingLost`).  The
  property looks at finished snapshots only, so the invariant adds to `AsItWas`
  what one in progress is made of.  `Made` says there is a scene for each call,
  among those lived through, such that what is gathered is what the code makes of
  those scenes: a finished snapshot is a function of up to seven scenes
  (`MacSnapshot`, `WinSnapshot`, `LinuxSnapshot`).  `Enough` says that a machine
  which has not changed since the first call has a table no larger than the buffer
  sized for it, so that no attempt is wasted.  The rest is about the functions: what
  is the same in all scenes has one entry in each of the tables, and the join
  finds it (`MacLinksKept`, `MacAddressesKept`, `LinuxInterfacesKept`,
  `WinInterfacesKept`, `ToldKept`, `WinRoutesKept`); every message of a dump is a
  route (`TableKeeps`); a list picked from distinct names is as long as the names
  are many (`NamedOnce`); and where metrics order the default routes as the
  system's own costs do, the least metric is a least cost (`FavouriteFound`), which
  `Faithful` says of route metrics on Linux, of sums on Windows and of the rank of a
  link's first service on macOS (`LinuxFavourite`, `WinFavourite`, `MacFavourite`).
* `SetupProofs!RefusalIsFree`, for any project: until it applies, `init` only
  reads, and once it applies nothing refuses.
* `SetupProofs!SaysSetUp`, `InitIsIdempotent`, `InitMakesDev`, for any project,
  any contents of the files, any number of runs, crashes, clones and edits
  between them.  They rest on one inductive invariant, `Kept`, in six parts: the
  disk has files of the right kind (`Typed`); the plan in hand is the one made of
  the manifest the run found, and that manifest is still there, or the one
  written of this plan (`Planned`); what is still to change is exactly what
  `init` would change if it looked now (`Pending`), which is why nothing is left
  to change at the end; no output is the developer's (`Ours`); each output is
  written or still to be (`Written`); a check in the hook is whole, and the hook
  executable or about to be made so, unless a run died of writing it
  (`HookWhole`).  The rest is about plans: the manifest `init` writes
  is valid and gives the same plan again (`WrittenDown`), whichever way the port was
  come by, as a port that a plan has is one its script, its framework or the
  caller accepts; port 0 is the exception, and the hypothesis (section 6).
* `SetupProofs!ListensAsPlanned`, for any project none of whose scripts
  contradicts itself (`Coherent`): where a script gives its program ports they
  are numbers and all the same, so are its hosts, and no assignment before the
  program names a variable AutoNet sets.  Of the plan in hand `Planned` says which
  project and manifest it was made of; the rest is about words.  What a parser
  is given is what the script says and what AutoNet appends
  (`GivenInWords`, `SaidByEither`); the host flags are stripped from what is
  appended exactly where the script has one (`StrippedTo`, `Passed`), so that
  no flag is given twice with two values (`TellsWhere`); and a port that is
  neither in the script nor among the flags is in the environment
  (`FlaggedListens`, `UnflaggedListens`).  TLC evaluates the hypothesis on the
  projects of `init`; `init_port` is a project outside it (section 6).
* `SetupProofs!TheirsIsKept`, an action property: whatever `init` puts into
  `.gitignore` or into a hook, there is a place for every old line, in the old
  order; a manifest that is there stays; the files it writes are its own.
* `DevProofs!TypeCorrect`, `AdvertiseProofs!TypeCorrect`.

The assumptions are those the modules name: the bounds are naturals and the
queue holds a command, `None`, `Absent` and `Torn` are no document, `Stop` no
answer, the primary no service, codes are integers; for `Run`, the bounds of
the loop are naturals and `None` is no snapshot; for `Commands`, `None` is no
process and no number, and what the environment may do is what `Ports` says a
kernel does, from the beginning on, on networks as the backends make them
(`WhatMayHappen`, `BeginningsArePossible`); for the selector, `None` is no family
and no reason (`NoneIsNoWord`); for `Machine`, indices, addresses and metrics are
naturals, families are the two and no route is `None` (`OptionsAreTyped`); for `Backends`,
scenes are plausible and systematic as section 2 says (`ScenesArePlausible`,
`BoxesAreSystematic`), `None` is no address, prefix or family (`NoneIsNoData`),
and the names that may come are listed (`NamesAreListed`); in
`SnapshotsLoseNothing`, two hypotheses besides: `Unmistaken`, that every machine
is `Unmistakable`, and `Marked`, that the marks for no answer and for a failed
snapshot are neither records nor functions, truth values or words for a kind, as
model values are not; for `Setup`, a project starts with files it can
have, where its outputs have a place on the disk and a check in the hook is
`init`'s (`SituationsArePossible`), the marks for no file and no value are not
what a file says (`MarksAreNoData`), the words `init` writes are strings, its
numbers are ports and no port begins with a dash (`LiteralsAreTexts`,
`NumbersArePorts`, `PortTextsAreTexts`), which TLC sees and the provers do not.

Only model-checked: liveness (`CatchesUp`, `StopsWhenInterrupted`,
`EndsWithChild`, `EndsOnSignal`, `SessionEnds`, `LeavesWhenInterrupted`,
`WireCatchesUp`, `SnapshotEnds`), which is out of the prover's reach.
`GateSound` is not true of every network (section 6): with one uplink for each
family it is proved (`GateNeverLies`), and on the network of `lan`, whose links
have routes of their own at metrics that differ, it is checked.

## 5. What is left out

* `run`: the environment of the child and the warning about its port (output
  only); what the file held before (it is `Absent` at first - an older one is
  replaced by the first rename); the directory entry's durability across a
  power cut, which the code does not promise; two AutoNet processes on one
  path (`Run` alone has 720 000 states; the temporaries of two never meet, as
  each carries its process id, but the first to exit removes the file of both).
* `run` resolves its launch address from a snapshot of its own.  Nothing ties
  it to the tracker's first one but the machine, so any snapshot may come of
  it: that is more than the machine can produce, and safe for what is checked.
* The loop: what `watch` prints; the retry of the `poll` interval, whose length
  matters to no property.
* `dev`: what its commands find in their environment, what it prints, how a
  program is looked up, Windows' `taskkill`, and a command AutoNet may not
  kill, which would hold it as it holds `run`.  The observer is the promise of
  the loop, so what it costs when the gate lets a change pass is in
  `watch_tunnel` and not repeated here.
* `advertise`: what `mdns-sd` does with a command; it is a queue and a thread.
* `Config`: a configuration root that is white space and not empty, which the code
  takes for a directory (`config.rs:273-279`).
* A flag of a script whose value is the next word, where that word has a `=` of its
  own, has that word without what follows (`project.rs:470-475`).
* Project plans: reading the facts from disk, the rendering of address files,
  the notes.  The plan `dev` makes is not composed with `Dev`, whose plan is any.
* `init`: a developer or a `dev` that writes while it runs; it takes no lock
  and nothing is said of that.
* `Commands`: `clap`, TOML and numbers in words (a layer is a record or
  `Garbled`), the rendering of tables, documents and QR codes, advice and wording.
* `Scanner`: the recognition of addresses letter by letter (`ipscan.rs` finds a
  run of characters and asks `IpAddr::parse`); a token is one or is not.
* `Ports`: the text of `/proc/net/tcp`, with its bytes in the order of the
  machine, and Windows' table of fixed-size rows.
* Backends: netlink attributes, sysfs, CoreFoundation and the raw layout of
  foreign structures; the scope of an address (`classify.rs:7-86`), a table of
  prefixes that is right or wrong line by line; names of links on Linux are the
  prefixes `classify.rs` looks for.  On macOS the flags of all addresses are asked
  for in one step (`ifaddrs.rs:254-261` has a call for each).  In `Watch` the routes
  of the two families are one dump (`netlink.rs:240-244` makes two; `Backends`
  has both).  Routes without an interface, and those without a destination and
  with a prefix, which `netlink.rs:305-314` drops, are not sent.  A table that grows faster than it is read
  for ever is not: each attempt may fail, and there are only so many.

## 6. Where the code and its documents part

Each is a run with a counterexample; `PROJECT.json` quotes the line.

* **The gate is not sound** (`watch_tunnel`).  The differ reports a change of
  *the best* default route; the selector gives 1000 points to *any* default
  route of a link.  With a VPN holding the best one, the wireless link can lose
  or gain its own without an event.  Because the last snapshot is replaced
  before the gate is asked, the consumer is then wrong until something else
  happens, the backstop notwithstanding.
* **A failed spawn leaves the state file** (`run_spawn`).
* **A script that sets `PORT` itself** (`init_port`) is taken for a plain one:
  `PORT=4000 react-scripts start` listens on 4000 while the plan says 3000,
  because leading assignments are dropped and never looked at again.

Also met while modelling, without a run of their own:

* The kept document goes stale when only the gateway moves: consumers keep a
  whole document (`state.rs`) and `differs` compares address and interface
  (`watch.rs:278`).
* An ended wrapper's descendants are not stopped: `stop_all` asks only children
  whose own process still runs, and `report_finished` has forgotten the others
  (`dev.rs:317-329`).
* An interface that appears between macOS' two lists becomes an orphan with
  neither kind nor state, where a comment expects that never to happen
  (`macos/ifaddrs.rs`); `NothingInvented` allows it, as `unknown`.
* A Windows route whose adapter was not in the list keeps the index of its own
  family, "merely unscored" (`winroute.rs:58-62`) unless that is another
  adapter's IPv4 index.
* The hook asks for `--diff-filter=ACMR`: a file that becomes another type
  (`T`) is committed unread.
* A malformed configuration makes the hook exit with 2 and stops every commit:
  settings are loaded before anything else, for `check` too.
* `--port 0` hides the file's `default_port` and then counts as none.
* A tie among the default routes of one link is broken by the kernel's order,
  and with it the gateway of the selection and its +25 (`model.rs:572`), though
  "The answer never depends on the order the kernel happened to enumerate
  things." (`README.md:726-727`); the network of `lan` has no such tie.
* A script that fixes `--port 0` makes `init` write `port = 0` and say "Set up.
  Run `autonet dev`."; `dev` and the next `init` refuse that manifest
  (`project.rs:74`, `scaffold.rs:123-127`).  `Unreadably` names the case in
  `TwiceChangesNothing` and `InitThenDev`, and in their theorems.
* `init --dry-run` lists every address file as one it would write, also those
  that are current and that a real run leaves alone (`init.rs:119-123`, against
  `init.rs:4-5`).
* On Windows the tables list listeners only: a port refused because of a socket
  that is bound and does not listen may be laid to a listener on all addresses
  that is not in the way (`windows/tcptable.rs`).
* A hook cut off in the middle of AutoNet's block counts as installed from then
  on (`scaffold.rs:56`).
* So does a whole one whose run was killed, or whose `chmod` failed, before it was
  made executable (`init.rs:175-177`): the next `init` says "already set up" and
  Git does not run it.  `SetUp` leaves both out (`half`).
* A process is looked up by the inode of its socket, and its name then by its number
  (`linux/portowner.rs:56-57`): one that ends in between may leave its number to
  another, whose name is told.  On Windows the number is the opener's and stays in
  the table when that process has ended and another holds the socket.  `HolderHeld`
  leaves the name out where the number was given up meanwhile.
* A staged file that Git lists and then fails to show is skipped, and the commit goes
  through (`check.rs:114-116`).
* A preferred container or virtual link gets +2000 and -800 and can lose to a
  routed ordinary one, though the weight is "Large enough to dominate every
  other rule" (`select.rs:47-48`); `PreferredLinkWins`, a part of
  `WeightsKeepOrder`, is stated of the other links.
* The metric penalty reaches 100 points and categories are 50 apart: a wired
  link at metric 700 loses to a wireless one at 100 (`select.rs:50-52`).
* After a signal and a grace period `run` kills its child
  (`docs/adr/0001-network-change-during-autonet-run.md:183-184` says it never
  does), also one that did receive the signal (`spawn.rs:292-293` says it did
  not).
* During that grace period the tracker has ended and the state file is still
  there (`README.md:475` says it exists only while it is kept accurate).

## 7. Plan

Done: the pure core, the loop with its abstract specification and its settle
window, `run` with its file, `dev` and `advertise` over that specification,
project plans with `init`, the three backends, ports and the commands that look
once, and the theorems of section 4.  In order of importance, next:

1. `SharedFile`: two `Run`s on one path.
2. `generate.rs`: address files as text, with the escapes of each language.
3. The environment `run` and `dev` hand to their commands, over `program.rs`.
4. Proofs: soundness of the gate where a family has several default routes on
   links that no metric can make exchange places.
