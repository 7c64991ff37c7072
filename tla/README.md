# Specifications of the CNI plugins

TLA+ specifications of the container network plugins of this repository, model
checked with TLC, and theorems about them checked with TLAPS. Line numbers refer
to the files of the repository; `PROJECT.json` names the lines each definition models.

## 1. The system

A container runtime runs a plugin binary for one command (ADD, DEL or CHECK) and
one attachment, a container id with an interface name. The plugin reads a network
configuration on standard input, changes the host, prints a result and ends.
Nothing but the host's state outlives a command, and commands for different
attachments run at the same time: all concurrency is between processes that share
files or kernel objects.

| Component | State | Operations | Modelled in |
|---|---|---|---|
| host-local, store (`disk.rs`) | a directory: one file per address that names its attachment, `last_reserved_ip_<set>` | reserve, get_by_id, release_by_id, last_reserved_ip, new_lock | `HostLocal`, `IpText` |
| host-local, allocation (`allocator.rs`, `main.rs`) | none of its own | cmd_add: get per range set, release per set on failure | `HostLocal` |
| host-local, iterator (`allocator.rs`) | range_index, cur, start_ip | new_iter, Iter::next | `IpIter`, `RangeSets` |
| host-local, ranges (`range.rs`, `range_set.rs`) | bounds and gateway | canonicalize, contains, overlap | `IpRange` |
| host-local, configuration (`main.rs`) | list of range sets | load_ipam_config | `RangeSets` |
| bridge (`bridge`, with the crates `ip`, `ipam`, `utils`) | the kernel's: the bridge and its addresses, veth pairs, container addresses and routes, forwarding, the nat table | cmd_add | `Bridge` |
| invoke | pipes and a child process | delegate_add | `Delegation` (pipes, exit codes), `Attachment` (the child's life) |
| flannel | none; reads subnet.env | load_flannel_subnet_env, cmd_add, get_delegate_ipam | `Flannel`; its place in a chain: `Delegation` |
| static IPAM | none | prints its configuration back | `Delegation` (as a leaf) |
| cni-core | none | plugin_main chooses the handler | `Handler` in `HostLocal` and `Bridge` |

Interactions: flannel starts bridge and bridge starts an IPAM plugin (`invoke`), which
reads the configuration that flannel made;
host-local processes meet in the data directory, which does not depend on the
network's name, so all networks of a host share it by default; bridge processes meet
in the kernel. All plugins give the same function to `plugin_main` for ADD, DEL and
CHECK, so a DEL runs `cmd_add`.

### What is hard

* The flock of the store protects nothing: `let _ = self.store.new_lock()?`
  (`allocator.rs:29`, `:112`) drops the guard at the end of that statement. What
  keeps addresses apart is O_EXCL and the order of the system calls.
* A command that fails gives back *every* file of its attachment
  (`release_by_id`), so a repeated ADD threatens the addresses of the first.
* A process may die, and a write may fail, between any two system calls.
* The iterator stops only when it meets its starting address again.
* `ensure_addr` looks at the bridge's addresses and then changes them.
* `bridge` undoes nothing, exits with 0 whatever happens, and a plugin that delegates
  prints other text on the standard output its result goes to.
* A parent writes all of its child's input before it reads any output.
* Nothing ties a child's life to its parent's: a killed bridge leaves its IPAM plugin
  running, an orphan that reserves addresses while the runtime tries again.
* `delegate_add` says ADD to the child whatever the parent's own command is.
* flannel's checks of the `delegate` dictionary are the wrong way round, it unwraps the
  MTU of subnet.env even when the delegate has its own, and it leaves out an empty
  cniVersion that both plugins below it require.

`PROJECT.json` lists these as hazards, with the properties that cover them.

### What makes each component correct

* Store and allocation: an address in use stays reserved, for one attachment only; an
  answer has one address of each set; a rollback gives back all of its attachment's
  addresses; "exhausted" is said only of an exhausted set; every call ends.
* Iterator: each address once, no gateway, the one reserved last comes last, an end.
* Ranges and configuration: the configurations that make sense are accepted, and of the
  others only those with one of two faults nobody looks for; only hosts of the given
  ranges are handed out.
* Bridge: what was answered is wired and stays so; local traffic is not masqueraded;
  the gateway is on the bridge; one address per subnet.
* Delegation: no process hangs; a result stands for finished work.
* Bridge with host-local: a wired address is reserved, for the attachment that has it;
  no attachment holds two addresses of a set; every command ends.
* Flannel: an incomplete subnet.env sets up no node, a complete one does for a network
  that leaves the delegate to flannel; containers get addresses of the node's own subnet.

## 2. Modules

| Module | What it is |
|---|---|
| `IpRange` | addresses as numbers, ranges and range sets; pure operators |
| `IpIter` | the iterator as operators on its three fields |
| `IpText` | the text of an address in `last_reserved_ip_<n>` |
| `HostLocal` | processes of host-local on one data directory; EXTENDS the two above |
| `IpPool` | abstract specification: a pool whose addresses have owners and leases |
| `HostLocalInv` | the inductive invariants `TypeInv`, `LeaseInv`, `OwnInv` and `ScanInv` |
| `RangeSets` | load_ipam_config on every small configuration, then a scan of one of its sets by the iterator from every start |
| `Flannel` | what flannel makes of subnet.env and its configuration; EXTENDS `RangeSets`, which goes on with what it made |
| `Bridge` | processes of bridge on one host |
| `Attachment` | `Bridge` and `HostLocal` composed: a bridge process and the host-local process it starts |
| `Delegation` | a chain of plugins connected by pipes |
| `IpIterProofs` | the iterator stays in its ranges and comes by every address; what overlap finds |
| `HostLocalProofs` | types and leases of `HostLocal`; it implements `IpPool` |
| `AnswerProofs` | what an ADD answers; no duplicates, complete rollbacks, true exhaustion |
| `AttachmentProofs` | the composition implements both of its parts; what is wired is reserved |
| `BridgeProofs`, `HostSideProofs` | what `Bridge` answered stays wired; its nat chains and its gateways |
| `FlannelProofs` | the verdicts and the scans of `RangeSets` and `Flannel` |
| `DelegationProofs` | types and results of `Delegation` |
| `MC*` | constants of the model-checked instances |

Definitions called "mutated form" in the modules are variants of the definition that
follows them with a plausible bug. Every property is checked to fail with one of them.

### HostLocal

A step is one system call, or local computation up to the next one, so every
interleaving of system calls is explored. `files[x]` is the file of address `x`:
`NoFile`, `Blank` (created but not written) or the attachment it names. `lease[a]`
is what the runtime uses: set when an ADD answers, emptied when a DEL ends in any
way. The labels in `pc` follow `cmd_add`:
`lock unlock read_dir get_by_id last_reserved_ip next exists create_new write_id
write_last`, per range set, then `reply`; after a failure `lock unlock read_dir
release_by_id remove_file` per set already served, then `exit`. `Crash` may strike
at any label, `WriteFails` at the two writes. Creating and writing
`last_reserved_ip_<n>` is one step: a new empty file reads like no file at all.
`read_dir` yields the entries there were when it began.

`SerialRuntime` is the rule of the CNI specification that a runtime does not run two
commands for one attachment at a time. The code does not enforce it; all runs of
`HostLocal` assume it, and the theorems that need it name it as a hypothesis. In
`Attachment` it means that the runtime also waits for orphans, which it cannot see, and
the run `orphan` shows what happens when it does not.

### IpPool and the refinement

`IpPool` says what a runtime may rely on: an address is taken only while free, given
back only by an attachment that uses none, an answer is made of addresses that are
the attachment's own, and a reservation whose maker died half-way is stranded.
`HostLocal` implements it with `owner` mapped to the file's content, except that a
file is its creator's already between `create_new` and `write_id` (`Owner`). A step
of HostLocal that changes neither is a stutter of the pool.

### RangeSets

A configuration is read, made canonical and compared in the code's order; one of the
sets that were accepted is then scanned, from any remembered address, until the
iterator gives up. A subnet is a block whose size is a power of two, so never three, and
which ends where the address space does at the latest (`Blocks`, `GivenAssumption`).

`Acceptable` and `Meant` say what a configuration means without the code's order and
cases, as sets of addresses; `VerdictIsExact` and `ScanIsExact` compare the two. By the
comments of the fields (`range.rs:12-29`) a range makes sense (`Sensible`) when its bounds
are in its subnet and in order (`Bounded`, and start before end) and its gateway is in the
subnet. canonicalize looks for all of that but two things (`Overlooked`): a given gateway
is never compared with the subnet, and a range_start that is the broadcast address passes
when range_end is left out, which puts the start past the end that the code fills in
(`Inverted`). `VerdictIsExact` names these two and admits no third, for every
configuration; that they contradict `ensures that all information is consistent`
(`range.rs:44`) is the run `consistent`. No two ranges may overlap (`Apart`); of an
inverted range the code compares the two bounds, the only addresses it names (`Named`).

A gateway from elsewhere does not disturb a scan, and `ScanIsExact` covers it. From an
inverted range the iterator leaves the subnet, since it never meets range_end, up to a
panic past the last address there is: `ScanIsExact` and `LastComesLast` are about sets in
order (`InOrder`), in a configuration whose other sets may be anything.

### Bridge

A step is one netlink, sysctl or iptables operation. `bridge` is the link that bears
the bridge's name (at first absent, or present and no bridge), `br_addrs` its
addresses, in whatever order the kernel lists them, `netns[a]` the container's namespace with both ends
of its veth, `chain` and `post` the nat table. The runtime may run any command for any
attachment at any time, but one at a time for each, and removes and makes namespaces
while no command runs in them. It relies on an attachment from the answer of an ADD to
the call of DEL; since all commands run `cmd_add`, a process needs to know only whether
its own is an ADD (`adding`). An IPAM plugin answers with a member of
`Answers` or fails. `Fault` fails, or kills, a command before any operation.
Abstracted: MTU, MAC addresses, VLAN settings, DNS, random veth names, routes'
metrics, the secondary addresses the kernel may delete with a primary one, two
interfaces of one container (they would share a chain).

External behaviour assumed: netlink refuses an address, a link or a chain that exists;
`append_unique` of the iptables crate fails on a rule that exists; the kernel refuses
a route through a gateway of another family.

### Attachment

`Attachment` extends `HostLocal` and has `Bridge` as the instance `B`, whose `pc` and `att`
are `bpc` and `batt`. Slot `p` of `HostLocal` is the child of slot `p` of `Bridge`:
`Answers`, which `Bridge` leaves open, is what the child answers, and the runtime, which `HostLocal` leaves open,
is the bridge process (`Delegate`). The parent waits (`Awaited`) until its child's output
ends: with an answer, a failure or a death. A parent that is killed leaves its child
(`BridgeFault`); the orphan goes on to its end, where one with an answer panics on the
broken pipe (`Panic`). The child always gets ADD, so of `HostLocal` only that command
is taken; of the runtime's commands CHECK is left out, since it differs from DEL only in
what the runtime relies on meanwhile.

`MaxFaults` bounds how many kernel operations fail and processes are killed on either
side. `SerialRuntime` says whether the runtime waits for an orphan of an attachment before
it tries again; a runtime sees the process it started only, so the code cannot count
on it. A slot whose child lives on is not used. A write of the store does not fail here
(`IoErrors`); the runs of `HostLocal` cover that.

The runtime takes bridge's result although other text precedes it (`delegation_flannel`
shows what that does), and the configurations have no switches and no routes: those of
bridge are the subject of its own runs, and none of them touches the store.
`BridgeSpec` says that the composition is a behaviour of `Bridge` with the `Answers` of
`ProperAnswers`: what `Bridge` assumes of its IPAM plugin is what host-local provides.

### Flannel

A JSON object is a function from its keys, an Option a value or `None`, and a text that does
not parse is `Bad`. `ReadLine` reads one line of subnet.env; `CheckDelegate` and `Merge`
are the two halves of cmd_add; `Delegate` hands the configuration to bridge and its IPAM
plugin, and `RangeSets` goes on with the ranges in it.
`FlannelAssumption` says what a line of subnet.env can hold, a subnet that parses being a
block and a value that parses not the absent one, and that bridge is the delegate and
host-local its IPAM plugin, the ones in the repository: a `type` that is given as a text is
one of these two. subnet.env is the file that `subnet_file` of the configuration names; the
path of the configuration itself is hard-coded, with the standard input commented out
(`flannel-plugin/src/main.rs:139-141`), so that one configuration serves every call.
The names `insert` and `or_insert` of Rust's HashMap are `Insert` and `OrInsert`; the
argument of the latter is evaluated also when the key is there (`Unwraps`).

### Delegation

One plugin of each kind in a row. A configuration is `ConfSize` chunks, a result a
head and a tail, a pipe holds `Cap` chunks. A process may be killed at any point; its
pipes are closed then, and its child goes on. A plugin that fails ends with its own exit
code, which for bridge is 0, or panics (`WorkFails`).

## 3. Runs

| Run | Instance | Shows |
|---|---|---|
| `store` | 2 processes, the attachments of 2 networks, of one set and of two, that share two addresses; texts of base 3 | `TypeInv`, `LeaseInv`, `LeaseBacked`, `OneAddressPerSet`, `LeaseExclusive`, `ExhaustedMeansTaken`, `ReleaseIsComplete`, refinement of `IpPool` |
| `range_sets` | one to three ranges over 12 addresses, 19037 configurations; every subnet.env of up to four lines out of nine, and every delegate dictionary over the six fields flannel looks at | `VerdictIsExact`, `ScanIsExact`, `LastComesLast`, `ScanEnds`, `FlannelVerdict`, `NodeSubnetOnly` |
| `bridge` | 2 processes; a network that forces its IPv6 gateway beside a dual-stack one that masquerades and does not force | `TypeOK`, `AnsweredIsWired`, `LocalNotMasqueraded`, `GatewayKept` |
| `attachment` | 2 slots, 2 networks that share a range set, two faults anywhere | `WiredIsReserved`, `NoDuplicateAllocation`, `BridgeSpec` |
| `attachment_live` | 2 slots, 2 networks that compete for one address, fair, nobody killed | `EveryCommandEnds` |
| `delegation` | flannel, bridge, IPAM; pipes of one chunk | `ChainTypeOK`, `ResultMeansWorked`, `EveryPluginEnds` |

Bounds. Two processes are enough for the races between system calls, since the code
never looks at more than one other process's file in a step. In `store` the only set
of one network holds an address of each set of the other, one of which has no more: pools
run out, an address is fought over at the first step of one command and the last of the
other, a command whose second set is taken rolls back (`GiveBack` of `IpPool`) while the
other process goes on, and the iterator wraps round from one range into the next.
Addresses are written in base 3, so that texts differ in length and what is read back from
`last_reserved_ip_0` may be another address than was written; in the other runs base 10
gives one character for each address. In `range_sets` the first range has every bound over
eight addresses in five subnets, one of them not written by its first address and one
without hosts; four lines of subnet.env are enough for the three keys a node needs, in any
order, with one of them repeated or unreadable. In `Bridge` IPv4 has the addresses 0 to 7
and IPv6 8 to 15; blocks of four and eight give subnets that differ, overlap or end where
IPv4 ends. In `attachment` the second set of one network is all the
other one has, so that its address is fought over at the first step of one command and
the last of the other; two faults let a command leave an orphan and its retry die too,
on either side. Pipes of one chunk with messages of two and three make
every read and write block at some time.

Symmetry is over process slots only, in runs without liveness properties.
CHECK_DEADLOCK is off where the modelled activity ends: a scan, a chain of plugins.

Fairness. `Attachment!FairSpec`: a process that is not killed goes on (weak fairness of
a bridge's step and of a child's), and flock grants a lock that is free again and again
(strong fairness of `NewLock`, since other children may take it in between).
`RangeSets` and `Flannel`: weak fairness, one process. `Delegation`: weak
fairness of each process, as for any scheduler; it says nothing of being killed.

### Runs that find what the code does not do

| Run | Quoted | What happens |
|---|---|---|
| `crash` | disk.rs:11-12 | death between creating and writing leaves a file that names nobody |
| `consistent` | range.rs:44 | a range whose start lies past its end, and one whose gateway is outside of its subnet, are accepted |
| `orphan` | allocator.rs:65 | the child of a killed bridge and that of the retry both allocate |
| `bridge_race` | bridge main.rs:132-135 | two IPv4 addresses on the bridge |
| `flannel_delegate` | flannel main.rs:49 | a delegate with a name passes, one without is refused |
| `delegation_flannel` | README.md:28 | flannel cannot parse what bridge prints |

Behaviour that the models show and no run states:

* `last_reserved_ip` is written without truncation (`disk.rs:72`), so the end of a longer
  text stays behind a shorter one. `ExhaustedMeansTaken` holds all the same.
* An address that another process takes between `exists` and `create_new` ends the ADD
  with an error instead of the next candidate (`disk.rs:57-60`).
* DEL and CHECK of host-local, and those of bridge through it, reserve addresses
  (`ipam-host-local/src/main.rs:27`, `invoke/src/lib.rs:63`).
* The iterator leaves an inverted range for addresses outside of the subnet.
* With `is_default_gw` any default route of the answer counts, whatever its family, and
  the one that is added is always IPv4 (`bridge/src/main.rs:183-205`): a dual-stack
  container has no IPv6 default route, and one with IPv6 only fails, as the kernel refuses
  the route.
* accept_ra is set to 1 under a comment that says `we want to own the routes`
  (`bridge/src/main.rs:354`).
* `append_unique` fails on a rule that exists (`ip_masq.rs:49`): the second address of a
  family, and the next ADD of a container id after its DEL, fail.
* flannel panics on a subnet.env without an MTU even if the delegate has one, and bridge
  refuses what flannel makes of a configuration with an empty cniVersion
  (`flannel-plugin/src/main.rs:67`, `:74`). `FlannelVerdict` asks for neither.

## 4. What is proved

For any number of processes, attachments and addresses.

### HostLocal

From the assumptions named in the module (`SentinelAssumption`, `SwitchAssumption`,
`ConfAssumption`, `DisjointAssumption`) and in the modules it extends. The last two are
what load_ipam_config guarantees of ranges that are not inverted: bounds of which the
start and the end lie in the range, and no two sets of one configuration that share an
address.

* `TypeCorrect`: `Spec => []TypeInv`. Beside the types, each process's local state has
  the shape its label implies: `InItsRange`, that the iterator stands in a range of its
  set, is what makes every `unwrap` of an address safe. It rests on `NewIterInItsRange`
  and `NextIterInItsRange` of `IpIterProofs`, which need the assumption that a range's
  start and end lie in it (`UsableSet`); load_ipam_config guarantees it but for inverted
  ranges.
* `LeasesSafe`: `SerialRuntime => (Spec => []LeaseInv)`.
* `LeasesBacked`, `LeasesExclusive`: `LeaseBacked` and `LeaseExclusive` of the runs.
* `TypesKept`: the type invariant `TypeOK`, a conjunct of `TypeInv`.
* `NoDuplicates`, `RollbackIsComplete`: `NoDuplicateAllocation` and `ReleaseIsComplete`, with
  a serial runtime.
* `AnswersComplete`, `ExhaustedIsTaken`: `OneAddressPerSet` and `ExhaustedMeansTaken`, with
  any runtime.
* `ImplementsPool`: `SerialRuntime => (Spec => PoolSpec)`.

The argument for `LeaseInv`. `LeaseBacked` alone is not inductive: a rollback removes
every file of its attachment, also those in use. What saves them is that a process
whose attachment has a lease never gets that far: its `get_by_id` will find the
attachment's file of the first range set, since the file was there when `read_dir`
began and nobody removes it (`LeaseStopsGet`, with `LeaseInFirstSet`), and a failure at
the first set rolls nothing back. That needs the runtime's promise
(`OneProcPerAtt`), that a file between creation and writing has one writer
(`OneWriterPerFile`, `FileOfStep`), and that addresses a process has gathered are its
own (`ReservedIsBacked`). `LeaseExclusive` follows from `LeaseBacked`: a file names
one attachment. The lock has no part in it.

`ImplementsPool`: with a serial runtime every step is one of `IpPool` or
a stutter. The owner of an address is the writer that has just created its file, if
there is one, and otherwise what the file says. So `create_new` is the pool's Take, and
`write_id` changes the file and the writer but not the owner (`WriteIdStutters`); a writer
that dies or fails between the two strands the address (`StoppedWriterStrands`);
`remove_file` of a rollback gives back an address of an attachment without a lease, by
`LeaseInv` (`RemoveGivesBack`); the end of a command grants or drops a lease
(`EndedGrantsOrDrops`). All other steps change neither owners nor leases (`SameOwner`).

`AnswersComplete` (`AnswerProofs`), which needs no serial runtime: an ADD's addresses grow
by one set at a time (`Reserves`, `Gathers`, `Answers`), each address the iterator offers
is an allocatable one of the current set (`NextIsAllocatable`), and no two sets of an
attachment share one (`DisjointSets`). That rests on `OverlapIsShared` (`IpIterProofs`): the four
comparisons of `Range::overlap` find exactly the ranges that share an address.

`NoDuplicates` and `RollbackIsComplete` share the invariant `OwnInv`. `read_dir` and what is
done with its entries are separate steps, and others create and remove files in between;
but nobody else creates a file of this attachment (`OneProcPerAtt`), so a process has seen,
or has still to see, every file its attachment owns (`SeesAll`). Past the check for
duplicates the attachment therefore has no file of the current range set but the one being
written (`SetIsFresh`), and `remove_file` leaves none behind. `Owned` counts a file only
once it names its attachment, which is why a file created by a process that died is no
counterexample here, but one to `EveryFileNamesItsOwner` of the run `crash`.

`ExhaustedIsTaken` needs to know what an iterator has come by, without induction over its
steps. `Passed` says so in closed form, from the range and address where it stands and those
where it set out: the ranges in between, around the end of the list, and parts of the first
and the current one. One step of the iterator adds exactly the address it moves to
(`PassesOne`), and an iterator that is back where it began has come by every address of its
set (`PassedAll`). `ScanInv` says that each address it came by was found taken or is a
gateway. That no two ranges of a set share an address (`UsableSet`) is needed: an iterator
that meets its starting address in another range would stop early.

### Delegation

`DelegationTypes` and `ResultsSafe` (`DelegationProofs`), for chains of any length and
configurations and pipes of any size. A parent that reads the end of a result must know
that everything below it is done, though exit codes say nothing of failure. The
invariant `ResultInv` says where the end of a result can be: on a pipe, in a parent's
buffer, or still to be printed, and that it is there only when the plugin it comes from
and all below it have worked (`TailMeansWorked`). It stays true because a plugin prints
only after it worked, works at most once, and no child is started twice (`ControlInv`).

### Bridge

From `BridgeAssumption`. `AnsweredStaysWired` (`BridgeProofs`): `AnsweredIsWired` says
nothing of commands under way, so the invariant `WireInv` adds what each of them has made
so far: the bridge (`BridgeFound`), the interface (`InterfaceMade`), and the addresses and
routes of its result up to its position in the list (`ResultSet`). No step of a process
takes anything from a namespace or from the bridge (`NsGrows`, `BridgeGrows`), which keeps
what the others have made; at `Reply` the whole of the result is set. The runtime
removes a namespace only when no process is in it, and makes one only where there is
none, which no process has entered yet (`NewNamespace`, with `VethIsInside`).

`LocalNeverMasqueraded` (`HostSideProofs`): chains only grow (`ChainsGrow`), so the rules a
process has appended before it sends packets to the chain (`RulesMade`) are still there,
in their order, when it does; a process that finds a chain left by one that died appends
its own accept rule first or fails on a rule that exists.

`GatewaysStay` (`HostSideProofs`): an address leaves the bridge only when a network that
forces its own takes it for an obstacle, which makes it `Threatened`; all others stay
(`HostKeeps`), although a process deletes what it saw in a list that is old by then.
`GatewayInv` adds to `GatewayKept` that a process has handed over the gateways before its
position (`GatewaysMade`) and that all it saw on the bridge is still there or threatened, so
that it may rely on an address it has seen. `BridgeTypes` follows: whatever is on the
bridge is a gateway of some answer, which IPAM gave or calc_gateway made up
(`GatewaysAreBlocks`).

### Attachment

From the assumptions of both parts.

* `ChildrenAreHostLocal`: `AttachmentSpec => Spec`. The host-local processes of the
  composition, orphans included, behave as `HostLocal` says, so all of its theorems hold
  here; `NoDuplicatesOfChildren` is one of them.
* `ImplementsBridge`: `AttachmentSpec => BridgeSpec`, with any runtime. An answer of a child
  is one address of every set, by `AnswerInv`, which the child gathered for the very
  attachment that its parent works on (`PairInv`).
* `WiredAreReserved`: `SerialRuntime => (AttachmentSpec => []WiredIsReserved)`. A bridge
  process puts nothing into a namespace but addresses of its result (`Worked`), and for
  those the child's runtime has a lease from the step in which the answer is heard
  (`Leased`). Since `delegate_add` never says DEL, and a child whose attachment has a lease
  ends without an answer (`LeaseStopsGet`), the lease stays; and what is leased is reserved
  (`LeaseInv`).

### Ranges, configuration and flannel

From `GivenAssumption`, `FlannelAssumption` and `MaxAddrAssumption`, for lists and sets of
any length, blocks of any size and files of any number of lines. `FlannelProofs` proves each
property of `Flannel` and `RangeSets` but liveness:

* `VerdictExact`, without a precondition: the comparisons of canonicalize accept a range
  exactly if it makes sense or has one of the two faults in `Overlooked`
  (`AcceptedIsPassable`), what it makes of it is what was meant (`CanonicalIsMeant`), and
  comparing canonical ranges in pairs finds what overlaps (`OverlapIsMeant`, inverted ranges
  included), across sets as well as within them. `ConfigInv` relates the list under way,
  half of it canonical, to the one in the file.
* `ScanExact`, `LastIsOfferedLast`: `ScanInv` says that the addresses offered are those the
  iterator came by, each once, and where it set out (`FromLast`); the closed form of the
  iterator's way (`Passed`) is that of `ExhaustedIsTaken`. An accepted set that is in
  order is usable (`AcceptedIsUsable`), whatever the other sets are, so what load_ipam_config guarantees is what the
  theorems of `HostLocal` assume.
* `NodeIsAccepted`, `NodeHasItsSubnet`: `FlannelInv` relates subnet_env to the lines read so
  far, of which the last one of each key counts (`ReadTo`, `EnvIs`), then the delegate's
  configuration to the dictionary and to subnet_env (`DelegateIs`). When flannel is done, a
  configuration reached host-local exactly if one was `Wanted`, and it holds the one range of
  the node (`NodeSets`), to which `ConfigInv` and `ScanInv` apply. `NodeVerdict` has the
  exact condition, the code's checks of the dictionary included; `FlannelVerdict` is the part
  of it that does not depend on those, since the messages beside them ask for the opposite
  (run `flannel_delegate`).

### Only model checked

* Liveness (`EveryCommandEnds`, `ScanEnds`, `EveryPluginEnds`), which the prover cannot reach.
* The runs that find what the code does not do: a counterexample is one behaviour.

Every invariant and every refinement of a passing run is stated by a theorem. The recursion
that would have stood in the way is avoided, not assumed away: a file is read line by line
and a set scanned address by address, as steps of a specification whose invariant has a
closed form.

## 5. Not modelled

JSON and environment parsing, logging, the search of CNI_PATH, result formatting; IPv6
in host-local, which is `todo!()` there; an explicitly requested address
(`allocator.rs:33-59`), since `cmd_add` never requests one; the libraries netlink-ng and
netns-ng, which are not in the repository; delegates of flannel other than bridge; the
static IPAM plugin beyond its place in a chain, since it copies its configuration to its
result; cni-core's types and errors, which are formats. That a failed ADD of bridge leaves what it
made, which makes a retry fail, is behaviour of the model but no property: nothing in
the repository promises otherwise.

## 6. Plan

1. Done: `IpRange`, `IpIter`, `IpText`, `HostLocal` with `IpPool`, `RangeSets`, `Bridge`,
   `Delegation`, and the invariants and theorems of `HostLocal`.
2. Done: `Flannel`, up to the verdict of the plugins below it.
3. Done: `Attachment`, bridge and host-local composed, with orphans and retries.
4. Done: theorems of the refinement of `IpPool`, of an ADD's answer, of `Delegation`, and
   of what `Bridge` keeps wired and does not masquerade.
5. Done: theorems of duplicates, rollbacks and exhaustion, of the gateways, of the
   composition `Attachment`, and of the verdicts and scans of `RangeSets` and `Flannel`.
6. Open: `ImplementsBridge` makes the theorems of `Bridge` hold of the composition, as
   `ChildrenAreHostLocal` does those of `HostLocal`, but the prover cannot cite a theorem
   through an instance; stating `AnsweredIsWired` there needs a proof in the variables of
   `Attachment`.
