----------------------------- MODULE HostLocal -----------------------------
(***************************************************************************)
(* The host-local IPAM plugin: any number of plugin processes, each one    *)
(* invocation of the binary by a container runtime, that share a store     *)
(* directory with one file per reserved address (main.rs, allocator.rs,    *)
(* disk.rs).                                                               *)
(*                                                                         *)
(* A step is one system call on the store, or local computation up to the  *)
(* next one, so processes interleave between any two system calls.  The    *)
(* flock of the store is taken and dropped at once: `let _ = new_lock()?'  *)
(* binds nothing, so the FileLock is dropped at the end of that statement. *)
(*                                                                         *)
(* An attachment is a (container id, interface name) pair, the content of  *)
(* an address file.  Conf[a] is the list of range sets, already accepted   *)
(* by load_ipam_config, that the runtime passes for attachment a;          *)
(* attachments of different networks share the store because the data      *)
(* directory does not depend on the network's name.                        *)
(***************************************************************************)
EXTENDS IpIter, IpText

CONSTANTS
  Proc,           \* process slots of the host
  Att,            \* attachments
  Conf,           \* the range sets of each attachment's network
  NoFile,         \* the address file does not exist
  Blank,          \* the address file exists and is empty
  NoAtt,          \* the slot runs no process
  NoProc,         \* nobody holds the flock
  SerialRuntime,  \* the runtime runs one command at a time per attachment
  Crashes,        \* a process can be killed between two system calls
  IoErrors        \* a write to the store can fail (disk full)

ASSUME SentinelAssumption ==
  /\ NoFile \notin Att /\ Blank \notin Att /\ NoAtt \notin Att
  /\ NoFile # Blank
  /\ NoProc \notin Proc

ASSUME SwitchAssumption ==
  SerialRuntime \in BOOLEAN /\ Crashes \in BOOLEAN /\ IoErrors \in BOOLEAN

ASSUME ConfAssumption ==
  \A a \in Att :
    /\ Conf[a] # <<>>
    /\ Conf[a] \in Seq(Seq(CanonicalRanges))
    /\ \A i \in DOMAIN Conf[a] : UsableSet(Conf[a][i])

ASSUME DisjointAssumption ==
  \A a \in Att : \A i, j \in DOMAIN Conf[a] : i < j => ~SetOverlap(Conf[a][i], Conf[a][j])

VARIABLES
  files,    \* address |-> its file: NoFile, Blank or the attachment it names
  last,     \* range id |-> text of last_reserved_ip_<id>, <<>> if there is none
  lock,     \* the process that holds the flock on the store directory
  lease,    \* attachment |-> the addresses the runtime was given for it
  \* of each process:
  pc,       \* the system call it is about to make
  att,      \* the attachment it was invoked for
  cmd,      \* CNI_COMMAND
  idx,      \* the range set it allocates from
  rel,      \* while it rolls back: releases still to do
  todo,     \* directory entries read_dir has still to yield
  hits,     \* get_by_id: addresses found so far
  path,     \* release_by_id: the file about to be removed
  iter,     \* the iterator over the range set
  tried,    \* addresses that were taken when this get looked
  ips,      \* addresses reserved so far
  err       \* why it failed

store == <<files, last>>
call  == <<att, cmd>>
scan  == <<todo, hits, path>>
pick  == <<iter, tried>>
vars  == <<files, last, lock, lease, pc, att, cmd, idx, rel, todo, hits, path,
           iter, tried, ips, err>>

Command == {"ADD", "DEL", "CHECK"}

RangeId == UNION {DOMAIN Conf[a] : a \in Att}

RangeSet(p) == Conf[att[p]][idx[p]]

FreshIter == [range_index |-> 1, cur |-> NoIp, start_ip |-> NoIp]

Init ==
  /\ files = [x \in Addr |-> NoFile]
  /\ last = [i \in RangeId |-> <<>>]
  /\ lock = NoProc
  /\ lease = [a \in Att |-> {}]
  /\ pc = [p \in Proc |-> "idle"]
  /\ att = [p \in Proc |-> NoAtt]
  /\ cmd = [p \in Proc |-> "ADD"]
  /\ idx = [p \in Proc |-> 1]
  /\ rel = [p \in Proc |-> 0]
  /\ todo = [p \in Proc |-> {}]
  /\ hits = [p \in Proc |-> {}]
  /\ path = [p \in Proc |-> NoIp]
  /\ iter = [p \in Proc |-> FreshIter]
  /\ tried = [p \in Proc |-> {}]
  /\ ips = [p \in Proc |-> {}]
  /\ err = [p \in Proc |-> "none"]

At(p, l) == pc[p] = l
GoTo(p, l) == pc' = [pc EXCEPT ![p] = l]
Step(p, from, to) == At(p, from) /\ GoTo(p, to)

----------------------------------------------------------------------------
(* The runtime starts the plugin.                                          *)

\* main hands the same function to plugin_main for all three commands.
Handler == [ADD |-> "cmd_add", DEL |-> "cmd_add", CHECK |-> "cmd_add"]

Invoke(p, a, c) ==
  /\ SerialRuntime => \A q \in Proc : att[q] # a
  /\ Handler[c] = "cmd_add"
  /\ Step(p, "idle", "lock")
  /\ att' = [att EXCEPT ![p] = a]
  /\ cmd' = [cmd EXCEPT ![p] = c]
  /\ UNCHANGED <<store, lock, lease, idx, rel, scan, pick, ips, err>>

----------------------------------------------------------------------------
(* What get and release begin with: new_lock, then read_dir.               *)

NewLock(p) ==
  /\ Step(p, "lock", "unlock")
  /\ lock = NoProc
  /\ lock' = p
  /\ UNCHANGED <<store, lease, call, idx, rel, scan, pick, ips, err>>

\* The guard goes out of scope before the next statement.
DropLock(p) ==
  /\ Step(p, "unlock", "read_dir")
  /\ lock' = NoProc
  /\ UNCHANGED <<store, lease, call, idx, rel, scan, pick, ips, err>>

\* The last_reserved_ip files are entries too, but they never match an
\* attachment and are never removed.
ReadDir(p) ==
  /\ Step(p, "read_dir", IF rel[p] = 0 THEN "get_by_id" ELSE "release_by_id")
  /\ todo' = [todo EXCEPT ![p] = {x \in Addr : files[x] # NoFile}]
  /\ UNCHANGED <<store, lock, lease, call, idx, rel, hits, path, pick, ips, err>>

----------------------------------------------------------------------------
(* cmd_add fails: one release for each range set it already served.        *)

\* Mutated form of Fail: it counts the set that failed among those it served.
FailOneMore(p, why) ==
  /\ err' = [err EXCEPT ![p] = why]
  /\ rel' = [rel EXCEPT ![p] = idx[p]]
  /\ GoTo(p, IF idx[p] = 1 THEN "exit" ELSE "lock")

Fail(p, why) ==
  /\ err' = [err EXCEPT ![p] = why]
  /\ rel' = [rel EXCEPT ![p] = idx[p] - 1]
  /\ GoTo(p, IF idx[p] = 1 THEN "exit" ELSE "lock")

\* The next release, whatever came of this one.
NextRelease(p) ==
  /\ rel' = [rel EXCEPT ![p] = @ - 1]
  /\ GoTo(p, IF rel[p] = 1 THEN "exit" ELSE "lock")

----------------------------------------------------------------------------
(* IpAllocator::get: is an address of this set allocated already?          *)

\* metadata() and read_to_string() of one entry; an entry that has gone
\* meanwhile is an error.
GetById(p) ==
  /\ At(p, "get_by_id")
  /\ \E x \in todo[p] :
       \/ /\ files[x] # NoFile
          /\ todo' = [todo EXCEPT ![p] = @ \ {x}]
          /\ hits' = [hits EXCEPT ![p] = IF files[x] = att[p] THEN @ \cup {x} ELSE @]
          /\ UNCHANGED <<pc, rel, err>>
       \/ /\ files[x] = NoFile
          /\ Fail(p, "vanished")
          /\ todo' = [todo EXCEPT ![p] = {}]
          /\ hits' = [hits EXCEPT ![p] = {}]
  /\ UNCHANGED <<store, lock, lease, call, idx, path, pick, ips>>

\* Mutated form: get does not look for an earlier allocation.
NoDuplicateCheck(p) ==
  /\ Step(p, "get_by_id", "last_reserved_ip")
  /\ todo[p] = {}
  /\ hits' = [hits EXCEPT ![p] = {}]
  /\ UNCHANGED <<store, lock, lease, call, idx, rel, todo, path, pick, ips, err>>

CheckDuplicate(p) ==
  /\ At(p, "get_by_id")
  /\ todo[p] = {}
  /\ hits' = [hits EXCEPT ![p] = {}]
  /\ \/ /\ \E x \in hits[p] : ContainsIp(RangeSet(p), x)
        /\ Fail(p, "duplicate")
     \/ /\ \A x \in hits[p] : ~ContainsIp(RangeSet(p), x)
        /\ GoTo(p, "last_reserved_ip")
        /\ UNCHANGED <<rel, err>>
  /\ UNCHANGED <<store, lock, lease, call, idx, todo, path, pick, ips>>

----------------------------------------------------------------------------
(* IpAllocator::get: the loop over the iterator.                           *)

NewIter(p) ==
  /\ Step(p, "last_reserved_ip", "next")
  /\ iter' = [iter EXCEPT ![p] = new_iter(RangeSet(p), Parse(last[idx[p]]))]
  /\ tried' = [tried EXCEPT ![p] = {}]
  /\ UNCHANGED <<store, lock, lease, call, idx, rel, scan, ips, err>>

\* One call of Iter::next; on a gateway it calls itself.
NextAddress(p) ==
  /\ At(p, "next")
  /\ \/ /\ NextOutcome(RangeSet(p), iter[p]) = "skip"
        /\ iter' = [iter EXCEPT ![p] = NextIter(RangeSet(p), @)]
        /\ UNCHANGED <<pc, rel, err>>
     \/ /\ NextOutcome(RangeSet(p), iter[p]) = "address"
        /\ iter' = [iter EXCEPT ![p] = NextIter(RangeSet(p), @)]
        /\ GoTo(p, "exists")
        /\ UNCHANGED <<rel, err>>
     \/ /\ NextOutcome(RangeSet(p), iter[p]) = "end"
        /\ Fail(p, "exhausted")
        /\ UNCHANGED iter
  /\ UNCHANGED <<store, lock, lease, call, idx, scan, tried, ips>>

\* Store::reserve, one action per system call.
Exists(p) ==
  LET x == iter[p].cur IN
  /\ At(p, "exists")
  /\ \/ /\ files[x] # NoFile
        /\ tried' = [tried EXCEPT ![p] = @ \cup {x}]
        /\ GoTo(p, "next")
     \/ /\ files[x] = NoFile
        /\ GoTo(p, "create_new")
        /\ UNCHANGED tried
  /\ UNCHANGED <<store, lock, lease, call, idx, rel, scan, iter, ips, err>>

\* Mutated form: without O_EXCL, a file made since exists() looked is opened.
CreateOrOpen(p) ==
  /\ Step(p, "create_new", "write_id")
  /\ files' = [files EXCEPT ![iter[p].cur] = IF @ = NoFile THEN Blank ELSE @]
  /\ UNCHANGED <<last, lock, lease, call, idx, rel, scan, pick, ips, err>>

\* O_CREAT|O_EXCL: a file made since exists() looked is an error, not `false'.
CreateNew(p) ==
  LET x == iter[p].cur IN
  /\ At(p, "create_new")
  /\ \/ /\ files[x] = NoFile
        /\ files' = [files EXCEPT ![x] = Blank]
        /\ GoTo(p, "write_id")
        /\ UNCHANGED <<rel, err>>
     \/ /\ files[x] # NoFile
        /\ Fail(p, "create_failed")
        /\ UNCHANGED files
  /\ UNCHANGED <<last, lock, lease, call, idx, scan, pick, ips>>

WriteId(p) ==
  /\ Step(p, "write_id", "write_last")
  /\ files' = [files EXCEPT ![iter[p].cur] = att[p]]
  /\ UNCHANGED <<last, lock, lease, call, idx, rel, scan, pick, ips, err>>

\* open(create, no truncate) and write_all; reserve returns true and cmd_add
\* goes on to the next range set, or to its result.
WriteLast(p) ==
  /\ At(p, "write_last")
  /\ last' = [last EXCEPT ![idx[p]] = Overwrite(@, Text(iter[p].cur))]
  /\ ips' = [ips EXCEPT ![p] = @ \cup {iter[p].cur}]
  /\ iter' = [iter EXCEPT ![p] = FreshIter]
  /\ tried' = [tried EXCEPT ![p] = {}]
  /\ \/ /\ idx[p] < Len(Conf[att[p]])
        /\ idx' = [idx EXCEPT ![p] = @ + 1]
        /\ GoTo(p, "lock")
     \/ /\ idx[p] = Len(Conf[att[p]])
        /\ GoTo(p, "reply")
        /\ UNCHANGED idx
  /\ UNCHANGED <<files, lock, lease, call, rel, scan, err>>

\* ENOSPC on the content leaves the new file behind, empty; on the
\* last_reserved_ip file it leaves the address file behind, complete.
WriteFails(p) ==
  /\ IoErrors
  /\ At(p, "write_id") \/ At(p, "write_last")
  /\ Fail(p, "io_error")
  /\ UNCHANGED <<store, lock, lease, call, idx, scan, pick, ips>>

----------------------------------------------------------------------------
(* IpAllocator::release.                                                   *)

\* One entry of release_by_id; an entry that has gone meanwhile ends it.
ReleaseById(p) ==
  /\ At(p, "release_by_id")
  /\ \/ \E x \in todo[p] :
          \/ /\ files[x] = att[p]
             /\ todo' = [todo EXCEPT ![p] = @ \ {x}]
             /\ path' = [path EXCEPT ![p] = x]
             /\ GoTo(p, "remove_file")
             /\ UNCHANGED rel
          \/ /\ files[x] \notin {att[p], NoFile}
             /\ todo' = [todo EXCEPT ![p] = @ \ {x}]
             /\ UNCHANGED <<pc, rel, path>>
          \/ /\ files[x] = NoFile
             /\ todo' = [todo EXCEPT ![p] = {}]
             /\ NextRelease(p)
             /\ UNCHANGED path
     \/ /\ todo[p] = {}
        /\ NextRelease(p)
        /\ UNCHANGED <<todo, path>>
  /\ UNCHANGED <<store, lock, lease, call, idx, hits, pick, ips, err>>

\* Mutated form of RemoveFile: it stops at the first file.
RemoveFirstFile(p) ==
  /\ At(p, "remove_file")
  /\ path' = [path EXCEPT ![p] = NoIp]
  /\ todo' = [todo EXCEPT ![p] = {}]
  /\ files' = [files EXCEPT ![path[p]] = NoFile]
  /\ GoTo(p, "release_by_id")
  /\ UNCHANGED <<last, lock, lease, call, idx, rel, hits, pick, ips, err>>

RemoveFile(p) ==
  /\ At(p, "remove_file")
  /\ path' = [path EXCEPT ![p] = NoIp]
  /\ \/ /\ files[path[p]] # NoFile
        /\ files' = [files EXCEPT ![path[p]] = NoFile]
        /\ GoTo(p, "release_by_id")
        /\ UNCHANGED <<rel, todo>>
     \/ /\ files[path[p]] = NoFile
        /\ todo' = [todo EXCEPT ![p] = {}]
        /\ NextRelease(p)
        /\ UNCHANGED files
  /\ UNCHANGED <<last, lock, lease, call, idx, hits, pick, ips, err>>

----------------------------------------------------------------------------
(* The process ends and the runtime learns what came of it.                *)

Ended(p) ==
  /\ GoTo(p, "idle")
  /\ att' = [att EXCEPT ![p] = NoAtt]
  /\ cmd' = [cmd EXCEPT ![p] = "ADD"]
  /\ idx' = [idx EXCEPT ![p] = 1]
  /\ rel' = [rel EXCEPT ![p] = 0]
  /\ todo' = [todo EXCEPT ![p] = {}]
  /\ hits' = [hits EXCEPT ![p] = {}]
  /\ path' = [path EXCEPT ![p] = NoIp]
  /\ iter' = [iter EXCEPT ![p] = FreshIter]
  /\ tried' = [tried EXCEPT ![p] = {}]
  /\ ips' = [ips EXCEPT ![p] = {}]
  /\ err' = [err EXCEPT ![p] = "none"]

\* The runtime uses the addresses of a successful ADD until it has called
\* DEL; it takes the container down whatever DEL answers.
LeaseAfter(p, given) ==
  CASE cmd[p] = "DEL" -> [lease EXCEPT ![att[p]] = {}]
    [] cmd[p] = "ADD" /\ given # {} -> [lease EXCEPT ![att[p]] = given]
    [] OTHER -> lease

Reply(p) ==
  /\ At(p, "reply")
  /\ lease' = LeaseAfter(p, ips[p])
  /\ Ended(p)
  /\ UNCHANGED <<store, lock>>

Exit(p) ==
  /\ At(p, "exit")
  /\ lease' = LeaseAfter(p, {})
  /\ Ended(p)
  /\ UNCHANGED <<store, lock>>

\* The kernel closes the directory, which drops a flock; nothing else is
\* undone.
Crash(p) ==
  /\ Crashes
  /\ ~At(p, "idle")
  /\ lease' = LeaseAfter(p, {})
  /\ lock' = IF lock = p THEN NoProc ELSE lock
  /\ Ended(p)
  /\ UNCHANGED store

Run(p) ==
  \/ NewLock(p) \/ DropLock(p) \/ ReadDir(p)
  \/ GetById(p) \/ CheckDuplicate(p)
  \/ NewIter(p) \/ NextAddress(p)
  \/ Exists(p) \/ CreateNew(p) \/ WriteId(p) \/ WriteLast(p) \/ WriteFails(p)
  \/ ReleaseById(p) \/ RemoveFile(p)
  \/ Reply(p) \/ Exit(p)

Next ==
  \E p \in Proc :
    \/ \E a \in Att, c \in Command : Invoke(p, a, c)
    \/ Run(p)
    \/ Crash(p)

Spec == Init /\ [][Next]_vars

----------------------------------------------------------------------------
(* Properties.                                                             *)

Label == {"idle", "lock", "unlock", "read_dir", "get_by_id",
          "last_reserved_ip", "next", "exists", "create_new", "write_id",
          "write_last", "release_by_id", "remove_file", "reply", "exit"}

Reason == {"none", "vanished", "duplicate", "exhausted", "create_failed", "io_error"}

\* Every variable keeps the type of the state it models.
TypeOK ==
  /\ files \in [Addr -> Att \cup {NoFile, Blank}]
  /\ DOMAIN last = RangeId
  /\ lock \in Proc \cup {NoProc}
  /\ lease \in [Att -> SUBSET Addr]
  /\ pc \in [Proc -> Label]
  /\ att \in [Proc -> Att \cup {NoAtt}]
  /\ cmd \in [Proc -> Command]
  /\ idx \in [Proc -> Nat \ {0}]
  /\ rel \in [Proc -> Nat]
  /\ todo \in [Proc -> SUBSET Addr]
  /\ hits \in [Proc -> SUBSET Addr]
  /\ path \in [Proc -> Addr \cup {NoIp}]
  /\ iter \in [Proc -> Iters]
  /\ tried \in [Proc -> SUBSET Addr]
  /\ ips \in [Proc -> SUBSET Addr]
  /\ err \in [Proc -> Reason]

\* An address the runtime was given stays reserved in the store, under the
\* name of the attachment it was given to, for as long as the runtime uses
\* it: no rollback, retry, crash or failed write of any process takes it back
\* (release_by_id removes every file of its attachment, disk.rs:92-108).
LeaseBacked == \A a \in Att : \A x \in lease[a] : files[x] = a

\* Two attachments never use the same address, though no lock protects the
\* steps of Store::reserve and networks share the store.
LeaseExclusive == \A a, b \in Att : a # b => lease[a] \cap lease[b] = {}

\* A successful ADD answers with one address of every range set of the
\* network, none of them a gateway (main.rs:65-82).
OneAddressPerSet ==
  \A a \in Att : lease[a] # {} =>
    /\ \A i \in DOMAIN Conf[a] :
         \E x \in lease[a] : lease[a] \cap Allocatable(Conf[a][i]) = {x}
    /\ lease[a] \subseteq UNION {Allocatable(Conf[a][i]) : i \in DOMAIN Conf[a]}

\* `No IP addresses available' is said only after every allocatable address
\* of the set was found taken, wherever the iterator began, whatever the
\* last_reserved_ip file held (allocator.rs:67-107, 117-146, 195-243).
ExhaustedMeansTaken ==
  \A p \in Proc :
    At(p, "exit") /\ err[p] = "exhausted" => Allocatable(RangeSet(p)) \subseteq tried[p]

\* A rollback that is not cut short by an entry that vanished leaves the
\* attachment without any address, those it had from an earlier command that
\* died or failed included (main.rs:74-79, disk.rs:92-108).
Owned(a) == {x \in Addr : files[x] = a}
ReleaseIsComplete ==
  [][\A p \in Proc :
       At(p, "release_by_id") /\ todo[p] = {} /\ pc'[p] # pc[p] => Owned(att[p]) = {}]_vars

----------------------------------------------------------------------------
(* The store implements IpPool.  An address is its attachment's from the   *)
(* creation of its file on; a file left empty is nobody's.                 *)

Owner ==
  [x \in Addr |->
     IF \E p \in Proc : At(p, "write_id") /\ iter[p].cur = x
     THEN att[CHOOSE p \in Proc : At(p, "write_id") /\ iter[p].cur = x]
     ELSE files[x]]

Pool == INSTANCE IpPool WITH Free <- NoFile, Stranded <- Blank, owner <- Owner

\* Pool!Spec.  (The UNCHANGED changes nothing of its meaning, but lets TLC try
\* a stutter first.)
PoolSpec == Pool!Init /\ [][UNCHANGED <<Owner, lease>> \/ Pool!Next]_<<Owner, lease>>

----------------------------------------------------------------------------
(* What the repository says of the plugin and the code does not do.        *)

\* disk.rs:11-12: one file per IP address, the contents of the file are the
\* container ID.  Between the system calls of reserve a file may be empty;
\* with no process running every file should name its owner.
EveryFileNamesItsOwner ==
  (\A p \in Proc : At(p, "idle")) => \A x \in Addr : files[x] # Blank

\* allocator.rs:61-70: `duplicate allocation is not allowed' (no attachment
\* holds two addresses of one range set).
NoDuplicateAllocation ==
  \A a \in Att : \A i \in DOMAIN Conf[a] :
    \A x, y \in Owned(a) :
      ContainsIp(Conf[a][i], x) /\ ContainsIp(Conf[a][i], y) => x = y
============================================================================
