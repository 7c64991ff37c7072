---------------------------- MODULE HostLocalInv ----------------------------
(***************************************************************************)
(* The inductive invariant behind the theorems of HostLocalProofs, kept    *)
(* apart so that TLC can check it before it is proved.                     *)
(***************************************************************************)
EXTENDS HostLocal

Picking   == {"next", "exists", "create_new", "write_id", "write_last"}
Reserving == {"exists", "create_new", "write_id", "write_last"}
Releasing == {"release_by_id", "remove_file"}
Walking   == {"lock", "unlock", "read_dir"} \cup Releasing

\* The shape of each process's local state.
WellFormed ==
  \A p \in Proc :
    /\ At(p, "idle") <=> att[p] = NoAtt
    /\ At(p, "idle") => idx[p] = 1 /\ rel[p] = 0 /\ ips[p] = {}
    /\ ~At(p, "idle") => idx[p] \in DOMAIN Conf[att[p]]
    /\ pc[p] \in Releasing => rel[p] > 0
    /\ rel[p] > 0 => pc[p] \in Walking /\ idx[p] > 1
    /\ pc[p] \in Picking => InItsRange(RangeSet(p), iter[p])
    /\ pc[p] \in Reserving => iter[p].cur # NoIp
    /\ At(p, "remove_file") => path[p] # NoIp

TypeInv == TypeOK /\ WellFormed

\* A process that has not failed so far.
Forward(p) == ~At(p, "idle") /\ ~At(p, "exit") /\ rel[p] = 0

OneProcPerAtt == \A p, q \in Proc : att[p] = att[q] /\ att[p] # NoAtt => p = q

\* What the file a process works on holds.
FileOfStep ==
  \A p \in Proc :
    /\ At(p, "write_id") => files[iter[p].cur] = Blank
    /\ At(p, "write_last") => files[iter[p].cur] = att[p]
    /\ At(p, "remove_file") => files[path[p]] = att[p]

OneWriterPerFile ==
  \A p, q \in Proc :
    At(p, "write_id") /\ At(q, "write_id") /\ iter[p].cur = iter[q].cur => p = q

ReservedIsBacked ==
  \A p \in Proc : Forward(p) =>
    /\ \A x \in ips[p] : files[x] = att[p]
    /\ idx[p] > 1 \/ At(p, "reply") => \E x \in ips[p] : ContainsIp(Conf[att[p]][1], x)

\* A process whose attachment holds a lease never gets past the check for
\* duplicates of the first range set, so it never rolls back.
LeaseStopsGet ==
  \A p \in Proc : ~At(p, "idle") /\ lease[att[p]] # {} =>
    /\ idx[p] = 1
    /\ pc[p] \in {"lock", "unlock", "read_dir", "get_by_id", "exit"}
    /\ At(p, "get_by_id") => lease[att[p]] \subseteq todo[p] \cup hits[p]

LeaseInFirstSet ==
  \A a \in Att : lease[a] # {} => \E x \in lease[a] : ContainsIp(Conf[a][1], x)

\* What keeps an address reserved that the runtime was given, stated so that
\* every step of every process preserves it.
LeaseInv ==
  /\ OneProcPerAtt
  /\ FileOfStep
  /\ OneWriterPerFile
  /\ ReservedIsBacked
  /\ LeaseStopsGet
  /\ LeaseInFirstSet
  /\ LeaseBacked

\* A process that goes through the directory has still to see, or has seen,
\* every file of its attachment.
SeesAll(p) ==
  /\ At(p, "get_by_id") => Owned(att[p]) \subseteq todo[p] \cup hits[p]
  /\ At(p, "release_by_id") => Owned(att[p]) \subseteq todo[p]
  /\ At(p, "remove_file") => Owned(att[p]) \subseteq todo[p] \cup {path[p]}

\* Past the check for duplicates the attachment has no file of the range set
\* but the one that has just been written.
Choosing == {"last_reserved_ip", "next", "exists", "create_new", "write_id"}

SetIsFresh(p) ==
  /\ pc[p] \in Choosing => \A x \in Owned(att[p]) : ~ContainsIp(RangeSet(p), x)
  /\ At(p, "write_last") =>
       \A x \in Owned(att[p]) : ContainsIp(RangeSet(p), x) => x = iter[p].cur

\* Why no attachment gets two addresses of a set, and why a rollback leaves
\* none.
OwnInv ==
  /\ OneProcPerAtt
  /\ \A p \in Proc : SeesAll(p) /\ SetIsFresh(p)
  /\ NoDuplicateAllocation

\* The addresses of p's range set that the iterator came by were taken when
\* p looked, but for gateways and for the one that p is looking at; and an
\* iterator that has moved began somewhere in its set.
ScanOf(p) ==
  pc[p] \in Picking =>
    /\ \A j \in DOMAIN RangeSet(p) : \A y \in Addr :
         /\ RangeContains(RangeSet(p)[j], y)
         /\ y # RangeSet(p)[j].gateway
         /\ Passed(RangeSet(p), iter[p], j, y)
         => y \in tried[p] \/ (~At(p, "next") /\ y = iter[p].cur)
    /\ iter[p].cur # NoIp /\ iter[p].start_ip # NoIp =>
         \E i \in DOMAIN RangeSet(p) : StartsIn(RangeSet(p), iter[p], i)

\* A process that found its set exhausted is on its way out.
ExhaustedSet(p) ==
  err[p] = "exhausted" =>
    /\ At(p, "exit") \/ rel[p] > 0
    /\ Allocatable(RangeSet(p)) \subseteq tried[p]

\* Why a set that is called exhausted was seen to be.
ScanInv == \A p \in Proc : ScanOf(p) /\ ExhaustedSet(p)
=============================================================================
