--------------------------- MODULE HostLocalProofs ---------------------------
(***************************************************************************)
(* Theorems of HostLocal for any number of processes, attachments, range   *)
(* sets and addresses.                                                     *)
(***************************************************************************)
EXTENDS HostLocalInv, IpIterProofs

----------------------------------------------------------------------------
(* Facts about the constants and the helpers.                              *)

LEMMA RangeSetUsable ==
  ASSUME TypeOK, WellFormed, NEW p \in Proc, ~At(p, "idle")
  PROVE  /\ att[p] \in Att
         /\ idx[p] \in DOMAIN Conf[att[p]]
         /\ UsableSet(RangeSet(p))
BY ConfAssumption DEF TypeOK, WellFormed, At, RangeSet

LEMMA FirstSet ==
  ASSUME NEW a \in Att
  PROVE  1 \in DOMAIN Conf[a]
<1>1. Conf[a] # <<>> /\ Conf[a] \in Seq(Seq(CanonicalRanges))
  BY ConfAssumption
<1>2. QED
  BY <1>1

LEMMA ParseType == \A text : Parse(text) \in Addr \cup {NoIp}
BY DEF Parse

LEMMA FreshIterType == FreshIter \in Iters
BY DEF FreshIter, Iters

LEMMA LeaseAfterType ==
  ASSUME TypeOK, WellFormed, NEW p \in Proc, ~At(p, "idle"), NEW given \in SUBSET Addr
  PROVE  LeaseAfter(p, given) \in [Att -> SUBSET Addr]
BY DEF TypeOK, LeaseAfter

----------------------------------------------------------------------------
(* Type correctness.                                                       *)

LEMMA InitTypeInv == Init => TypeInv
<1> SUFFICES ASSUME Init PROVE TypeInv
  OBVIOUS
<1>1. TypeOK
  BY FreshIterType DEF Init, TypeOK, RangeId, Label, Command, Reason
<1>2. WellFormed
  BY DEF Init, WellFormed, At, Releasing, Picking, Reserving
<1>3. QED
  BY <1>1, <1>2 DEF TypeInv

\* A failing process is left well-formed, whatever range set it was at.
LEMMA FailKeeps ==
  ASSUME TypeInv, NEW p \in Proc, ~At(p, "idle"), rel[p] = 0,
         NEW why \in Reason, Fail(p, why),
         UNCHANGED <<idx, att, ips, path>>,
         \A q \in Proc : q # p => iter'[q] = iter[q]
  PROVE  /\ pc' \in [Proc -> Label]
         /\ rel' \in [Proc -> Nat]
         /\ err' \in [Proc -> Reason]
         /\ WellFormed'
<1>1. idx[p] \in Nat \ {0}
  BY DEF TypeInv, TypeOK
<1>2. /\ pc' = [pc EXCEPT ![p] = IF idx[p] = 1 THEN "exit" ELSE "lock"]
      /\ rel' = [rel EXCEPT ![p] = idx[p] - 1]
      /\ err' = [err EXCEPT ![p] = why]
  BY DEF Fail, GoTo
<1>3. /\ pc' \in [Proc -> Label]
      /\ rel' \in [Proc -> Nat]
      /\ err' \in [Proc -> Reason]
  BY <1>1, <1>2 DEF TypeInv, TypeOK, Label
<1>4. WellFormed'
  BY <1>1, <1>2 DEF TypeInv, TypeOK, WellFormed, At, Releasing, Picking, Reserving, Walking,
                    RangeSet
<1>5. QED
  BY <1>3, <1>4

\* A release that ends, likewise.
LEMMA NextReleaseKeeps ==
  ASSUME TypeInv, NEW p \in Proc, rel[p] > 0, NextRelease(p),
         UNCHANGED <<idx, att, ips, iter>>,
         \A q \in Proc : q # p => path'[q] = path[q]
  PROVE  /\ pc' \in [Proc -> Label]
         /\ rel' \in [Proc -> Nat]
         /\ WellFormed'
<1>1. /\ pc' = [pc EXCEPT ![p] = IF rel[p] = 1 THEN "exit" ELSE "lock"]
      /\ rel' = [rel EXCEPT ![p] = rel[p] - 1]
      /\ rel[p] \in Nat
  BY DEF NextRelease, GoTo, TypeInv, TypeOK
<1>2. pc' \in [Proc -> Label] /\ rel' \in [Proc -> Nat]
  BY <1>1 DEF TypeInv, TypeOK, Label
<1>3. WellFormed'
  BY <1>1 DEF TypeInv, TypeOK, WellFormed, At, Releasing, Picking, Reserving, Walking, RangeSet
<1>4. QED
  BY <1>2, <1>3

LEMMA CurIsAddr ==
  ASSUME TypeInv, NEW p \in Proc, pc[p] \in Reserving
  PROVE  iter[p].cur \in Addr
BY DEF TypeInv, TypeOK, WellFormed, Iters

LEMMA InvokeTypeInv ==
  ASSUME TypeInv, NEW p \in Proc, NEW a \in Att, NEW c \in Command, Invoke(p, a, c)
  PROVE  TypeInv'
<1> USE DEF TypeInv
<1>1. TypeOK'
  BY DEF Invoke, TypeOK, Step, GoTo, At, store, call, scan, pick, Label
<1>2. WellFormed'
  BY SentinelAssumption, FirstSet DEF Invoke, TypeOK, WellFormed, Step, GoTo, At, store, call, scan, pick, RangeSet, Picking, Reserving, Releasing, Walking
<1>3. QED
  BY <1>1, <1>2

LEMMA NewIterTypeInv ==
  ASSUME TypeInv, NEW p \in Proc, NewIter(p)
  PROVE  TypeInv'
<1> USE DEF TypeInv
<1> DEFINE it == new_iter(RangeSet(p), Parse(last[idx[p]]))
<1>1. ~At(p, "idle")
  BY DEF NewIter, Step, At
<1>2. it \in Iters /\ InItsRange(RangeSet(p), it)
  BY <1>1, RangeSetUsable, ParseType, NewIterInItsRange
<1>3. iter' = [iter EXCEPT ![p] = it]
  BY DEF NewIter
<1> HIDE DEF it
<1>4. TypeOK'
  BY <1>2, <1>3 DEF NewIter, TypeOK, Step, GoTo, At, store, call, scan, pick, Label
<1>5. WellFormed'
  BY <1>2, <1>3 DEF NewIter, TypeOK, WellFormed, Step, GoTo, At, store, call, scan, pick, RangeSet, Picking, Reserving, Releasing, Walking
<1>6. QED
  BY <1>4, <1>5

LEMMA NextAddressTypeInv ==
  ASSUME TypeInv, NEW p \in Proc, NextAddress(p)
  PROVE  TypeInv'
<1> USE DEF TypeInv
<1> DEFINE it == NextIter(RangeSet(p), iter[p])
<1>1. ~At(p, "idle") /\ pc[p] \in Picking /\ rel[p] = 0
  BY DEF NextAddress, At, Picking, TypeOK, WellFormed, Walking, Releasing
<1>2. it \in Iters /\ InItsRange(RangeSet(p), it) /\ it.cur # NoIp
  BY <1>1, RangeSetUsable, NextIterInItsRange DEF TypeOK, WellFormed
<1>3. CASE NextOutcome(RangeSet(p), iter[p]) \in {"skip", "address"}
  <2>1. /\ iter' = [iter EXCEPT ![p] = it]
        /\ pc' \in {pc, [pc EXCEPT ![p] = "exists"]}
        /\ UNCHANGED <<store, lock, lease, call, idx, rel, scan, tried, ips, err>>
    BY <1>3 DEF NextAddress, GoTo
  <2> HIDE DEF it
  <2>2. TypeOK'
    BY <1>2, <2>1 DEF TypeOK, Step, GoTo, At, store, call, scan, pick, Label
  <2>3. WellFormed'
    BY <1>1, <1>2, <2>1 DEF TypeOK, WellFormed, Step, GoTo, At, store, call, scan, pick, RangeSet, Picking, Reserving, Releasing, Walking
  <2>4. QED
    BY <2>2, <2>3
<1>4. CASE NextOutcome(RangeSet(p), iter[p]) = "end"
  <2>1. /\ Fail(p, "exhausted")
        /\ UNCHANGED <<store, lock, lease, call, idx, scan, pick, ips>>
    BY <1>4 DEF NextAddress, pick
  <2>2. /\ pc' \in [Proc -> Label]
        /\ rel' \in [Proc -> Nat]
        /\ err' \in [Proc -> Reason]
        /\ WellFormed'
    BY <1>1, <2>1, FailKeeps DEF Reason, call, scan, pick
  <2>3. TypeOK'
    BY <2>1, <2>2 DEF TypeOK, store, call, scan, pick
  <2>4. QED
    BY <2>2, <2>3
<1>5. QED
  BY <1>3, <1>4 DEF NextAddress

LEMMA ReleaseByIdTypeInv ==
  ASSUME TypeInv, NEW p \in Proc, ReleaseById(p)
  PROVE  TypeInv'
<1> USE DEF TypeInv
<1>1. rel[p] > 0 /\ At(p, "release_by_id")
  BY DEF ReleaseById, At, WellFormed, Releasing
<1>2. CASE NextRelease(p)
  <2>1. /\ UNCHANGED <<store, lock, lease, call, idx, hits, path, pick, ips, err>>
        /\ todo' \in {todo, [todo EXCEPT ![p] = {}]}
    BY <1>1, <1>2 DEF ReleaseById, NextRelease, GoTo, At, TypeOK
  <2>2. /\ pc' \in [Proc -> Label]
        /\ rel' \in [Proc -> Nat]
        /\ WellFormed'
    BY <1>1, <1>2, <2>1, NextReleaseKeeps DEF call, pick
  <2>3. TypeOK'
    BY <2>1, <2>2 DEF TypeOK, store, call, pick
  <2>4. QED
    BY <2>2, <2>3
<1>3. CASE ~NextRelease(p)
  <2>1. PICK x \in todo[p] : /\ todo' = [todo EXCEPT ![p] = @ \ {x}]
                             /\ \/ path' = [path EXCEPT ![p] = x] /\ GoTo(p, "remove_file")
                                \/ UNCHANGED <<pc, path>>
                             /\ UNCHANGED <<store, lock, lease, call, idx, rel, hits, pick, ips, err>>
    BY <1>3 DEF ReleaseById
  <2>2. x \in Addr /\ x # NoIp
    BY <2>1, MaxAddrAssumption DEF TypeOK, Addr, NoIp
  <2>3. TypeOK'
    BY <2>1, <2>2 DEF TypeOK, Step, GoTo, At, store, call, scan, pick, Label
  <2>4. WellFormed'
    BY <1>1, <2>1, <2>2 DEF TypeOK, WellFormed, Step, GoTo, At, store, call, scan, pick, RangeSet, Picking, Reserving, Releasing, Walking
  <2>5. QED
    BY <2>3, <2>4
<1>4. QED
  BY <1>2, <1>3

LEMMA RemoveFileTypeInv ==
  ASSUME TypeInv, NEW p \in Proc, RemoveFile(p)
  PROVE  TypeInv'
<1> USE DEF TypeInv
<1>1. rel[p] > 0 /\ At(p, "remove_file")
  BY DEF RemoveFile, At, WellFormed, Releasing
<1>2. CASE NextRelease(p) /\ UNCHANGED files /\ todo' = [todo EXCEPT ![p] = {}]
  <2>1. /\ UNCHANGED <<files, last, lock, lease, call, idx, hits, pick, ips, err>>
        /\ path' = [path EXCEPT ![p] = NoIp]
    BY <1>2 DEF RemoveFile
  <2>2. /\ pc' \in [Proc -> Label]
        /\ rel' \in [Proc -> Nat]
        /\ WellFormed'
    BY <1>1, <1>2, <2>1, NextReleaseKeeps DEF TypeOK, call, pick
  <2>3. TypeOK'
    BY <1>2, <2>1, <2>2 DEF TypeOK, call, pick
  <2>4. QED
    BY <2>2, <2>3
<1>3. CASE /\ files' = [files EXCEPT ![path[p]] = NoFile]
           /\ GoTo(p, "release_by_id")
           /\ UNCHANGED <<rel, todo>>
  <2>1. TypeOK'
    BY <1>3 DEF RemoveFile, TypeOK, Step, GoTo, At, store, call, scan, pick, Label
  <2>2. WellFormed'
    BY <1>1, <1>3 DEF RemoveFile, TypeOK, WellFormed, Step, GoTo, At, store, call, scan, pick, RangeSet, Picking, Reserving, Releasing, Walking
  <2>3. QED
    BY <2>1, <2>2
<1>4. QED
  BY <1>2, <1>3 DEF RemoveFile

\* What Reply, Exit and Crash have in common.
LEMMA EndedTypeInv ==
  ASSUME TypeInv, NEW p \in Proc, ~At(p, "idle"), Ended(p), NEW given \in SUBSET Addr,
         lease' = LeaseAfter(p, given), lock' \in Proc \cup {NoProc}, UNCHANGED store
  PROVE  TypeInv'
<1> USE DEF TypeInv
<1>1. lease' \in [Att -> SUBSET Addr]
  BY LeaseAfterType
<1>2. TypeOK'
  BY <1>1, FreshIterType DEF Ended, TypeOK, GoTo, store, Label, Command, Reason
<1>3. WellFormed'
  BY DEF Ended, TypeOK, WellFormed, At, GoTo, RangeSet, Picking, Reserving, Releasing, Walking
<1>4. QED
  BY <1>2, <1>3

LEMMA NextTypeInv == TypeInv /\ [Next]_vars => TypeInv'
<1> SUFFICES ASSUME TypeInv, [Next]_vars PROVE TypeInv'
  OBVIOUS
<1> USE DEF TypeInv
<1>1. ASSUME NEW p \in Proc, NewLock(p) PROVE TypeInv'
  <2>1. TypeOK'
    BY <1>1 DEF NewLock, TypeOK, Step, GoTo, At, store, call, scan, pick, Label
  <2>2. WellFormed'
    BY <1>1, RangeSetUsable DEF NewLock, TypeOK, WellFormed, Step, GoTo, At, store, call, scan, pick, RangeSet, Picking, Reserving, Releasing, Walking
  <2>3. QED
    BY <2>1, <2>2
<1>2. ASSUME NEW p \in Proc, DropLock(p) PROVE TypeInv'
  <2>1. TypeOK'
    BY <1>2 DEF DropLock, TypeOK, Step, GoTo, At, store, call, scan, pick, Label
  <2>2. WellFormed'
    BY <1>2, RangeSetUsable DEF DropLock, TypeOK, WellFormed, Step, GoTo, At, store, call, scan, pick, RangeSet, Picking, Reserving, Releasing, Walking
  <2>3. QED
    BY <2>1, <2>2
<1>3. ASSUME NEW p \in Proc, ReadDir(p) PROVE TypeInv'
  <2>1. TypeOK'
    BY <1>3 DEF ReadDir, TypeOK, Step, GoTo, At, store, call, scan, pick, Label
  <2>2. WellFormed'
    BY <1>3, RangeSetUsable DEF ReadDir, TypeOK, WellFormed, Step, GoTo, At, store, call, scan, pick, RangeSet, Picking, Reserving, Releasing, Walking
  <2>3. QED
    BY <2>1, <2>2
<1>4. ASSUME NEW p \in Proc, GetById(p) PROVE TypeInv'
  <2>1. TypeOK'
    BY <1>4 DEF GetById, TypeOK, Step, GoTo, At, store, call, scan, pick, Label, Fail, Reason
  <2>2. WellFormed'
    BY <1>4, RangeSetUsable DEF GetById, TypeOK, WellFormed, Step, GoTo, At, store, call, scan, pick, RangeSet, Picking, Reserving, Releasing, Walking, Fail, Reason
  <2>3. QED
    BY <2>1, <2>2
<1>5. ASSUME NEW p \in Proc, CheckDuplicate(p) PROVE TypeInv'
  <2>1. TypeOK'
    BY <1>5 DEF CheckDuplicate, TypeOK, Step, GoTo, At, store, call, scan, pick, Label, Fail, Reason
  <2>2. WellFormed'
    BY <1>5, RangeSetUsable DEF CheckDuplicate, TypeOK, WellFormed, Step, GoTo, At, store, call, scan, pick, RangeSet, Picking, Reserving, Releasing, Walking, Fail, Reason
  <2>3. QED
    BY <2>1, <2>2
<1>6. ASSUME NEW p \in Proc, Exists(p) PROVE TypeInv'
  <2>1. iter[p].cur \in Addr
    BY <1>6, CurIsAddr DEF Exists, At, Reserving
  <2>2. TypeOK'
    BY <1>6, <2>1 DEF Exists, TypeOK, Step, GoTo, At, store, call, scan, pick, Label
  <2>3. WellFormed'
    BY <1>6, RangeSetUsable DEF Exists, TypeOK, WellFormed, Step, GoTo, At, store, call, scan, pick, RangeSet, Picking, Reserving, Releasing, Walking
  <2>4. QED
    BY <2>2, <2>3
<1>7. ASSUME NEW p \in Proc, CreateNew(p) PROVE TypeInv'
  <2>1. TypeOK'
    BY <1>7 DEF CreateNew, TypeOK, Step, GoTo, At, store, call, scan, pick, Label, Fail, Reason
  <2>2. WellFormed'
    BY <1>7, RangeSetUsable DEF CreateNew, TypeOK, WellFormed, Step, GoTo, At, store, call, scan, pick, RangeSet, Picking, Reserving, Releasing, Walking, Fail, Reason
  <2>3. QED
    BY <2>1, <2>2
<1>8. ASSUME NEW p \in Proc, WriteId(p) PROVE TypeInv'
  <2>1. TypeOK'
    BY <1>8, RangeSetUsable DEF WriteId, TypeOK, Step, GoTo, At, store, call, scan, pick, Label, WellFormed
  <2>2. WellFormed'
    BY <1>8, RangeSetUsable, RangeSetUsable DEF WriteId, TypeOK, WellFormed, Step, GoTo, At, store, call, scan, pick, RangeSet, Picking, Reserving, Releasing, Walking, WellFormed
  <2>3. QED
    BY <2>1, <2>2
<1>9. ASSUME NEW p \in Proc, WriteLast(p) PROVE TypeInv'
  <2>1. iter[p].cur \in Addr
    BY <1>9, CurIsAddr DEF WriteLast, At, Reserving
  <2>2. DOMAIN last' = DOMAIN last
    BY <1>9 DEF WriteLast
  <2>3. TypeOK'
    <3>1. idx' \in [Proc -> Nat \ {0}] /\ pc' \in [Proc -> Label]
      <4>1. idx' \in {idx, [idx EXCEPT ![p] = idx[p] + 1]}
        BY <1>9 DEF WriteLast, TypeOK
      <4>2. pc' = [pc EXCEPT ![p] = "lock"] \/ pc' = [pc EXCEPT ![p] = "reply"]
        BY <1>9 DEF WriteLast, GoTo
      <4>3. QED
        BY <4>1, <4>2 DEF TypeOK, Label
    <3>2. ips' \in [Proc -> SUBSET Addr] /\ tried' \in [Proc -> SUBSET Addr]
      BY <1>9, <2>1 DEF WriteLast, TypeOK
    <3>3. iter' \in [Proc -> Iters]
      BY <1>9, FreshIterType DEF WriteLast, TypeOK
    <3>4. UNCHANGED <<files, lock, lease, att, cmd, rel, todo, hits, path, err>>
      BY <1>9 DEF WriteLast, call, scan
    <3>5. QED
      BY <2>2, <3>1, <3>2, <3>3, <3>4 DEF TypeOK, RangeId
  <2>4. WellFormed'
    BY <1>9, RangeSetUsable, ConfAssumption DEF WriteLast, TypeOK, WellFormed, Step, GoTo, At, store, call, scan, pick, RangeSet, Picking, Reserving, Releasing, Walking
  <2>5. QED
    BY <2>3, <2>4
<1>10. ASSUME NEW p \in Proc, WriteFails(p) PROVE TypeInv'
  <2>1. TypeOK'
    BY <1>10 DEF WriteFails, TypeOK, Step, GoTo, At, store, call, scan, pick, Label, Fail, Reason
  <2>2. WellFormed'
    BY <1>10, RangeSetUsable DEF WriteFails, TypeOK, WellFormed, Step, GoTo, At, store, call, scan, pick, RangeSet, Picking, Reserving, Releasing, Walking, Fail, Reason
  <2>3. QED
    BY <2>1, <2>2
<1>11. ASSUME NEW p \in Proc, Reply(p) \/ Exit(p) \/ Crash(p) PROVE TypeInv'
  <2>1. ~At(p, "idle") /\ Ended(p) /\ UNCHANGED store /\ lock' \in {lock, NoProc}
    BY <1>11 DEF Reply, Exit, Crash, At
  <2>2. lease' = LeaseAfter(p, ips[p]) \/ lease' = LeaseAfter(p, {})
    BY <1>11 DEF Reply, Exit, Crash
  <2>3. ips[p] \in SUBSET Addr /\ {} \in SUBSET Addr /\ lock' \in Proc \cup {NoProc}
    BY <2>1 DEF TypeOK
  <2>4. QED
    BY <2>1, <2>2, <2>3, EndedTypeInv
<1>12. CASE UNCHANGED vars
  BY <1>12 DEF vars, TypeOK, WellFormed, At, RangeSet
<1>13. QED
  BY <1>1, <1>2, <1>3, <1>4, <1>5, <1>6, <1>7, <1>8, <1>9, <1>10, <1>11, <1>12, InvokeTypeInv, NewIterTypeInv, NextAddressTypeInv, ReleaseByIdTypeInv, RemoveFileTypeInv DEF Next, Run

\* Every variable keeps its type, every process the range set and the
\* position it is at, and the iterator its range: no step of Iter::next finds
\* nothing to unwrap (main.rs:56-89, allocator.rs:28-147, 195-240).
THEOREM TypeCorrect == Spec => []TypeInv
<1>1. Init => TypeInv
  BY InitTypeInv
<1>2. TypeInv /\ [Next]_vars => TypeInv'
  BY NextTypeInv
<1>3. QED
  BY <1>1, <1>2, PTL DEF Spec

----------------------------------------------------------------------------
(* No address is lost while it is in use.                                  *)

LEMMA InitLeaseInv == Init => LeaseInv
BY DEF Init, LeaseInv, OneProcPerAtt, FileOfStep, OneWriterPerFile, ReservedIsBacked,
       LeaseStopsGet, LeaseInFirstSet, LeaseBacked, Forward, At

\* A step of p that changes neither file nor lease, and does not go to a place
\* that LeaseInv speaks of, can disturb LeaseStopsGet alone.
LEMMA QuietStep ==
  ASSUME TypeInv, LeaseInv, NEW p \in Proc,
         UNCHANGED <<files, lease, att, idx, ips>>,
         pc'[p] \notin {"idle", "write_id", "write_last", "remove_file", "reply"},
         Forward(p)' => Forward(p),
         \A q \in Proc : q # p => UNCHANGED <<pc[q], rel[q], iter[q], path[q]>>
  PROVE  /\ OneProcPerAtt' /\ FileOfStep' /\ OneWriterPerFile'
         /\ ReservedIsBacked' /\ LeaseInFirstSet' /\ LeaseBacked'
<1> USE DEF TypeInv, LeaseInv, At
<1>1. OneProcPerAtt' /\ LeaseInFirstSet' /\ LeaseBacked'
  BY DEF OneProcPerAtt, LeaseInFirstSet, LeaseBacked
<1>2. FileOfStep' /\ OneWriterPerFile'
  BY DEF FileOfStep, OneWriterPerFile
<1>3. ReservedIsBacked'
  BY DEF ReservedIsBacked, Forward
<1>4. QED
  BY <1>1, <1>2, <1>3

\* The steps that are quiet: all but those that create, write or remove a
\* file, start or end a process, or find the file to remove.
Quiet(p) ==
  \/ NewLock(p) \/ DropLock(p) \/ ReadDir(p) \/ GetById(p) \/ CheckDuplicate(p)
  \/ NewIter(p) \/ NextAddress(p) \/ Exists(p) \/ WriteFails(p)
  \/ ReleaseById(p) /\ pc'[p] # "remove_file"

LEMMA QuietActions ==
  ASSUME TypeInv, LeaseInv, NEW p \in Proc, Quiet(p)
  PROVE  /\ OneProcPerAtt' /\ FileOfStep' /\ OneWriterPerFile'
         /\ ReservedIsBacked' /\ LeaseInFirstSet' /\ LeaseBacked'
<1> USE DEF TypeInv
<1>1. UNCHANGED <<files, lease, att, idx, ips>>
  BY DEF Quiet, NewLock, DropLock, ReadDir, GetById, CheckDuplicate, NewIter, NextAddress,
         Exists, WriteFails, ReleaseById, store, call
<1>2. \A q \in Proc : q # p => UNCHANGED <<pc[q], rel[q], iter[q], path[q]>>
  BY DEF Quiet, NewLock, DropLock, ReadDir, GetById, CheckDuplicate, NewIter, NextAddress,
         Exists, WriteFails, ReleaseById, scan, pick, Step, GoTo, Fail, NextRelease, TypeOK
<1>3. /\ pc'[p] \notin {"idle", "write_id", "write_last", "remove_file", "reply"}
      /\ Forward(p)' => Forward(p)
  <2>1. CASE NewLock(p) \/ DropLock(p) \/ ReadDir(p) \/ NewIter(p) \/ Exists(p)
    BY <2>1 DEF NewLock, DropLock, ReadDir, NewIter, Exists, Step, GoTo, At, Forward, TypeOK
  <2>2. CASE GetById(p) \/ CheckDuplicate(p) \/ NextAddress(p) \/ WriteFails(p)
    BY <2>2 DEF GetById, CheckDuplicate, NextAddress, WriteFails, Fail, GoTo, At, Forward,
                TypeOK, WellFormed, Walking, Releasing
  <2>3. CASE ReleaseById(p) /\ pc'[p] # "remove_file"
    BY <2>3 DEF ReleaseById, NextRelease, GoTo, At, Forward, TypeOK, WellFormed, Releasing
  <2>4. QED
    BY <2>1, <2>2, <2>3 DEF Quiet
<1>4. QED
  BY <1>1, <1>2, <1>3, QuietStep

\* A process whose attachment holds a lease finds it in the directory, and
\* one of its addresses in the first range set.
LEMMA DuplicateFound ==
  ASSUME TypeInv, LeaseInv, NEW p \in Proc, CheckDuplicate(p), lease[att[p]] # {}
  PROVE  pc' = [pc EXCEPT ![p] = "exit"]
<1>1. att[p] \in Att /\ ~At(p, "idle")
  BY RangeSetUsable DEF CheckDuplicate, At, TypeInv
<1>2. idx[p] = 1 /\ lease[att[p]] \subseteq hits[p]
  BY <1>1 DEF LeaseInv, LeaseStopsGet, CheckDuplicate, At
<1>3. PICK x \in lease[att[p]] : ContainsIp(Conf[att[p]][1], x)
  BY <1>1 DEF LeaseInv, LeaseInFirstSet
<1>4. x \in hits[p] /\ ContainsIp(RangeSet(p), x)
  BY <1>2, <1>3 DEF RangeSet
<1>5. Fail(p, "duplicate")
  BY <1>4 DEF CheckDuplicate
<1>6. QED
  BY <1>2, <1>5 DEF Fail, GoTo

LEMMA QuietLeaseStopsGet ==
  ASSUME TypeInv, LeaseInv, NEW p \in Proc, Quiet(p)
  PROVE  LeaseStopsGet'
<1> USE DEF TypeInv, LeaseInv
<1>1. CASE NewLock(p) \/ DropLock(p)
  BY <1>1 DEF NewLock, DropLock, LeaseStopsGet, TypeOK, Step, GoTo, At, store, call, scan
<1>2. CASE ReadDir(p)
  BY <1>2, SentinelAssumption DEF ReadDir, LeaseStopsGet, LeaseBacked, TypeOK, WellFormed, Step,
                                  GoTo, At, store, call, Walking
<1>3. CASE GetById(p)
  BY <1>3 DEF GetById, Fail, LeaseStopsGet, LeaseBacked, TypeOK, WellFormed, GoTo, At, store, call
<1>4. CASE CheckDuplicate(p)
  <2>1. CASE lease[att[p]] = {}
    BY <1>4, <2>1 DEF CheckDuplicate, Fail, LeaseStopsGet, TypeOK, GoTo, At, store, call
  <2>2. CASE lease[att[p]] # {}
    <3>1. /\ UNCHANGED <<lease, att, idx, todo>>
          /\ hits' = [hits EXCEPT ![p] = {}]
          /\ At(p, "get_by_id")
      BY <1>4 DEF CheckDuplicate, call
    <3>2. pc' = [pc EXCEPT ![p] = "exit"]
      BY <1>4, <2>2, DuplicateFound
    <3>3. QED
      BY <3>1, <3>2 DEF LeaseStopsGet, TypeOK, At
  <2>3. QED
    BY <2>1, <2>2
<1>5. CASE NewIter(p) \/ NextAddress(p) \/ Exists(p) \/ WriteFails(p)
  BY <1>5 DEF NewIter, NextAddress, Exists, WriteFails, Fail, LeaseStopsGet, TypeOK, Step, GoTo,
              At, store, call, scan, pick
<1>6. CASE ReleaseById(p)
  BY <1>6 DEF ReleaseById, NextRelease, LeaseStopsGet, TypeOK, WellFormed, GoTo, At, store, call
<1>7. QED
  BY <1>1, <1>2, <1>3, <1>4, <1>5, <1>6 DEF Quiet

LEMMA InvokeLeaseInv ==
  ASSUME SerialRuntime, TypeInv, LeaseInv,
         NEW p \in Proc, NEW a \in Att, NEW c \in Command, Invoke(p, a, c)
  PROVE  LeaseInv'
<1> USE DEF TypeInv, LeaseInv
<1>1. /\ At(p, "idle") /\ pc' = [pc EXCEPT ![p] = "lock"]
      /\ \A q \in Proc : att[q] # a
      /\ att' = [att EXCEPT ![p] = a]
      /\ UNCHANGED <<files, lease, idx, rel, todo, hits, path, iter, ips>>
  BY DEF Invoke, Step, GoTo, store, scan, pick
<1>2. OneProcPerAtt' /\ FileOfStep' /\ OneWriterPerFile'
  BY <1>1 DEF OneProcPerAtt, FileOfStep, OneWriterPerFile, TypeOK, At
<1>3. ReservedIsBacked' /\ LeaseStopsGet'
  BY <1>1 DEF ReservedIsBacked, LeaseStopsGet, TypeOK, WellFormed, Forward, At
<1>4. LeaseInFirstSet' /\ LeaseBacked'
  BY <1>1 DEF LeaseInFirstSet, LeaseBacked
<1>5. QED
  BY <1>2, <1>3, <1>4

\* A new file was nobody's before.
LEMMA CreateNewLeaseInv ==
  ASSUME TypeInv, LeaseInv, NEW p \in Proc, CreateNew(p)
  PROVE  LeaseInv'
<1> USE DEF TypeInv, LeaseInv
<1> DEFINE x == iter[p].cur
<1>1. /\ At(p, "create_new") /\ x \in Addr
      /\ UNCHANGED <<last, lease, att, idx, todo, hits, path, iter, ips>>
  BY CurIsAddr DEF CreateNew, At, Reserving, call, scan, pick
<1>2. CASE files[x] # NoFile
  <2>1. Fail(p, "create_failed") /\ UNCHANGED files
    BY <1>2 DEF CreateNew
  <2>2. pc'[p] \in {"exit", "lock"} /\ (Forward(p)' => Forward(p))
    BY <1>1, <2>1 DEF Fail, GoTo, TypeOK, At, Forward, WellFormed, Walking, Releasing
  <2>3. \A q \in Proc : q # p => UNCHANGED <<pc[q], rel[q], iter[q], path[q]>>
    BY <1>1, <2>1 DEF Fail, GoTo, TypeOK
  <2>4. LeaseStopsGet'
    BY <1>1, <2>1 DEF Fail, GoTo, LeaseStopsGet, TypeOK, At
  <2>5. QED
    BY <1>1, <2>1, <2>2, <2>3, <2>4, QuietStep
<1>3. CASE files[x] = NoFile
  <2>1. /\ files' = [files EXCEPT ![x] = Blank]
        /\ pc' = [pc EXCEPT ![p] = "write_id"]
        /\ UNCHANGED rel
    BY <1>3 DEF CreateNew, GoTo
  <2>2. /\ \A a \in Att, y \in Addr : files[y] = a => files'[y] = a
        /\ \A y \in Addr : files[y] = Blank => y # x /\ files'[y] = Blank
    BY <1>1, <1>3, <2>1, SentinelAssumption DEF TypeOK
  <2>3. \A q \in Proc : ~At(q, "idle") => att[q] \in Att
    BY RangeSetUsable
  <2>4. FileOfStep'
    <3>1. ASSUME NEW q \in Proc, q # p
          PROVE  /\ At(q, "write_id")' => files'[iter'[q].cur] = Blank
                 /\ At(q, "write_last")' => files'[iter'[q].cur] = att'[q]
                 /\ At(q, "remove_file")' => files'[path'[q]] = att'[q]
      <4>1. /\ At(q, "write_id") \/ At(q, "write_last") => iter[q].cur \in Addr
            /\ At(q, "remove_file") => path[q] \in Addr
        BY CurIsAddr DEF At, Reserving, TypeOK, WellFormed
      <4>2. At(q, "write_id")' = At(q, "write_id") /\ At(q, "write_last")' = At(q, "write_last")
            /\ At(q, "remove_file")' = At(q, "remove_file")
        BY <2>1, <3>1 DEF At, TypeOK
      <4>3. QED
        BY <1>1, <2>2, <2>3, <4>1, <4>2 DEF FileOfStep, At
    <3>2. /\ files'[iter'[p].cur] = Blank
          /\ pc'[p] = "write_id"
      BY <1>1, <2>1 DEF TypeOK
    <3>3. QED
      BY <3>1, <3>2 DEF FileOfStep, At
  <2>5. OneWriterPerFile'
    BY <1>1, <2>1, <2>2, CurIsAddr DEF OneWriterPerFile, FileOfStep, TypeOK, At, Reserving
  <2>6. ReservedIsBacked'
    BY <1>1, <2>1, <2>2, <2>3 DEF ReservedIsBacked, Forward, TypeOK, At
  <2>7. LeaseStopsGet'
    BY <1>1, <2>1 DEF LeaseStopsGet, TypeOK, At
  <2>8. OneProcPerAtt' /\ LeaseInFirstSet' /\ LeaseBacked'
    BY <1>1, <2>2 DEF OneProcPerAtt, LeaseInFirstSet, LeaseBacked, TypeOK
  <2>9. QED
    BY <2>4, <2>5, <2>6, <2>7, <2>8
<1>4. QED
  BY <1>2, <1>3

\* The file p names was empty, so nobody's.
LEMMA WriteIdLeaseInv ==
  ASSUME TypeInv, LeaseInv, NEW p \in Proc, WriteId(p)
  PROVE  LeaseInv'
<1> USE DEF TypeInv, LeaseInv
<1> DEFINE x == iter[p].cur
<1>1. /\ At(p, "write_id") /\ x \in Addr /\ att[p] \in Att
      /\ files[x] = Blank
      /\ files' = [files EXCEPT ![x] = att[p]]
      /\ pc' = [pc EXCEPT ![p] = "write_last"]
      /\ UNCHANGED <<last, lease, att, idx, rel, todo, hits, path, iter, ips>>
  BY CurIsAddr, RangeSetUsable DEF WriteId, Step, GoTo, At, Reserving, call, scan, pick, FileOfStep
<1>2. \A a \in Att, y \in Addr : files[y] = a => files'[y] = a
  BY <1>1, SentinelAssumption DEF TypeOK
<1>3. \A q \in Proc : ~At(q, "idle") => att[q] \in Att
  BY RangeSetUsable
<1>4. FileOfStep'
  <2>1. ASSUME NEW q \in Proc, q # p
        PROVE  /\ At(q, "write_id")' => files'[iter'[q].cur] = Blank
               /\ At(q, "write_last")' => files'[iter'[q].cur] = att'[q]
               /\ At(q, "remove_file")' => files'[path'[q]] = att'[q]
    <3>1. /\ At(q, "write_id") \/ At(q, "write_last") => iter[q].cur \in Addr
          /\ At(q, "remove_file") => path[q] \in Addr
      BY CurIsAddr DEF At, Reserving, TypeOK, WellFormed
    <3>2. At(q, "write_id")' = At(q, "write_id") /\ At(q, "write_last")' = At(q, "write_last")
          /\ At(q, "remove_file")' = At(q, "remove_file")
      BY <1>1, <2>1 DEF At, TypeOK
    <3>3. At(q, "write_id") => iter[q].cur # x
      BY <1>1, <2>1 DEF OneWriterPerFile
    <3>4. QED
      BY <1>1, <1>2, <1>3, <3>1, <3>2, <3>3 DEF FileOfStep, At, TypeOK
  <2>2. files'[iter'[p].cur] = att'[p] /\ pc'[p] = "write_last"
    BY <1>1 DEF TypeOK
  <2>3. QED
    BY <2>1, <2>2 DEF FileOfStep, At
<1>5. OneWriterPerFile'
  BY <1>1 DEF OneWriterPerFile, TypeOK, At
<1>6. ReservedIsBacked'
  BY <1>1, <1>2, <1>3 DEF ReservedIsBacked, Forward, TypeOK, At
<1>7. LeaseStopsGet'
  BY <1>1 DEF LeaseStopsGet, TypeOK, At
<1>8. OneProcPerAtt' /\ LeaseInFirstSet' /\ LeaseBacked'
  BY <1>1, <1>2 DEF OneProcPerAtt, LeaseInFirstSet, LeaseBacked, TypeOK
<1>9. QED
  BY <1>4, <1>5, <1>6, <1>7, <1>8

\* The first address reserved is one of the first range set.
LEMMA WriteLastLeaseInv ==
  ASSUME TypeInv, LeaseInv, NEW p \in Proc, WriteLast(p)
  PROVE  LeaseInv'
<1> USE DEF TypeInv, LeaseInv
<1> DEFINE x == iter[p].cur
<1>1. /\ At(p, "write_last") /\ x \in Addr /\ att[p] \in Att
      /\ files[x] = att[p]
      /\ lease[att[p]] = {}
      /\ rel[p] = 0
      /\ ips' = [ips EXCEPT ![p] = @ \cup {x}]
      /\ UNCHANGED <<files, lease, att, rel, todo, hits, path>>
      /\ \A q \in Proc : q # p => UNCHANGED <<pc[q], idx[q], iter[q], ips[q]>>
  <2>1. At(p, "write_last") /\ x \in Addr /\ att[p] \in Att
    BY CurIsAddr, RangeSetUsable DEF WriteLast, At, Reserving
  <2>2. files[x] = att[p] /\ lease[att[p]] = {} /\ rel[p] = 0
    BY <2>1 DEF At, FileOfStep, LeaseStopsGet, TypeOK, WellFormed, Walking, Releasing
  <2>3. /\ ips' = [ips EXCEPT ![p] = @ \cup {x}]
        /\ UNCHANGED <<files, lease, att, rel, todo, hits, path>>
    BY DEF WriteLast, call, scan
  <2>4. \A q \in Proc : q # p => UNCHANGED <<pc[q], idx[q], iter[q], ips[q]>>
    BY DEF WriteLast, GoTo, TypeOK
  <2>5. QED
    BY <2>1, <2>2, <2>3, <2>4
<1>2. pc'[p] \in {"lock", "reply"} /\ att'[p] = att[p]
  BY <1>1 DEF WriteLast, GoTo, TypeOK
<1>3. ContainsIp(RangeSet(p), x)
  BY <1>1 DEF WellFormed, InItsRange, ContainsIp, At, Picking, Reserving, Addr, NoIp
<1>4. \E y \in ips'[p] : ContainsIp(Conf[att[p]][1], y)
  <2>1. CASE idx[p] = 1
    BY <1>1, <1>3, <2>1 DEF RangeSet, TypeOK
  <2>2. CASE idx[p] > 1
    BY <1>1, <2>2 DEF ReservedIsBacked, Forward, At, TypeOK
  <2>3. QED
    BY <2>1, <2>2 DEF TypeOK
<1>5. ReservedIsBacked'
  <2>1. \A y \in ips'[p] : files'[y] = att'[p]
    BY <1>1, <1>2 DEF ReservedIsBacked, Forward, At, TypeOK
  <2>2. ASSUME NEW q \in Proc, q # p, Forward(q)'
        PROVE  /\ \A y \in ips'[q] : files'[y] = att'[q]
               /\ idx'[q] > 1 \/ At(q, "reply")' =>
                    \E y \in ips'[q] : ContainsIp(Conf[att'[q]][1], y)
    BY <1>1, <2>2 DEF ReservedIsBacked, Forward, At
  <2>3. QED
    BY <1>2, <1>4, <2>1, <2>2 DEF ReservedIsBacked
<1>6. LeaseStopsGet'
  BY <1>1, <1>2 DEF LeaseStopsGet, At
<1>7. FileOfStep' /\ OneWriterPerFile'
  BY <1>1, <1>2 DEF FileOfStep, OneWriterPerFile, At
<1>8. OneProcPerAtt' /\ LeaseInFirstSet' /\ LeaseBacked'
  BY <1>1 DEF OneProcPerAtt, LeaseInFirstSet, LeaseBacked
<1>9. QED
  BY <1>5, <1>6, <1>7, <1>8

LEMMA ReleaseByIdLeaseInv ==
  ASSUME TypeInv, LeaseInv, NEW p \in Proc, ReleaseById(p), pc'[p] = "remove_file"
  PROVE  LeaseInv'
<1> USE DEF TypeInv, LeaseInv
<1>1. PICK x \in todo[p] : /\ files[x] = att[p]
                           /\ path' = [path EXCEPT ![p] = x]
                           /\ pc' = [pc EXCEPT ![p] = "remove_file"]
                           /\ todo' = [todo EXCEPT ![p] = @ \ {x}]
                           /\ UNCHANGED rel
  BY DEF ReleaseById, NextRelease, GoTo, At, TypeOK
<1>2. /\ At(p, "release_by_id") /\ rel[p] > 0
      /\ UNCHANGED <<files, lease, att, idx, hits, iter, ips>>
  BY DEF ReleaseById, At, store, call, pick, WellFormed, Releasing
<1>3. FileOfStep' /\ OneWriterPerFile'
  BY <1>1, <1>2 DEF FileOfStep, OneWriterPerFile, At, TypeOK
<1>4. ReservedIsBacked'
  BY <1>1, <1>2 DEF ReservedIsBacked, Forward, At, TypeOK
<1>5. LeaseStopsGet'
  BY <1>1, <1>2 DEF LeaseStopsGet, At, TypeOK
<1>6. OneProcPerAtt' /\ LeaseInFirstSet' /\ LeaseBacked'
  BY <1>2 DEF OneProcPerAtt, LeaseInFirstSet, LeaseBacked
<1>7. QED
  BY <1>3, <1>4, <1>5, <1>6

\* The file removed is p's own, and no other process works for p's attachment.
LEMMA RemoveFileLeaseInv ==
  ASSUME TypeInv, LeaseInv, NEW p \in Proc, RemoveFile(p)
  PROVE  LeaseInv'
<1> USE DEF TypeInv, LeaseInv
<1> DEFINE x == path[p]
<1>1. /\ At(p, "remove_file") /\ x \in Addr /\ att[p] \in Att /\ rel[p] > 0
      /\ files[x] = att[p]
      /\ UNCHANGED <<last, lease, att, idx, hits, iter, ips>>
  BY RangeSetUsable DEF RemoveFile, At, FileOfStep, TypeOK, WellFormed, call, pick, Releasing
<1>2. /\ files' = [files EXCEPT ![x] = NoFile]
      /\ pc' = [pc EXCEPT ![p] = "release_by_id"]
      /\ path' = [path EXCEPT ![p] = NoIp]
      /\ UNCHANGED <<rel, todo>>
  BY <1>1, SentinelAssumption DEF RemoveFile, GoTo
<1>3. lease[att[p]] = {}
  BY <1>1 DEF LeaseStopsGet, At, WellFormed
<1>4. \A y \in Addr : files[y] # att[p] => files'[y] = files[y]
  BY <1>1, <1>2 DEF TypeOK
<1>5. \A q \in Proc : ~At(q, "idle") /\ q # p => att[q] \in Att /\ att[q] # att[p]
  BY <1>1, RangeSetUsable DEF OneProcPerAtt, WellFormed
<1>6. FileOfStep'
  <2>1. ASSUME NEW q \in Proc, q # p
        PROVE  /\ At(q, "write_id")' => files'[iter'[q].cur] = Blank
               /\ At(q, "write_last")' => files'[iter'[q].cur] = att'[q]
               /\ At(q, "remove_file")' => files'[path'[q]] = att'[q]
    <3>1. /\ At(q, "write_id") \/ At(q, "write_last") => iter[q].cur \in Addr
          /\ At(q, "remove_file") => path[q] \in Addr
      BY CurIsAddr DEF At, Reserving, TypeOK, WellFormed
    <3>2. /\ At(q, "write_id")' = At(q, "write_id") /\ At(q, "write_last")' = At(q, "write_last")
          /\ At(q, "remove_file")' = At(q, "remove_file")
          /\ path'[q] = path[q]
      BY <1>2, <2>1 DEF At, TypeOK
    <3>3. QED
      BY <1>1, <1>4, <1>5, <2>1, <3>1, <3>2, SentinelAssumption DEF FileOfStep, At
  <2>2. pc'[p] = "release_by_id"
    BY <1>2 DEF TypeOK
  <2>3. QED
    BY <2>1, <2>2 DEF FileOfStep, At
<1>7. OneWriterPerFile'
  BY <1>1, <1>2 DEF OneWriterPerFile, At, TypeOK
<1>8. ReservedIsBacked'
  BY <1>1, <1>2, <1>4, <1>5 DEF ReservedIsBacked, Forward, At, TypeOK
<1>9. LeaseStopsGet'
  BY <1>1, <1>2 DEF LeaseStopsGet, At, TypeOK
<1>10. OneProcPerAtt' /\ LeaseInFirstSet' /\ LeaseBacked'
  BY <1>1, <1>3, <1>4 DEF OneProcPerAtt, LeaseInFirstSet, LeaseBacked, TypeOK
<1>11. QED
  BY <1>6, <1>7, <1>8, <1>9, <1>10

\* The lease that Reply grants is what its process reserved.
LEMMA EndedLeaseInv ==
  ASSUME TypeInv, LeaseInv, NEW p \in Proc, ~At(p, "idle"), Ended(p), UNCHANGED store,
         \/ lease' = LeaseAfter(p, {})
         \/ At(p, "reply") /\ lease' = LeaseAfter(p, ips[p])
  PROVE  LeaseInv'
<1> USE DEF TypeInv, LeaseInv
<1>1. att[p] \in Att
  BY RangeSetUsable
<1>2. /\ pc' = [pc EXCEPT ![p] = "idle"]
      /\ att' = [att EXCEPT ![p] = NoAtt]
      /\ UNCHANGED <<files, last>>
      /\ \A q \in Proc : q # p => UNCHANGED <<idx[q], rel[q], todo[q], hits[q], path[q], iter[q], ips[q]>>
  BY DEF Ended, GoTo, store, TypeOK
<1>3. \/ lease' = lease
      \/ lease' = [lease EXCEPT ![att[p]] = {}]
      \/ /\ lease' = [lease EXCEPT ![att[p]] = ips[p]]
         /\ \A x \in ips[p] : files[x] = att[p]
         /\ \E x \in ips[p] : ContainsIp(Conf[att[p]][1], x)
  <2>1. At(p, "reply") => Forward(p)
    BY DEF At, Forward, TypeOK, WellFormed, Walking, Releasing
  <2>2. QED
    BY <2>1 DEF LeaseAfter, ReservedIsBacked
<1>4. OneProcPerAtt' /\ FileOfStep' /\ OneWriterPerFile'
  BY <1>2 DEF OneProcPerAtt, FileOfStep, OneWriterPerFile, At, TypeOK
<1>5. ReservedIsBacked'
  BY <1>2 DEF ReservedIsBacked, Forward, At, TypeOK
<1>6. LeaseStopsGet'
  <2>1. \A q \in Proc : q # p /\ ~At(q, "idle") => att[q] # att[p]
    BY <1>1 DEF OneProcPerAtt, WellFormed
  <2>2. \A a \in Att : a # att[p] => lease'[a] = lease[a]
    BY <1>3 DEF TypeOK
  <2>3. QED
    BY <1>2, <2>1, <2>2, RangeSetUsable DEF LeaseStopsGet, At, TypeOK
<1>7. LeaseInFirstSet' /\ LeaseBacked'
  BY <1>1, <1>2, <1>3 DEF LeaseInFirstSet, LeaseBacked, TypeOK
<1>8. QED
  BY <1>4, <1>5, <1>6, <1>7

LEMMA NextLeaseInv ==
  SerialRuntime /\ TypeInv /\ LeaseInv /\ [Next]_vars => LeaseInv'
<1> SUFFICES ASSUME SerialRuntime, TypeInv, LeaseInv, [Next]_vars PROVE LeaseInv'
  OBVIOUS
<1>1. ASSUME NEW p \in Proc, NEW a \in Att, NEW c \in Command, Invoke(p, a, c)
      PROVE  LeaseInv'
  BY <1>1, InvokeLeaseInv
<1>2. ASSUME NEW p \in Proc, Run(p) \/ Crash(p)
      PROVE  LeaseInv'
  <2>1. CASE Quiet(p)
    BY <2>1, QuietActions, QuietLeaseStopsGet DEF LeaseInv
  <2>2. CASE ReleaseById(p) /\ pc'[p] = "remove_file"
    BY <2>2, ReleaseByIdLeaseInv
  <2>3. CASE CreateNew(p) \/ WriteId(p) \/ WriteLast(p) \/ RemoveFile(p)
    BY <2>3, CreateNewLeaseInv, WriteIdLeaseInv, WriteLastLeaseInv, RemoveFileLeaseInv
  <2>4. CASE Reply(p) \/ Exit(p) \/ Crash(p)
    <3>1. ~At(p, "idle") /\ Ended(p) /\ UNCHANGED store
      BY <2>4 DEF Reply, Exit, Crash, At
    <3>2. \/ lease' = LeaseAfter(p, {})
          \/ At(p, "reply") /\ lease' = LeaseAfter(p, ips[p])
      BY <2>4 DEF Reply, Exit, Crash
    <3>3. QED
      BY <3>1, <3>2, EndedLeaseInv
  <2>5. QED
    BY <1>2, <2>1, <2>2, <2>3, <2>4 DEF Run, Quiet
<1>3. CASE UNCHANGED vars
  BY <1>3 DEF vars, LeaseInv, OneProcPerAtt, FileOfStep, OneWriterPerFile, ReservedIsBacked,
              LeaseStopsGet, LeaseInFirstSet, LeaseBacked, Forward, At
<1>4. QED
  BY <1>1, <1>2, <1>3 DEF Next

\* The inductive invariant of the leases, from which the two below follow:
\* a process that works for an attachment with a lease stops at its first
\* check for duplicates, so that no rollback ever meets a lease
\* (allocator.rs:61-70, main.rs:74-79, disk.rs:31-108).
THEOREM LeasesSafe == SerialRuntime => (Spec => []LeaseInv)
<1> SUFFICES ASSUME SerialRuntime PROVE Spec => []LeaseInv
  OBVIOUS
<1>1. Init => LeaseInv
  BY InitLeaseInv
<1>2. TypeInv /\ LeaseInv /\ [Next]_vars => LeaseInv'
  BY NextLeaseInv
<1>3. QED
  BY <1>1, <1>2, TypeCorrect, PTL DEF Spec

\* An address in use stays reserved under its attachment's name.
THEOREM LeasesBacked == SerialRuntime => (Spec => []LeaseBacked)
<1>1. LeaseInv => LeaseBacked
  BY DEF LeaseInv
<1>2. QED
  BY <1>1, LeasesSafe, PTL

\* No address is in use by two attachments, with the flock dropped at once
\* and the store shared by networks.
THEOREM LeasesExclusive == SerialRuntime => (Spec => []LeaseExclusive)
<1>1. LeaseInv => LeaseExclusive
  BY DEF LeaseInv, LeaseBacked, LeaseExclusive
<1>2. QED
  BY <1>1, LeasesSafe, PTL

\* Every variable keeps its type.
THEOREM TypesKept == Spec => []TypeOK
<1>1. TypeInv => TypeOK
  BY DEF TypeInv
<1>2. QED
  BY <1>1, TypeCorrect, PTL

----------------------------------------------------------------------------
(* HostLocal implements IpPool.                                            *)

\* p has created the file of x and not yet written it.
Writes(p, x) == At(p, "write_id") /\ iter[p].cur = x

----------------------------------------------------------------------------
(* The refinement mapping.                                                 *)

LEMMA OwnerIsWriter ==
  ASSUME OneWriterPerFile, NEW p \in Proc, NEW x \in Addr, Writes(p, x)
  PROVE  Owner[x] = att[p]
<1> DEFINE q == CHOOSE r \in Proc : At(r, "write_id") /\ iter[r].cur = x
<1>1. q \in Proc /\ At(q, "write_id") /\ iter[q].cur = x
  BY Zenon DEF Writes
<1>2. q = p
  BY <1>1 DEF OneWriterPerFile, Writes
<1>3. Owner[x] = att[q]
  BY Zenon DEF Writes, Owner
<1>4. QED
  BY <1>2, <1>3

LEMMA OwnerIsFile ==
  ASSUME NEW x \in Addr, \A p \in Proc : ~Writes(p, x)
  PROVE  Owner[x] = files[x]
BY Zenon DEF Writes, Owner

LEMMA NextOwnerIsWriter ==
  ASSUME OneWriterPerFile', NEW p \in Proc, NEW x \in Addr, Writes(p, x)'
  PROVE  Owner'[x] = att'[p]
<1> DEFINE q == CHOOSE r \in Proc : pc'[r] = "write_id" /\ iter'[r].cur = x
<1>1. q \in Proc /\ pc'[q] = "write_id" /\ iter'[q].cur = x
  BY Zenon DEF Writes, At
<1>2. q = p
  BY <1>1 DEF OneWriterPerFile, Writes, At
<1>3. Owner'[x] = att'[q]
  BY Zenon DEF Writes, Owner, At
<1>4. QED
  BY <1>2, <1>3

LEMMA NextOwnerIsFile ==
  ASSUME NEW x \in Addr, \A p \in Proc : ~Writes(p, x)'
  PROVE  Owner'[x] = files'[x]
BY Zenon DEF Writes, Owner, At

\* A step that leaves a file and its writers alone leaves its owner alone.
LEMMA SameOwner ==
  ASSUME OneWriterPerFile, OneWriterPerFile', NEW x \in Addr,
         files'[x] = files[x],
         \A p \in Proc : /\ Writes(p, x)' <=> Writes(p, x)
                         /\ Writes(p, x) => att'[p] = att[p]
  PROVE  Owner'[x] = Owner[x]
<1>1. CASE \E p \in Proc : Writes(p, x)
  BY <1>1, OwnerIsWriter, NextOwnerIsWriter
<1>2. CASE \A p \in Proc : ~Writes(p, x)
  BY <1>2, OwnerIsFile, NextOwnerIsFile
<1>3. QED
  BY <1>1, <1>2

LEMMA OwnerFunction ==
  /\ Owner = [x \in Addr |-> Owner[x]]
  /\ Owner' = [x \in Addr |-> Owner'[x]]
  /\ DOMAIN Owner = Addr
BY DEF Owner

\* A step of p that changes neither files nor leases, does not end p, and has
\* p at write_id neither before nor after it.
LEMMA StutterOfPool ==
  ASSUME OneWriterPerFile, OneWriterPerFile', NEW p \in Proc,
         UNCHANGED <<files, lease>>,
         ~At(p, "write_id"), ~At(p, "write_id")',
         \A q \in Proc : q # p => UNCHANGED <<pc[q], iter[q], att[q]>>
  PROVE  UNCHANGED <<Owner, lease>>
<1>1. \A x \in Addr : Owner'[x] = Owner[x]
  BY SameOwner DEF Writes, At
<1>2. QED
  BY <1>1, OwnerFunction, Zenon

\* A step that changes the owner of x alone.
LEMMA OneOwner ==
  ASSUME OneWriterPerFile, OneWriterPerFile', NEW p \in Proc, NEW x \in Addr, NEW o,
         Owner'[x] = o,
         \A y \in Addr : y # x => files'[y] = files[y],
         \A q \in Proc, y \in Addr : y # x =>
            /\ Writes(q, y)' <=> Writes(q, y)
            /\ Writes(q, y) => att'[q] = att[q]
  PROVE  Owner' = [Owner EXCEPT ![x] = o]
<1>1. \A y \in Addr : y # x => Owner'[y] = Owner[y]
  BY SameOwner
<1>2. [Owner EXCEPT ![x] = o] = [y \in Addr |-> IF y = x THEN o ELSE Owner[y]]
  BY OwnerFunction
<1>3. QED
  BY <1>1, <1>2, OwnerFunction

----------------------------------------------------------------------------
(* The steps that map to a step of IpPool.                                 *)

\* Nobody's file becomes the creator's.
LEMMA CreateTakes ==
  ASSUME TypeInv, LeaseInv, LeaseInv', NEW p \in Proc, CreateNew(p)
  PROVE  [Pool!Next]_<<Owner, lease>>
<1> USE DEF LeaseInv
<1>0. PICK x \in Addr : x = iter[p].cur
  BY CurIsAddr DEF CreateNew, At, Reserving
<1>1. /\ At(p, "create_new") /\ att[p] \in Att
      /\ UNCHANGED <<lease, att, iter>>
      /\ pc' = [pc EXCEPT ![p] = pc'[p]]
  BY RangeSetUsable DEF CreateNew, Fail, GoTo, At, call, pick, TypeInv, TypeOK
<1>2. CASE files[x] = NoFile
  <2>1. /\ files' = [files EXCEPT ![x] = Blank]
        /\ pc'[p] = "write_id"
    BY <1>0, <1>1, <1>2 DEF CreateNew, GoTo, TypeInv, TypeOK
  <2>2. \A q \in Proc : ~Writes(q, x)
    BY <1>2, SentinelAssumption DEF Writes, FileOfStep
  <2>3. Owner[x] = NoFile
    BY <1>1, <1>2, <2>2, OwnerIsFile
  <2>4. Owner'[x] = att[p]
    BY <1>0, <1>1, <2>1, NextOwnerIsWriter DEF Writes, At
  <2>5. Owner' = [Owner EXCEPT ![x] = att[p]]
    <3>1. \A y \in Addr : y # x => files'[y] = files[y]
      BY <2>1 DEF TypeInv, TypeOK
    <3>2. \A q \in Proc, y \in Addr : y # x =>
            /\ Writes(q, y)' <=> Writes(q, y)
            /\ Writes(q, y) => att'[q] = att[q]
      BY <1>0, <1>1 DEF Writes, At, TypeInv, TypeOK
    <3>3. QED
      BY <1>1, <2>4, <3>1, <3>2, OneOwner
  <2>6. Pool!Take(att[p], x)
    BY <1>1, <2>3, <2>5 DEF Pool!Take
  <2>7. QED
    BY <1>1, <2>6 DEF Pool!Next
<1>3. CASE files[x] # NoFile
  <2>1. UNCHANGED files /\ ~At(p, "write_id") /\ ~At(p, "write_id")'
    BY <1>0, <1>1, <1>3 DEF CreateNew, Fail, GoTo, At, TypeInv, TypeOK
  <2>2. \A q \in Proc : q # p => UNCHANGED <<pc[q], iter[q], att[q]>>
    BY <1>1 DEF TypeInv, TypeOK
  <2>3. QED
    BY <1>1, <2>1, <2>2, StutterOfPool
<1>4. QED
  BY <1>2, <1>3

\* The writer's name is what the mapping already says.
LEMMA WriteIdStutters ==
  ASSUME TypeInv, LeaseInv, LeaseInv', NEW p \in Proc, WriteId(p)
  PROVE  UNCHANGED <<Owner, lease>>
<1> USE DEF LeaseInv
<1>0. PICK x \in Addr : x = iter[p].cur
  BY CurIsAddr DEF WriteId, Step, At, Reserving
<1>1. /\ At(p, "write_id")
      /\ files' = [files EXCEPT ![x] = att[p]]
      /\ pc' = [pc EXCEPT ![p] = "write_last"]
      /\ UNCHANGED <<lease, att, iter>>
  BY <1>0 DEF WriteId, Step, GoTo, call, pick
<1>2. Owner[x] = att[p]
  BY <1>0, <1>1, OwnerIsWriter DEF Writes
<1>3. \A q \in Proc : ~Writes(q, x)'
  BY <1>0, <1>1 DEF Writes, At, OneWriterPerFile, TypeInv, TypeOK
<1>4. Owner'[x] = att[p]
  BY <1>1, <1>3, NextOwnerIsFile DEF TypeInv, TypeOK
<1>5. Owner' = [Owner EXCEPT ![x] = att[p]]
  <2>1. \A y \in Addr : y # x => files'[y] = files[y]
    BY <1>1 DEF TypeInv, TypeOK
  <2>2. \A q \in Proc, y \in Addr : y # x =>
          /\ Writes(q, y)' <=> Writes(q, y)
          /\ Writes(q, y) => att'[q] = att[q]
    BY <1>0, <1>1 DEF Writes, At, TypeInv, TypeOK
  <2>3. QED
    BY <1>1, <1>4, <2>1, <2>2, OneOwner
<1>6. QED
  BY <1>1, <1>2, <1>5, OwnerFunction

\* A writer that stops leaves a file that is nobody's; it had no lease.
LEMMA StoppedWriterStrands ==
  ASSUME TypeInv, LeaseInv, LeaseInv', NEW p \in Proc, At(p, "write_id"), ~At(p, "write_id")',
         UNCHANGED <<files, lease>>,
         \A q \in Proc : q # p => UNCHANGED <<pc[q], iter[q], att[q]>>
  PROVE  Pool!Next
<1> USE DEF LeaseInv
<1>0. PICK x \in Addr : x = iter[p].cur
  BY CurIsAddr DEF At, Reserving
<1>1. att[p] \in Att /\ files[x] = Blank /\ lease[att[p]] = {}
  BY <1>0, RangeSetUsable DEF At, TypeInv, FileOfStep, LeaseStopsGet
<1>2. Owner[x] = att[p]
  BY <1>0, OwnerIsWriter DEF Writes
<1>3. \A q \in Proc : ~Writes(q, x)'
  BY <1>0 DEF Writes, At, OneWriterPerFile
<1>4. Owner'[x] = Blank
  BY <1>1, <1>3, NextOwnerIsFile
<1>5. Owner' = [Owner EXCEPT ![x] = Blank]
  <2>1. \A q \in Proc, y \in Addr : y # x =>
          /\ Writes(q, y)' <=> Writes(q, y)
          /\ Writes(q, y) => att'[q] = att[q]
    BY <1>0 DEF Writes, At
  <2>2. QED
    BY <1>1, <1>4, <2>1, OneOwner
<1>6. Pool!Strand(att[p], x)
  BY <1>1, <1>2, <1>5 DEF Pool!Strand
<1>7. QED
  BY <1>1, <1>6 DEF Pool!Next

\* Only an attachment without a lease gives an address back.
LEMMA RemoveGivesBack ==
  ASSUME TypeInv, LeaseInv, LeaseInv', NEW p \in Proc, RemoveFile(p)
  PROVE  Pool!Next
<1> USE DEF LeaseInv
<1>0. PICK x \in Addr : x = path[p]
  BY DEF RemoveFile, At, TypeInv, TypeOK, WellFormed
<1>1. /\ At(p, "remove_file") /\ att[p] \in Att
      /\ files[x] = att[p]
      /\ UNCHANGED <<lease, att, iter>>
  BY <1>0, RangeSetUsable DEF RemoveFile, At, FileOfStep, TypeInv, TypeOK, WellFormed, call, pick
<1>2. /\ files' = [files EXCEPT ![x] = NoFile]
      /\ pc' = [pc EXCEPT ![p] = "release_by_id"]
  BY <1>0, <1>1, SentinelAssumption DEF RemoveFile, GoTo, TypeInv, TypeOK
<1>3. lease[att[p]] = {}
  BY <1>1 DEF LeaseStopsGet, At
<1>4. \A q \in Proc : ~Writes(q, x) /\ ~Writes(q, x)'
  BY <1>1, <1>2, SentinelAssumption DEF Writes, At, FileOfStep, TypeInv, TypeOK
<1>5. Owner[x] = att[p] /\ Owner'[x] = NoFile
  BY <1>1, <1>2, <1>4, OwnerIsFile, NextOwnerIsFile DEF TypeInv, TypeOK
<1>6. Owner' = [Owner EXCEPT ![x] = NoFile]
  <2>1. \A y \in Addr : y # x => files'[y] = files[y]
    BY <1>2 DEF TypeInv, TypeOK
  <2>2. \A q \in Proc, y \in Addr : y # x =>
          /\ Writes(q, y)' <=> Writes(q, y)
          /\ Writes(q, y) => att'[q] = att[q]
    BY <1>1, <1>2 DEF Writes, At, TypeInv, TypeOK
  <2>3. QED
    BY <1>1, <1>5, <2>1, <2>2, OneOwner
<1>7. Pool!GiveBack(att[p], x)
  BY <1>1, <1>3, <1>5, <1>6 DEF Pool!GiveBack
<1>8. QED
  BY <1>1, <1>7 DEF Pool!Next

\* What Reply grants is the attachment's own.
LEMMA EndedGrantsOrDrops ==
  ASSUME TypeInv, LeaseInv, LeaseInv', NEW p \in Proc, ~At(p, "idle"), Ended(p), UNCHANGED store,
         \/ lease' = LeaseAfter(p, {})
         \/ At(p, "reply") /\ lease' = LeaseAfter(p, ips[p])
  PROVE  [Pool!Next]_<<Owner, lease>>
<1> USE DEF LeaseInv
<1>1. /\ att[p] \in Att
      /\ UNCHANGED files
      /\ ~At(p, "write_id")'
      /\ \A q \in Proc : q # p => UNCHANGED <<pc[q], iter[q], att[q]>>
  BY RangeSetUsable DEF Ended, GoTo, At, store, TypeInv, TypeOK
<1>2. CASE At(p, "write_id")
  <2>1. lease[att[p]] = {} /\ lease' = LeaseAfter(p, {})
    BY <1>1, <1>2 DEF LeaseStopsGet, At
  <2>2. lease' = lease
    BY <1>1, <2>1 DEF LeaseAfter, TypeInv, TypeOK
  <2>3. QED
    BY <1>1, <1>2, <2>2, StoppedWriterStrands
<1>3. CASE ~At(p, "write_id")
  <2>1. Owner' = Owner
    <3>1. \A x \in Addr : Owner'[x] = Owner[x]
      BY <1>1, <1>3, SameOwner DEF Writes, At
    <3>2. QED
      BY <3>1, OwnerFunction, Zenon
  <2>2. CASE lease' = lease
    BY <2>1, <2>2
  <2>3. CASE lease' = [lease EXCEPT ![att[p]] = {}]
    <3>1. Pool!Drop(att[p])
      BY <2>1, <2>3 DEF Pool!Drop
    <3>2. QED
      BY <1>1, <3>1 DEF Pool!Next
  <2>4. CASE At(p, "reply") /\ ips[p] # {} /\ lease' = [lease EXCEPT ![att[p]] = ips[p]]
    <3>1. Forward(p) /\ lease[att[p]] = {}
      BY <1>1, <2>4 DEF At, Forward, LeaseStopsGet, TypeInv, TypeOK, WellFormed, Walking, Releasing
    <3>2. \A x \in ips[p] : x \in Addr /\ files[x] = att[p]
      BY <3>1 DEF ReservedIsBacked, TypeInv, TypeOK
    <3>3. ASSUME NEW x \in ips[p] PROVE x \in Addr /\ Owner[x] = att[p]
      <4>1. \A q \in Proc : ~Writes(q, x)
        BY <1>1, <3>2, SentinelAssumption DEF Writes, FileOfStep
      <4>2. QED
        BY <3>2, <4>1, OwnerIsFile
    <3>4. ips[p] \in SUBSET Pool!Held(att[p])
      BY <3>3 DEF Pool!Held
    <3>5. Pool!Grant(att[p], ips[p])
      BY <2>1, <2>4, <3>1 DEF Pool!Grant
    <3>6. QED
      BY <1>1, <3>4, <3>5 DEF Pool!Next
  <2>5. QED
    BY <2>2, <2>3, <2>4 DEF LeaseAfter
<1>4. QED
  BY <1>2, <1>3

----------------------------------------------------------------------------
(* All steps.                                                              *)

\* The rest of a get or release changes nothing that IpPool knows of.
LEMMA OtherStepStutters ==
  ASSUME TypeInv, LeaseInv, LeaseInv', NEW p \in Proc,
         \/ NewLock(p) \/ DropLock(p) \/ ReadDir(p) \/ GetById(p) \/ CheckDuplicate(p)
         \/ NewIter(p) \/ NextAddress(p) \/ Exists(p) \/ WriteLast(p) \/ ReleaseById(p)
  PROVE  UNCHANGED <<Owner, lease>>
<1>1. UNCHANGED <<files, lease, att>>
  BY DEF NewLock, DropLock, ReadDir, GetById, CheckDuplicate, NewIter, NextAddress, Exists,
         WriteLast, ReleaseById, store, call
<1>2. ~At(p, "write_id") /\ ~At(p, "write_id")'
  BY DEF NewLock, DropLock, ReadDir, GetById, CheckDuplicate, NewIter, NextAddress, Exists,
         WriteLast, ReleaseById, NextRelease, Fail, Step, GoTo, At, TypeInv, TypeOK
<1>3. \A q \in Proc : q # p => UNCHANGED <<pc[q], iter[q]>>
  BY DEF NewLock, DropLock, ReadDir, GetById, CheckDuplicate, NewIter, NextAddress, Exists,
         WriteLast, ReleaseById, NextRelease, Fail, Step, GoTo, pick, TypeInv, TypeOK
<1>4. QED
  BY <1>1, <1>2, <1>3, StutterOfPool DEF LeaseInv

LEMMA WriteFailsStrands ==
  ASSUME TypeInv, LeaseInv, LeaseInv', NEW p \in Proc, WriteFails(p)
  PROVE  [Pool!Next]_<<Owner, lease>>
<1>1. /\ UNCHANGED <<files, lease>>
      /\ ~At(p, "write_id")'
      /\ \A q \in Proc : q # p => UNCHANGED <<pc[q], iter[q], att[q]>>
  BY DEF WriteFails, Fail, GoTo, At, store, call, pick, TypeInv, TypeOK
<1>2. CASE At(p, "write_id")
  BY <1>1, <1>2, StoppedWriterStrands
<1>3. CASE ~At(p, "write_id")
  BY <1>1, <1>3, StutterOfPool DEF LeaseInv
<1>4. QED
  BY <1>2, <1>3

LEMMA StepMapsToPool ==
  TypeInv /\ LeaseInv /\ LeaseInv' /\ [Next]_vars => [Pool!Next]_<<Owner, lease>>
<1> SUFFICES ASSUME TypeInv, LeaseInv, LeaseInv', [Next]_vars
             PROVE  [Pool!Next]_<<Owner, lease>>
  OBVIOUS
<1>1. ASSUME NEW p \in Proc, NEW a \in Att, NEW c \in Command, Invoke(p, a, c)
      PROVE  UNCHANGED <<Owner, lease>>
  <2>1. /\ UNCHANGED <<files, lease>>
        /\ ~At(p, "write_id") /\ ~At(p, "write_id")'
        /\ \A q \in Proc : q # p => UNCHANGED <<pc[q], iter[q], att[q]>>
    BY <1>1 DEF Invoke, Step, GoTo, At, store, pick, TypeInv, TypeOK
  <2>2. QED
    BY <2>1, StutterOfPool DEF LeaseInv
<1>2. ASSUME NEW p \in Proc, Reply(p) \/ Exit(p) \/ Crash(p)
      PROVE  [Pool!Next]_<<Owner, lease>>
  <2>1. ~At(p, "idle") /\ Ended(p) /\ UNCHANGED store
    BY <1>2 DEF Reply, Exit, Crash, At
  <2>2. \/ lease' = LeaseAfter(p, {})
        \/ At(p, "reply") /\ lease' = LeaseAfter(p, ips[p])
    BY <1>2 DEF Reply, Exit, Crash
  <2>3. QED
    BY <2>1, <2>2, EndedGrantsOrDrops
<1>3. CASE UNCHANGED vars
  BY <1>3 DEF vars, Owner, At
<1>4. QED
  BY <1>1, <1>2, <1>3, OtherStepStutters, CreateTakes, WriteIdStutters, WriteFailsStrands,
     RemoveGivesBack DEF Next, Run

\* The store is an address pool: an address is taken only while it is free,
\* given back or stranded only by an attachment without a lease, and a lease
\* is of addresses the attachment owns, though no lock guards a step of get,
\* release or the rollback (allocator.rs:28-115, disk.rs:31-108).
THEOREM ImplementsPool == SerialRuntime => (Spec => PoolSpec)
<1> SUFFICES ASSUME SerialRuntime PROVE Spec => PoolSpec
  OBVIOUS
<1>1. Init => Pool!Init
  BY Zenon DEF Init, Pool!Init, Owner, At
<1>2. TypeInv /\ LeaseInv /\ LeaseInv' /\ [Next]_vars => [Pool!Next]_<<Owner, lease>>
  BY StepMapsToPool
<1>3. Spec => []TypeInv /\ []LeaseInv
  BY TypeCorrect, LeasesSafe
<1>4. QED
  BY <1>1, <1>2, <1>3, PTL DEF Spec, PoolSpec
=============================================================================
