---------------------------- MODULE AnswerProofs ----------------------------
(***************************************************************************)
(* What an ADD answers: one address of each range set.  What get and       *)
(* release leave of an attachment: one address of a set at most, and none. *)
(* What `exhausted' means: every address of the set was seen taken.        *)
(***************************************************************************)
EXTENDS HostLocalProofs

----------------------------------------------------------------------------
(* Sets that do not overlap.                                               *)

LEMMA DisjointSets ==
  ASSUME NEW rs, UsableSet(rs), NEW os, UsableSet(os), ~SetOverlap(rs, os)
  PROVE  Allocatable(rs) \cap Allocatable(os) = {}
<1>. SUFFICES ASSUME NEW x \in Allocatable(rs), x \in Allocatable(os)
              PROVE  FALSE
  OBVIOUS
<1>1. PICK i \in DOMAIN rs : x \in Addr /\ RangeContains(rs[i], x)
  BY DEF Allocatable
<1>2. PICK j \in DOMAIN os : RangeContains(os[j], x)
  BY DEF Allocatable
<1>. QED
  BY <1>1, <1>2, OverlapIsShared DEF SetOverlap

LEMMA SetsOfAttDisjoint ==
  ASSUME NEW a \in Att, NEW i \in DOMAIN Conf[a], NEW j \in DOMAIN Conf[a], i # j
  PROVE  Allocatable(Conf[a][i]) \cap Allocatable(Conf[a][j]) = {}
<1>1. UsableSet(Conf[a][i]) /\ UsableSet(Conf[a][j]) /\ i \in Nat /\ j \in Nat
  BY ConfAssumption
<1>2. CASE i < j
  BY <1>1, <1>2, DisjointAssumption, DisjointSets
<1>3. CASE j < i
  BY <1>1, <1>3, DisjointAssumption, DisjointSets
<1>. QED
  BY <1>1, <1>2, <1>3

\* Iter::next never answers a gateway.
LEMMA NextIsAllocatable ==
  ASSUME NEW rs, UsableSet(rs), NEW it \in Iters, InItsRange(rs, it),
         NextOutcome(rs, it) = "address"
  PROVE  NextIter(rs, it).cur \in Allocatable(rs)
<1>. DEFINE moved == Moved(rs, it)
            next == NextIter(rs, it)
<1>1. next \in Iters /\ InItsRange(rs, next) /\ next.cur # NoIp
  BY NextIterInItsRange
<1>2. next.cur = moved.cur /\ next.range_index = moved.range_index
  BY DEF NextIter, Anchored, Moved, Iters
<1>3. moved.cur # rs[moved.range_index].gateway
  BY DEF NextOutcome
<1>4. next.cur \in Addr
  BY <1>1 DEF Iters
<1>. HIDE DEF moved, next
<1>5. next.range_index \in DOMAIN rs /\ RangeContains(rs[next.range_index], next.cur)
  BY <1>1 DEF InItsRange
<1>6. next.cur \in Allocatable(rs)
  BY <1>2, <1>3, <1>4, <1>5 DEF Allocatable
<1>. QED
  BY <1>6 DEF next

----------------------------------------------------------------------------
(* The invariant.                                                          *)

\* s has one address of each of the first n range sets, and no other.
AnswerOf(a, s, n) ==
  /\ \A i \in 1 .. n : \E x \in s : s \cap Allocatable(Conf[a][i]) = {x}
  /\ s \subseteq UNION {Allocatable(Conf[a][i]) : i \in 1 .. n}

Served(p) == IF At(p, "reply") THEN idx[p] ELSE idx[p] - 1

Reserves == \A p \in Proc : pc[p] \in Reserving => iter[p].cur \in Allocatable(RangeSet(p))
Gathers == \A p \in Proc : ~At(p, "idle") =>
             /\ AnswerOf(att[p], ips[p], Served(p))
             /\ At(p, "reply") => idx[p] = Len(Conf[att[p]])
Answers == \A a \in Att : lease[a] # {} => AnswerOf(a, lease[a], Len(Conf[a]))

AnswerInv == Reserves /\ Gathers /\ Answers

LEMMA InitAnswerInv == Init => AnswerInv
BY DEF Init, AnswerInv, Reserves, Gathers, Answers, Reserving, At

\* A step that neither gathers an address nor ends a process.
LEMMA PlainStep ==
  ASSUME AnswerInv, NEW p \in Proc,
         UNCHANGED <<att, idx, ips, lease>>,
         ~At(p, "reply"), ~At(p, "reply")', ~At(p, "idle"),
         pc'[p] \in Reserving => iter'[p].cur \in Allocatable(RangeSet(p)),
         \A q \in Proc : q # p => UNCHANGED <<pc[q], iter[q]>>
  PROVE  AnswerInv'
<1>1. Reserves'
  BY DEF AnswerInv, Reserves, RangeSet
<1>2. Gathers'
  BY DEF AnswerInv, Gathers, AnswerOf, Served, At
<1>3. Answers'
  BY DEF AnswerInv, Answers, AnswerOf
<1>. QED
  BY <1>1, <1>2, <1>3 DEF AnswerInv

LEMMA PlainActions ==
  ASSUME TypeInv, AnswerInv, NEW p \in Proc,
         \/ NewLock(p) \/ DropLock(p) \/ ReadDir(p) \/ GetById(p) \/ CheckDuplicate(p)
         \/ NewIter(p) \/ Exists(p) \/ CreateNew(p) \/ WriteId(p) \/ WriteFails(p)
         \/ ReleaseById(p) \/ RemoveFile(p)
  PROVE  AnswerInv'
<1>. USE DEF NewLock, DropLock, ReadDir, GetById, CheckDuplicate, NewIter, Exists, CreateNew,
             WriteId, WriteFails, ReleaseById, RemoveFile
<1>1. UNCHANGED <<att, idx, ips, lease>>
  BY DEF call
<1>2. ~At(p, "reply") /\ ~At(p, "reply")' /\ ~At(p, "idle")
  BY DEF Fail, NextRelease, Step, GoTo, At, TypeInv, TypeOK
<1>3. \A q \in Proc : q # p => UNCHANGED <<pc[q], iter[q]>>
  BY DEF Fail, NextRelease, Step, GoTo, pick, TypeInv, TypeOK
<1>4. pc'[p] \in Reserving => pc[p] \in Reserving /\ iter' = iter
  BY DEF Fail, NextRelease, Step, GoTo, At, pick, Reserving, TypeInv, TypeOK
<1>. HIDE DEF NewLock, DropLock, ReadDir, GetById, CheckDuplicate, NewIter, Exists, CreateNew,
              WriteId, WriteFails, ReleaseById, RemoveFile
<1>5. pc'[p] \in Reserving => iter'[p].cur \in Allocatable(RangeSet(p))
  BY <1>4 DEF AnswerInv, Reserves
<1>. QED
  BY <1>1, <1>2, <1>3, <1>5, PlainStep

LEMMA NextAddressAnswerInv ==
  ASSUME TypeInv, AnswerInv, NEW p \in Proc, NextAddress(p)
  PROVE  AnswerInv'
<1>1. /\ UNCHANGED <<att, idx, ips, lease>>
      /\ ~At(p, "reply") /\ ~At(p, "reply")' /\ ~At(p, "idle")
      /\ \A q \in Proc : q # p => UNCHANGED <<pc[q], iter[q]>>
  BY DEF NextAddress, Fail, GoTo, At, call, TypeInv, TypeOK
<1>2. pc'[p] \in Reserving =>
        /\ NextOutcome(RangeSet(p), iter[p]) = "address"
        /\ iter'[p] = NextIter(RangeSet(p), iter[p])
  BY DEF NextAddress, Fail, GoTo, At, Reserving, TypeInv, TypeOK
<1>3. UsableSet(RangeSet(p)) /\ iter[p] \in Iters /\ InItsRange(RangeSet(p), iter[p])
  BY RangeSetUsable DEF NextAddress, At, TypeInv, TypeOK, WellFormed, Picking
<1>. QED
  BY <1>1, <1>2, <1>3, NextIsAllocatable, PlainStep

LEMMA InvokeAnswerInv ==
  ASSUME TypeInv, AnswerInv, NEW p \in Proc, NEW a \in Att, NEW c \in Command, Invoke(p, a, c)
  PROVE  AnswerInv'
<1>1. /\ pc' = [pc EXCEPT ![p] = "lock"] /\ att' = [att EXCEPT ![p] = a]
      /\ UNCHANGED <<idx, ips, iter, lease>>
      /\ idx[p] = 1 /\ ips[p] = {}
  BY DEF Invoke, Step, GoTo, At, pick, TypeInv, WellFormed
<1>2. Reserves'
  BY <1>1 DEF AnswerInv, Reserves, Reserving, RangeSet, TypeInv, TypeOK
<1>3. Gathers'
  <2>. SUFFICES ASSUME NEW q \in Proc, pc'[q] # "idle"
                PROVE  /\ AnswerOf(att'[q], ips'[q], Served(q)')
                       /\ pc'[q] = "reply" => idx'[q] = Len(Conf[att'[q]])
    BY DEF Gathers, At, AnswerOf
  <2>1. CASE q = p
    <3>1. att'[q] = a /\ ips'[q] = {} /\ Served(q)' = 0 /\ pc'[q] = "lock"
      BY <1>1, <2>1 DEF Served, At, TypeInv, TypeOK
    <3>2. AnswerOf(a, {}, 0)
      BY DEF AnswerOf
    <3>. QED
      BY <3>1, <3>2
  <2>2. CASE q # p
    <3>1. att'[q] = att[q] /\ ips'[q] = ips[q] /\ Served(q)' = Served(q) /\ pc'[q] = pc[q]
      BY <1>1, <2>2 DEF Served, At, TypeInv, TypeOK
    <3>. QED
      BY <1>1, <3>1 DEF AnswerInv, Gathers, At
  <2>. QED
    BY <2>1, <2>2
<1>4. Answers'
  BY <1>1 DEF AnswerInv, Answers, AnswerOf
<1>. QED
  BY <1>2, <1>3, <1>4 DEF AnswerInv

\* One more address, of the next range set.
LEMMA OneMore ==
  ASSUME NEW a \in Att, NEW n \in DOMAIN Conf[a], NEW s, AnswerOf(a, s, n - 1),
         NEW x \in Allocatable(Conf[a][n])
  PROVE  AnswerOf(a, s \cup {x}, n)
<1>1. n \in Nat \ {0} /\ 1 .. n \subseteq DOMAIN Conf[a]
  BY ConfAssumption
<1>2. 1 .. n = 1 .. (n - 1) \cup {n} /\ n \notin 1 .. (n - 1)
  BY <1>1
<1>3. ASSUME NEW i \in 1 .. (n - 1)
      PROVE  Allocatable(Conf[a][i]) \cap Allocatable(Conf[a][n]) = {}
  BY <1>1, <1>2, <1>3, SetsOfAttDisjoint, Zenon
<1>4. ASSUME NEW i \in 1 .. n
      PROVE  \E y \in s \cup {x} : (s \cup {x}) \cap Allocatable(Conf[a][i]) = {y}
  <2>1. CASE i = n
    <3>1. s \cap Allocatable(Conf[a][n]) = {}
      BY <1>3 DEF AnswerOf
    <3>. QED
      BY <2>1, <3>1
  <2>2. CASE i # n
    <3>1. i \in 1 .. (n - 1)
      BY <1>2, <2>2
    <3>2. PICK y \in s : s \cap Allocatable(Conf[a][i]) = {y}
      BY <3>1 DEF AnswerOf
    <3>3. x \notin Allocatable(Conf[a][i])
      BY <1>3, <3>1
    <3>. QED
      BY <3>2, <3>3
  <2>. QED
    BY <2>1, <2>2
<1>5. s \cup {x} \subseteq UNION {Allocatable(Conf[a][i]) : i \in 1 .. n}
  BY <1>1, <1>2 DEF AnswerOf
<1>. QED
  BY <1>4, <1>5 DEF AnswerOf

LEMMA WriteLastAnswerInv ==
  ASSUME TypeInv, AnswerInv, NEW p \in Proc, WriteLast(p)
  PROVE  AnswerInv'
<1>1. PICK x : x = iter[p].cur
  OBVIOUS
<1>2. /\ att[p] \in Att /\ idx[p] \in DOMAIN Conf[att[p]] /\ pc[p] = "write_last"
      /\ x \in Allocatable(Conf[att[p]][idx[p]])
      /\ AnswerOf(att[p], ips[p], idx[p] - 1)
  BY <1>1, RangeSetUsable
  DEF WriteLast, At, TypeInv, AnswerInv, Reserves, Reserving, Gathers, Served, RangeSet
<1>3. /\ UNCHANGED <<att, lease>>
      /\ ips' = [ips EXCEPT ![p] = @ \cup {x}]
      /\ \/ idx' = [idx EXCEPT ![p] = @ + 1] /\ pc' = [pc EXCEPT ![p] = "lock"]
         \/ /\ idx' = idx /\ pc' = [pc EXCEPT ![p] = "reply"]
            /\ idx[p] = Len(Conf[att[p]])
      /\ \A q \in Proc : q # p => iter'[q] = iter[q]
  BY <1>1 DEF WriteLast, GoTo, call, TypeInv, TypeOK
<1>4. Reserves'
  BY <1>3 DEF AnswerInv, Reserves, Reserving, RangeSet, TypeInv, TypeOK
<1>5. Gathers'
  <2>. SUFFICES ASSUME NEW q \in Proc, pc'[q] # "idle"
                PROVE  /\ AnswerOf(att'[q], ips'[q], Served(q)')
                       /\ pc'[q] = "reply" => idx'[q] = Len(Conf[att'[q]])
    BY DEF Gathers, At, AnswerOf
  <2>1. CASE q = p
    <3>1. att'[q] = att[p] /\ ips'[q] = ips[p] \cup {x}
      BY <1>3, <2>1 DEF TypeInv, TypeOK
    <3>2. /\ Served(q)' = idx[p]
          /\ pc'[q] = "reply" => idx'[q] = Len(Conf[att'[q]])
      BY <1>3, <2>1 DEF Served, At, TypeInv, TypeOK
    <3>3. AnswerOf(att[p], ips[p] \cup {x}, idx[p])
      BY <1>2, OneMore
    <3>. QED
      BY <3>1, <3>2, <3>3
  <2>2. CASE q # p
    <3>1. att'[q] = att[q] /\ ips'[q] = ips[q] /\ idx'[q] = idx[q] /\ pc'[q] = pc[q]
      BY <1>3, <2>2 DEF TypeInv, TypeOK
    <3>2. Served(q)' = Served(q)
      BY <3>1 DEF Served, At
    <3>. QED
      BY <3>1, <3>2 DEF AnswerInv, Gathers, At
  <2>. QED
    BY <2>1, <2>2
<1>6. Answers'
  BY <1>3 DEF AnswerInv, Answers, AnswerOf
<1>. QED
  BY <1>4, <1>5, <1>6 DEF AnswerInv

LEMMA EndedAnswerInv ==
  ASSUME TypeInv, AnswerInv, NEW p \in Proc, ~At(p, "idle"), Ended(p),
         \/ lease' = LeaseAfter(p, {})
         \/ At(p, "reply") /\ lease' = LeaseAfter(p, ips[p])
  PROVE  AnswerInv'
<1>1. /\ pc' = [pc EXCEPT ![p] = "idle"]
      /\ \A q \in Proc : q # p => UNCHANGED <<att[q], ips[q], idx[q], iter[q]>>
  BY DEF Ended, GoTo, TypeInv, TypeOK
<1>2. Reserves'
  BY <1>1 DEF AnswerInv, Reserves, Reserving, RangeSet, TypeInv, TypeOK
<1>3. Gathers'
  <2>. SUFFICES ASSUME NEW q \in Proc, pc'[q] # "idle"
                PROVE  /\ AnswerOf(att'[q], ips'[q], Served(q)')
                       /\ pc'[q] = "reply" => idx'[q] = Len(Conf[att'[q]])
    BY DEF Gathers, At, AnswerOf
  <2>1. q # p /\ att'[q] = att[q] /\ ips'[q] = ips[q] /\ idx'[q] = idx[q] /\ pc'[q] = pc[q]
    BY <1>1 DEF TypeInv, TypeOK
  <2>2. Served(q)' = Served(q)
    BY <2>1 DEF Served, At
  <2>. QED
    BY <2>1, <2>2 DEF AnswerInv, Gathers, At
<1>4. Answers'
  <2>. SUFFICES ASSUME NEW a \in Att, lease'[a] # {}
                PROVE  AnswerOf(a, lease'[a], Len(Conf[a]))
    BY DEF Answers, AnswerOf
  <2>1. CASE lease'[a] = lease[a]
    BY <2>1 DEF AnswerInv, Answers
  <2>2. CASE lease'[a] # lease[a]
    <3>1. At(p, "reply") /\ a = att[p] /\ lease'[a] = ips[p]
      BY <2>2 DEF LeaseAfter, TypeInv, TypeOK
    <3>. QED
      BY <3>1 DEF AnswerInv, Gathers, Served
  <2>. QED
    BY <2>1, <2>2
<1>. QED
  BY <1>2, <1>3, <1>4 DEF AnswerInv

LEMMA NextAnswerInv == TypeInv /\ AnswerInv /\ [Next]_vars => AnswerInv'
<1>. SUFFICES ASSUME TypeInv, AnswerInv, [Next]_vars
              PROVE  AnswerInv'
  OBVIOUS
<1>1. CASE UNCHANGED vars
  BY <1>1 DEF vars, AnswerInv, Reserves, Gathers, Answers, AnswerOf, Served, RangeSet, At
<1>2. ASSUME NEW p \in Proc, Reply(p) \/ Exit(p) \/ Crash(p)
      PROVE  AnswerInv'
  <2>1. /\ ~At(p, "idle") /\ Ended(p)
        /\ \/ lease' = LeaseAfter(p, {})
           \/ At(p, "reply") /\ lease' = LeaseAfter(p, ips[p])
    BY <1>2 DEF Reply, Exit, Crash, At
  <2>. QED
    BY <2>1, EndedAnswerInv
<1>. QED
  BY <1>1, <1>2, PlainActions, NextAddressAnswerInv, InvokeAnswerInv, WriteLastAnswerInv
  DEF Next, Run

\* Whatever else happens on the host, an answer has one address of each range
\* set and no gateway, and so has what the runtime goes on to use
\* (main.rs:65-82, allocator.rs:195-243).
THEOREM AnswersComplete == Spec => []OneAddressPerSet
<1>1. Init => AnswerInv
  BY InitAnswerInv
<1>2. TypeInv /\ AnswerInv /\ [Next]_vars => AnswerInv'
  BY NextAnswerInv
<1>3. AnswerInv => OneAddressPerSet
  <2>. SUFFICES ASSUME AnswerInv, NEW a \in Att, lease[a] # {}
                PROVE  /\ \A i \in DOMAIN Conf[a] :
                            \E x \in lease[a] : lease[a] \cap Allocatable(Conf[a][i]) = {x}
                       /\ lease[a] \subseteq UNION {Allocatable(Conf[a][i]) : i \in DOMAIN Conf[a]}
    BY DEF OneAddressPerSet
  <2>1. AnswerOf(a, lease[a], Len(Conf[a]))
    BY DEF AnswerInv, Answers
  <2>2. DOMAIN Conf[a] = 1 .. Len(Conf[a])
    BY ConfAssumption
  <2>. QED
    BY <2>1, <2>2, Zenon DEF AnswerOf
<1>. QED
  BY <1>1, <1>2, <1>3, TypeCorrect, PTL DEF Spec

----------------------------------------------------------------------------
(* What get and release leave of an attachment's files.                    *)

LEMMA ContainedOnce ==
  ASSUME NEW a \in Att, NEW i \in DOMAIN Conf[a], NEW j \in DOMAIN Conf[a],
         NEW x \in Addr, ContainsIp(Conf[a][i], x), ContainsIp(Conf[a][j], x)
  PROVE  i = j
<1>1. UsableSet(Conf[a][i]) /\ UsableSet(Conf[a][j]) /\ i \in Nat /\ j \in Nat
  BY ConfAssumption
<1>2. PICK m \in DOMAIN Conf[a][i] : RangeContains(Conf[a][i][m], x)
  BY DEF ContainsIp
<1>3. PICK n \in DOMAIN Conf[a][j] : RangeContains(Conf[a][j][n], x)
  BY DEF ContainsIp
<1>4. SetOverlap(Conf[a][i], Conf[a][j]) /\ SetOverlap(Conf[a][j], Conf[a][i])
  BY <1>1, <1>2, <1>3, OverlapIsShared DEF SetOverlap
<1>. QED
  BY <1>1, <1>4, DisjointAssumption

\* The labels OwnInv says something about.
Watched == Choosing \cup {"write_last", "get_by_id", "release_by_id", "remove_file"}

\* A step of p that gives no attachment a file.
LEMMA NothingGained ==
  ASSUME TypeInv, OwnInv, OneProcPerAtt', NEW p \in Proc,
         \A b \in Att : Owned(b)' \subseteq Owned(b),
         \A q \in Proc : q # p =>
           UNCHANGED <<pc[q], att[q], idx[q], todo[q], hits[q], path[q], iter[q]>>,
         pc'[p] \in Watched => SeesAll(p)' /\ SetIsFresh(p)'
  PROVE  OwnInv'
<1>1. ASSUME NEW q \in Proc, q # p
      PROVE  SeesAll(q)' /\ SetIsFresh(q)'
  <2>1. /\ UNCHANGED <<pc[q], att[q], idx[q], todo[q], hits[q], path[q], iter[q]>>
        /\ SeesAll(q) /\ SetIsFresh(q)
    BY <1>1 DEF OwnInv
  <2>2. pc[q] \in Watched => Owned(att[q])' \subseteq Owned(att[q])
    <3>1. pc[q] \in Watched => att[q] \in Att
      BY DEF Watched, Choosing, TypeInv, TypeOK, WellFormed, At
    <3>. QED
      BY <2>1, <3>1 DEF Owned
  <2>3. SeesAll(q)'
    BY <2>1, <2>2 DEF SeesAll, At, Watched
  <2>4. SetIsFresh(q)'
    BY <2>1, <2>2 DEF SetIsFresh, At, Watched, RangeSet
  <2>. QED
    BY <2>3, <2>4
<1>2. SeesAll(p)' /\ SetIsFresh(p)'
  BY DEF SeesAll, SetIsFresh, At, Watched
<1>3. NoDuplicateAllocation'
  BY DEF OwnInv, NoDuplicateAllocation
<1>. QED
  BY <1>1, <1>2, <1>3 DEF OwnInv

\* A step of p to a place that OwnInv says nothing about.
LEMMA Unwatched ==
  ASSUME TypeInv, OwnInv, OneProcPerAtt', NEW p \in Proc,
         \/ \E a \in Att, c \in Command : Invoke(p, a, c)
         \/ NewLock(p) \/ DropLock(p) \/ WriteLast(p) \/ WriteFails(p)
         \/ Reply(p) \/ Exit(p) \/ Crash(p)
  PROVE  OwnInv'
<1>1. files' = files
  BY DEF Invoke, NewLock, DropLock, WriteLast, WriteFails, Reply, Exit, Crash, store
<1>2. pc'[p] \notin Watched
  BY DEF Invoke, NewLock, DropLock, WriteLast, WriteFails, Reply, Exit, Crash, Fail, Ended,
         Step, GoTo, Watched, Choosing, TypeInv, TypeOK
<1>3. \A q \in Proc : q # p =>
        UNCHANGED <<pc[q], att[q], idx[q], todo[q], hits[q], path[q], iter[q]>>
  BY DEF Invoke, NewLock, DropLock, WriteLast, WriteFails, Reply, Exit, Crash, Fail, Ended,
         Step, GoTo, call, scan, pick, TypeInv, TypeOK
<1>4. \A b \in Att : Owned(b)' = Owned(b)
  BY <1>1 DEF Owned
<1>. QED
  BY <1>2, <1>3, <1>4, NothingGained

LEMMA LooksOwnInv ==
  ASSUME TypeInv, OwnInv, OneProcPerAtt', NEW p \in Proc,
         ReadDir(p) \/ GetById(p) \/ CheckDuplicate(p) \/ ReleaseById(p)
  PROVE  OwnInv'
<1>1. /\ files' = files /\ att' = att /\ idx' = idx /\ iter' = iter
      /\ \A q \in Proc : q # p => UNCHANGED <<pc[q], todo[q], hits[q], path[q]>>
  BY DEF ReadDir, GetById, CheckDuplicate, ReleaseById, Fail, NextRelease, Step, GoTo,
         store, call, pick, TypeInv, TypeOK
<1>2. /\ \A b : Owned(b)' = Owned(b)
      /\ \A x \in Addr : x \in Owned(att[p]) <=> files[x] = att[p]
      /\ Owned(att[p]) \subseteq Addr
  BY <1>1 DEF Owned
<1>3. att[p] \in Att
  BY DEF ReadDir, GetById, CheckDuplicate, ReleaseById, Step, At, TypeInv, TypeOK, WellFormed
<1>4. CASE ReadDir(p)
  <2>1. /\ todo'[p] = {x \in Addr : files[x] # NoFile}
        /\ pc'[p] \in {"get_by_id", "release_by_id"}
    BY <1>4 DEF ReadDir, Step, GoTo, TypeInv, TypeOK
  <2>2. Owned(att[p]) \subseteq todo'[p]
    BY <1>2, <1>3, <2>1, SentinelAssumption
  <2>3. SeesAll(p)' /\ SetIsFresh(p)'
    BY <1>1, <1>2, <2>1, <2>2 DEF SeesAll, SetIsFresh, At, Choosing
  <2>. QED
    BY <1>1, <1>2, <2>3, NothingGained
<1>5. CASE GetById(p)
  <2>1. Owned(att[p]) \subseteq todo[p] \cup hits[p] /\ pc[p] = "get_by_id"
    BY <1>5 DEF GetById, OwnInv, SeesAll, At
  <2>2. CASE pc' = pc
    <3>1. PICK x \in todo[p] :
            /\ todo' = [todo EXCEPT ![p] = @ \ {x}]
            /\ hits' = [hits EXCEPT ![p] = IF files[x] = att[p] THEN @ \cup {x} ELSE @]
      BY <1>5, <2>1, <2>2 DEF GetById, Fail, GoTo, TypeInv, TypeOK
    <3>2. Owned(att[p]) \subseteq todo'[p] \cup hits'[p]
      BY <1>2, <2>1, <3>1 DEF TypeInv, TypeOK
    <3>3. SeesAll(p)' /\ SetIsFresh(p)'
      BY <1>1, <1>2, <2>1, <2>2, <3>2 DEF SeesAll, SetIsFresh, At, Choosing
    <3>. QED
      BY <1>1, <1>2, <3>3, NothingGained
  <2>3. CASE pc' # pc
    <3>1. pc'[p] \notin Watched
      BY <1>5, <2>3 DEF GetById, Fail, GoTo, Watched, Choosing, TypeInv, TypeOK
    <3>. QED
      BY <1>1, <1>2, <3>1, NothingGained
  <2>. QED
    BY <2>2, <2>3
<1>6. CASE CheckDuplicate(p)
  <2>1. Owned(att[p]) \subseteq hits[p]
    BY <1>6 DEF CheckDuplicate, OwnInv, SeesAll, At
  <2>2. CASE \A x \in hits[p] : ~ContainsIp(RangeSet(p), x)
    <3>1. pc'[p] = "last_reserved_ip"
      BY <1>6, <2>2 DEF CheckDuplicate, GoTo, TypeInv, TypeOK
    <3>2. SeesAll(p)' /\ SetIsFresh(p)'
      BY <1>1, <1>2, <2>1, <2>2, <3>1 DEF SeesAll, SetIsFresh, At, RangeSet
    <3>. QED
      BY <1>1, <1>2, <3>2, NothingGained
  <2>3. CASE \E x \in hits[p] : ContainsIp(RangeSet(p), x)
    <3>1. pc'[p] \notin Watched
      BY <1>6, <2>3 DEF CheckDuplicate, Fail, GoTo, Watched, Choosing, TypeInv, TypeOK
    <3>. QED
      BY <1>1, <1>2, <3>1, NothingGained
  <2>. QED
    BY <2>2, <2>3
<1>7. CASE ReleaseById(p)
  <2>1. Owned(att[p]) \subseteq todo[p] /\ pc[p] = "release_by_id"
    BY <1>7 DEF ReleaseById, OwnInv, SeesAll, At
  <2>2. CASE pc'[p] = "remove_file"
    <3>1. PICK x \in todo[p] : /\ todo' = [todo EXCEPT ![p] = @ \ {x}]
                               /\ path' = [path EXCEPT ![p] = x]
      BY <1>7, <2>1, <2>2 DEF ReleaseById, NextRelease, GoTo, TypeInv, TypeOK
    <3>2. Owned(att[p]) \subseteq todo'[p] \cup {path'[p]}
      BY <2>1, <3>1 DEF TypeInv, TypeOK
    <3>3. SeesAll(p)' /\ SetIsFresh(p)'
      BY <1>1, <1>2, <2>2, <3>2 DEF SeesAll, SetIsFresh, At, Choosing
    <3>. QED
      BY <1>1, <1>2, <3>3, NothingGained
  <2>3. CASE pc'[p] = "release_by_id"
    <3>1. PICK x \in todo[p] : files[x] # att[p] /\ todo' = [todo EXCEPT ![p] = @ \ {x}]
      BY <1>7, <2>1, <2>3 DEF ReleaseById, NextRelease, GoTo, TypeInv, TypeOK
    <3>2. Owned(att[p]) \subseteq todo'[p]
      BY <1>2, <2>1, <3>1 DEF TypeInv, TypeOK
    <3>3. SeesAll(p)' /\ SetIsFresh(p)'
      BY <1>1, <1>2, <2>3, <3>2 DEF SeesAll, SetIsFresh, At, Choosing
    <3>. QED
      BY <1>1, <1>2, <3>3, NothingGained
  <2>4. CASE pc'[p] \notin {"remove_file", "release_by_id"}
    <3>1. pc'[p] \notin Watched
      BY <1>7, <2>1, <2>4 DEF ReleaseById, NextRelease, GoTo, Watched, Choosing, TypeInv, TypeOK
    <3>. QED
      BY <1>1, <1>2, <3>1, NothingGained
  <2>. QED
    BY <2>2, <2>3, <2>4
<1>. QED
  BY <1>4, <1>5, <1>6, <1>7

LEMMA ChoosesOwnInv ==
  ASSUME TypeInv, OwnInv, OneProcPerAtt', NEW p \in Proc,
         NewIter(p) \/ NextAddress(p) \/ Exists(p) \/ CreateNew(p)
  PROVE  OwnInv'
<1>1. /\ att' = att /\ idx' = idx /\ todo' = todo /\ hits' = hits /\ path' = path
      /\ \A q \in Proc : q # p => UNCHANGED <<pc[q], iter[q]>>
      /\ pc[p] \in Choosing /\ pc[p] # "write_id"
      /\ pc'[p] \in Watched => pc'[p] \in Choosing
  BY DEF NewIter, NextAddress, Exists, CreateNew, Fail, Step, GoTo, At, call, scan, pick,
         Choosing, Watched, TypeInv, TypeOK
<1>2. \A b \in Att : Owned(b)' \subseteq Owned(b)
  <2>1. CASE files' = files
    BY <2>1 DEF Owned
  <2>2. CASE files' # files
    <3>1. iter[p].cur \in Addr /\ files' = [files EXCEPT ![iter[p].cur] = Blank]
      BY <2>2, CurIsAddr DEF NewIter, NextAddress, Exists, CreateNew, At, Reserving, store
    <3>. QED
      BY <3>1, SentinelAssumption DEF Owned, TypeInv, TypeOK
  <2>. QED
    BY <2>1, <2>2
<1>3. att[p] \in Att
  BY <1>1 DEF Choosing, TypeInv, TypeOK, WellFormed, At
<1>4. pc'[p] \in Watched => SeesAll(p)' /\ SetIsFresh(p)'
  <2>. SUFFICES ASSUME pc'[p] \in Choosing
                PROVE  SeesAll(p)' /\ SetIsFresh(p)'
    BY <1>1
  <2>1. \A x \in Owned(att[p]) : ~ContainsIp(RangeSet(p), x)
    BY <1>1 DEF OwnInv, SetIsFresh
  <2>2. Owned(att[p])' \subseteq Owned(att[p])
    BY <1>1, <1>2, <1>3 DEF Owned
  <2>. QED
    BY <1>1, <2>1, <2>2 DEF SeesAll, SetIsFresh, RangeSet, At, Choosing
<1>. QED
  BY <1>1, <1>2, <1>4, NothingGained

LEMMA RemoveFileOwnInv ==
  ASSUME TypeInv, OwnInv, OneProcPerAtt', NEW p \in Proc, RemoveFile(p)
  PROVE  OwnInv'
<1>1. PICK x \in Addr : x = path[p]
  BY DEF RemoveFile, At, TypeInv, TypeOK, WellFormed
<1>2. /\ att' = att /\ idx' = idx /\ hits' = hits /\ iter' = iter
      /\ \A q \in Proc : q # p => UNCHANGED <<pc[q], todo[q], path[q]>>
      /\ Owned(att[p]) \subseteq todo[p] \cup {x}
      /\ att[p] \in Att
      /\ \/ files' = [files EXCEPT ![x] = NoFile] /\ pc'[p] = "release_by_id" /\ todo' = todo
         \/ files' = files /\ pc'[p] \notin Watched
  BY <1>1 DEF RemoveFile, NextRelease, GoTo, At, call, pick, Watched, Choosing, OwnInv, SeesAll,
              TypeInv, TypeOK, WellFormed
<1>3. \A b \in Att : Owned(b)' \subseteq Owned(b)
  BY <1>2, SentinelAssumption DEF Owned, TypeInv, TypeOK
<1>4. ASSUME pc'[p] \in Watched
      PROVE  SeesAll(p)' /\ SetIsFresh(p)'
  <2>1. Owned(att[p])' \subseteq todo[p] /\ pc'[p] = "release_by_id"
    BY <1>2, <1>4, SentinelAssumption DEF Owned, TypeInv, TypeOK
  <2>. QED
    BY <1>2, <1>4, <2>1 DEF SeesAll, SetIsFresh, At, Choosing, Owned
<1>. QED
  BY <1>2, <1>3, <1>4, NothingGained

LEMMA WriteIdOwnInv ==
  ASSUME TypeInv, OwnInv, OneProcPerAtt', NEW p \in Proc, WriteId(p)
  PROVE  OwnInv'
<1>1. PICK x \in Addr : x = iter[p].cur
  BY CurIsAddr DEF WriteId, Step, At, Reserving
<1>2. PICK a \in Att : a = att[p]
  BY DEF WriteId, Step, At, TypeInv, TypeOK, WellFormed
<1>3. PICK rs : rs = RangeSet(p) /\ rs = Conf[a][idx[p]] /\ idx[p] \in DOMAIN Conf[a]
  BY <1>2, RangeSetUsable DEF WriteId, Step, At, RangeSet, TypeInv
<1>4. /\ att' = att /\ idx' = idx /\ todo' = todo /\ hits' = hits /\ path' = path /\ iter' = iter
      /\ pc[p] = "write_id" /\ pc' = [pc EXCEPT ![p] = "write_last"]
      /\ files' = [files EXCEPT ![x] = a]
  BY <1>1, <1>2 DEF WriteId, Step, GoTo, At, call, scan, pick
<1>5. ContainsIp(rs, x)
  <2>1. InItsRange(rs, iter[p]) /\ iter[p].cur # NoIp
    BY <1>3, <1>4 DEF TypeInv, WellFormed, Picking, Reserving
  <2>. QED
    BY <1>1, <2>1 DEF InItsRange, ContainsIp
<1>6. /\ Owned(a)' = Owned(a) \cup {x}
      /\ \A b \in Att : b # a => Owned(b)' \subseteq Owned(b)
  BY <1>4 DEF Owned, TypeInv, TypeOK
<1>7. \A y \in Owned(a) : ~ContainsIp(rs, y)
  BY <1>2, <1>3, <1>4 DEF OwnInv, SetIsFresh, Choosing
<1>8. ASSUME NEW q \in Proc
      PROVE  SeesAll(q)' /\ SetIsFresh(q)'
  <2>1. CASE q = p
    <3>1. pc'[p] = "write_last" /\ RangeSet(p)' = rs /\ iter'[p].cur = x
      BY <1>1, <1>3, <1>4 DEF RangeSet, TypeInv, TypeOK
    <3>2. \A y \in Owned(att[p])' : ContainsIp(rs, y) => y = x
      BY <1>2, <1>4, <1>6, <1>7 DEF Owned
    <3>. QED
      BY <2>1, <3>1, <3>2 DEF SeesAll, SetIsFresh, At, Choosing
  <2>2. CASE q # p
    <3>1. pc[q] \in Watched => att[q] \in Att /\ att[q] # a
      BY <1>2, <2>2 DEF OwnInv, OneProcPerAtt, Watched, Choosing, TypeInv, TypeOK, WellFormed, At
    <3>2. pc[q] \in Watched => Owned(att[q])' \subseteq Owned(att[q])
      BY <1>4, <1>6, <3>1 DEF Owned
    <3>3. pc'[q] = pc[q] /\ RangeSet(q)' = RangeSet(q)
      BY <1>4, <2>2 DEF RangeSet, TypeInv, TypeOK
    <3>4. SeesAll(q) /\ SetIsFresh(q)
      BY DEF OwnInv
    <3>5. SeesAll(q)'
      BY <1>4, <3>2, <3>3, <3>4 DEF SeesAll, At, Watched
    <3>6. SetIsFresh(q)'
      BY <1>4, <3>2, <3>3, <3>4 DEF SetIsFresh, At, Watched
    <3>. QED
      BY <3>5, <3>6
  <2>. QED
    BY <2>1, <2>2
<1>9. NoDuplicateAllocation'
  <2>. SUFFICES ASSUME NEW b \in Att, NEW i \in DOMAIN Conf[b],
                       NEW y \in Owned(b)', NEW z \in Owned(b)',
                       ContainsIp(Conf[b][i], y), ContainsIp(Conf[b][i], z)
                PROVE  y = z
    BY DEF NoDuplicateAllocation
  <2>1. CASE b # a
    BY <1>6, <2>1 DEF OwnInv, NoDuplicateAllocation
  <2>2. CASE b = a /\ i = idx[p]
    BY <1>3, <1>6, <1>7, <2>2
  <2>3. CASE b = a /\ i # idx[p]
    <3>1. ~ContainsIp(Conf[a][i], x)
      BY <1>3, <1>5, <2>3, ContainedOnce
    <3>. QED
      BY <1>6, <2>3, <3>1 DEF OwnInv, NoDuplicateAllocation
  <2>. QED
    BY <2>1, <2>2, <2>3
<1>. QED
  BY <1>8, <1>9 DEF OwnInv

LEMMA InitOwnInv == Init => OwnInv
<1>. SUFFICES ASSUME Init PROVE OwnInv
  OBVIOUS
<1>1. \A a \in Att : Owned(a) = {}
  BY SentinelAssumption DEF Init, Owned
<1>. QED
  BY <1>1 DEF Init, OwnInv, OneProcPerAtt, SeesAll, SetIsFresh, Choosing, NoDuplicateAllocation, At

LEMMA NextOwnInv == TypeInv /\ OwnInv /\ OneProcPerAtt' /\ [Next]_vars => OwnInv'
<1>. SUFFICES ASSUME TypeInv, OwnInv, OneProcPerAtt', [Next]_vars
              PROVE  OwnInv'
  OBVIOUS
<1>1. CASE UNCHANGED vars
  BY <1>1 DEF vars, OwnInv, OneProcPerAtt, SeesAll, SetIsFresh, NoDuplicateAllocation, Owned,
              RangeSet, At
<1>. QED
  BY <1>1, Unwatched, LooksOwnInv, ChoosesOwnInv, RemoveFileOwnInv, WriteIdOwnInv DEF Next, Run

LEMMA OwnInvHolds == SerialRuntime => (Spec => []OwnInv)
<1>. SUFFICES ASSUME SerialRuntime PROVE Spec => []OwnInv
  OBVIOUS
<1>1. Init => OwnInv
  BY InitOwnInv
<1>2. TypeInv /\ LeaseInv' /\ OwnInv /\ [Next]_vars => OwnInv'
  BY NextOwnInv DEF LeaseInv
<1>3. Spec => []LeaseInv
  BY LeasesSafe
<1>. QED
  BY <1>1, <1>2, <1>3, TypeCorrect, PTL DEF Spec

\* `Duplicate allocation is not allowed' (allocator.rs:61-70): no attachment
\* holds two addresses of one range set, failed and killed commands and
\* retries included, as long as the runtime runs one at a time.
THEOREM NoDuplicates == SerialRuntime => (Spec => []NoDuplicateAllocation)
<1>1. OwnInv => NoDuplicateAllocation
  BY DEF OwnInv
<1>. QED
  BY <1>1, OwnInvHolds, PTL

\* A rollback that no vanished entry cuts short leaves its attachment without
\* any address (main.rs:74-79, disk.rs:92-108).
THEOREM RollbackIsComplete == SerialRuntime => (Spec => ReleaseIsComplete)
<1>1. ASSUME OwnInv, NEW p \in Proc, At(p, "release_by_id"), todo[p] = {}
      PROVE  Owned(att[p]) = {}
  BY <1>1 DEF OwnInv, SeesAll
<1>2. OwnInv => \A p \in Proc :
        At(p, "release_by_id") /\ todo[p] = {} /\ pc'[p] # pc[p] => Owned(att[p]) = {}
  BY <1>1
<1>. QED
  BY <1>2, OwnInvHolds, PTL DEF ReleaseIsComplete

----------------------------------------------------------------------------
(* What `exhausted' means.                                                 *)

\* A step of p leaves what the others scan alone.
LEMMA ScanOfOne ==
  ASSUME TypeInv, ScanInv, NEW p \in Proc,
         \A q \in Proc : q # p =>
           UNCHANGED <<pc[q], att[q], idx[q], rel[q], iter[q], tried[q], err[q]>>,
         ScanOf(p)', ExhaustedSet(p)'
  PROVE  ScanInv'
<1>1. ASSUME NEW q \in Proc, q # p
      PROVE  ScanOf(q)' /\ ExhaustedSet(q)'
  <2>1. /\ UNCHANGED <<pc[q], att[q], idx[q], rel[q], iter[q], tried[q], err[q]>>
        /\ ScanOf(q) /\ ExhaustedSet(q)
    BY <1>1 DEF ScanInv
  <2>2. RangeSet(q)' = RangeSet(q)
    BY <2>1 DEF RangeSet
  <2>3. ScanOf(q)'
    BY <2>1, <2>2 DEF ScanOf, At
  <2>4. ExhaustedSet(q)'
    BY <2>1, <2>2 DEF ExhaustedSet, At
  <2>. QED
    BY <2>3, <2>4
<1>. QED
  BY <1>1 DEF ScanInv

\* A process that has not failed has not found its set exhausted.
LEMMA NotExhausted ==
  ASSUME TypeInv, ScanInv, NEW p \in Proc, pc[p] \notin Walking \cup {"exit"}
  PROVE  err[p] # "exhausted"
BY DEF ScanInv, ExhaustedSet, At, TypeInv, TypeOK, WellFormed

LEMMA WalksScanInv ==
  ASSUME TypeInv, ScanInv, NEW p \in Proc,
         \/ \E a \in Att, c \in Command : Invoke(p, a, c)
         \/ NewLock(p) \/ DropLock(p) \/ ReadDir(p) \/ ReleaseById(p) \/ RemoveFile(p)
  PROVE  ScanInv'
<1>1. /\ iter' = iter /\ tried' = tried /\ err' = err /\ idx' = idx
      /\ \A q \in Proc : q # p => UNCHANGED <<pc[q], att[q], rel[q]>>
      /\ pc'[p] \notin Picking /\ pc[p] # "exit"
  BY DEF Invoke, NewLock, DropLock, ReadDir, ReleaseById, RemoveFile, NextRelease, Step, GoTo,
         At, call, pick, Picking, TypeInv, TypeOK
<1>2. ScanOf(p)'
  BY <1>1 DEF ScanOf
<1>3. ASSUME err[p] = "exhausted"
      PROVE  /\ att'[p] = att[p] /\ rel[p] > 0 /\ Allocatable(RangeSet(p)) \subseteq tried[p]
             /\ pc'[p] = "exit" \/ rel'[p] > 0
  <2>1. rel[p] > 0 /\ Allocatable(RangeSet(p)) \subseteq tried[p]
    BY <1>1, <1>3 DEF ScanInv, ExhaustedSet, At
  <2>2. pc[p] # "idle"
    BY <2>1 DEF TypeInv, WellFormed, At
  <2>. QED
    BY <2>1, <2>2 DEF Invoke, NewLock, DropLock, ReadDir, ReleaseById, RemoveFile, NextRelease,
                      Step, GoTo, At, call, TypeInv, TypeOK
<1>4. ExhaustedSet(p)'
  BY <1>1, <1>3 DEF ExhaustedSet, RangeSet, At
<1>. QED
  BY <1>1, <1>2, <1>4, ScanOfOne

\* A step of p that does not look at an address and does not find its set
\* exhausted.
LEMMA OtherScanInv ==
  ASSUME TypeInv, ScanInv, NEW p \in Proc,
         \/ GetById(p) \/ CheckDuplicate(p) \/ WriteLast(p) \/ WriteFails(p)
         \/ Reply(p) \/ Exit(p) \/ Crash(p)
  PROVE  ScanInv'
<1>1. /\ \A q \in Proc : q # p =>
           UNCHANGED <<pc[q], att[q], idx[q], rel[q], iter[q], tried[q], err[q]>>
      /\ pc'[p] \notin Picking
  BY DEF GetById, CheckDuplicate, WriteLast, WriteFails, Reply, Exit, Crash, Fail, Ended, GoTo,
         At, call, pick, Picking, TypeInv, TypeOK
<1>2. err'[p] # "exhausted"
  <2>1. CASE GetById(p) \/ CheckDuplicate(p) \/ WriteLast(p) \/ WriteFails(p)
    <3>1. err[p] # "exhausted"
      BY <2>1, NotExhausted DEF GetById, CheckDuplicate, WriteLast, WriteFails, At,
                                Walking, Releasing
    <3>. QED
      BY <2>1, <3>1 DEF GetById, CheckDuplicate, WriteLast, WriteFails, Fail, TypeInv, TypeOK
  <2>2. CASE Reply(p) \/ Exit(p) \/ Crash(p)
    BY <2>2 DEF Reply, Exit, Crash, Ended, TypeInv, TypeOK
  <2>. QED
    BY <2>1, <2>2
<1>3. ScanOf(p)'
  BY <1>1 DEF ScanOf
<1>4. ExhaustedSet(p)'
  BY <1>2 DEF ExhaustedSet
<1>. QED
  BY <1>1, <1>3, <1>4, ScanOfOne

LEMMA NewIterScanInv ==
  ASSUME TypeInv, ScanInv, NEW p \in Proc, NewIter(p)
  PROVE  ScanInv'
<1>1. /\ pc' = [pc EXCEPT ![p] = "next"] /\ pc[p] = "last_reserved_ip"
      /\ iter' = [iter EXCEPT ![p] = new_iter(RangeSet(p), Parse(last[idx[p]]))]
      /\ tried' = [tried EXCEPT ![p] = {}]
      /\ UNCHANGED <<att, idx, rel, err>>
  BY DEF NewIter, Step, GoTo, At, call
<1>2. iter'[p].cur = NoIp \/ iter'[p].start_ip = NoIp
  <2>1. new_iter(RangeSet(p), Parse(last[idx[p]])).cur = NoIp
        \/ new_iter(RangeSet(p), Parse(last[idx[p]])).start_ip = NoIp
    BY DEF new_iter
  <2>. QED
    BY <1>1, <2>1 DEF TypeInv, TypeOK
<1>3. UsableSet(RangeSet(p)) /\ RangeSet(p)' = RangeSet(p)
  BY <1>1, RangeSetUsable DEF TypeInv, At, RangeSet
<1>4. \A i \in DOMAIN RangeSet(p) : ~RangeContains(RangeSet(p)[i], NoIp)
  BY <1>3, InBounds, MaxAddrAssumption DEF NoIp
<1>5. ScanOf(p)'
  BY <1>2, <1>3, <1>4 DEF ScanOf, Passed, StartsIn
<1>6. ExhaustedSet(p)'
  BY <1>1, NotExhausted DEF ExhaustedSet, Walking, Releasing
<1>. QED
  BY <1>1, <1>5, <1>6, ScanOfOne DEF TypeInv, TypeOK

\* p looks at the address it stands at, or makes it its own.
LEMMA ReservesScanInv ==
  ASSUME TypeInv, ScanInv, NEW p \in Proc, Exists(p) \/ CreateNew(p) \/ WriteId(p)
  PROVE  ScanInv'
<1>1. PICK x : x = iter[p].cur
  OBVIOUS
<1>2. /\ UNCHANGED <<att, idx, iter>>
      /\ pc[p] \in Picking /\ pc[p] # "next"
      /\ \A q \in Proc : q # p => UNCHANGED <<pc[q], rel[q], tried[q], err[q]>>
      /\ tried[p] \subseteq tried'[p]
      /\ pc'[p] = "next" => x \in tried'[p]
      /\ err'[p] = err[p] \/ err'[p] = "create_failed"
  BY <1>1 DEF Exists, CreateNew, WriteId, Fail, Step, GoTo, At, call, pick, Picking, TypeInv, TypeOK
<1>3. RangeSet(p)' = RangeSet(p)
  BY <1>2 DEF RangeSet
<1>4. ScanOf(p)'
  BY <1>1, <1>2, <1>3 DEF ScanInv, ScanOf, At
<1>5. ExhaustedSet(p)'
  BY <1>2, NotExhausted DEF ExhaustedSet, Picking, Walking, Releasing
<1>. QED
  BY <1>2, <1>4, <1>5, ScanOfOne

LEMMA NextAddressScanInv ==
  ASSUME TypeInv, ScanInv, NEW p \in Proc, NextAddress(p)
  PROVE  ScanInv'
<1>1. PICK rs, it : rs = RangeSet(p) /\ it = iter[p]
  OBVIOUS
<1>2. /\ UsableSet(rs) /\ it \in Iters /\ InItsRange(rs, it)
      /\ RangeSet(p)' = rs
      /\ UNCHANGED <<att, idx, tried>>
      /\ pc[p] = "next" /\ err[p] # "exhausted"
      /\ \A q \in Proc : q # p => UNCHANGED <<pc[q], iter[q], rel[q], err[q]>>
  <2>1. pc[p] = "next" /\ UNCHANGED <<att, idx, tried>>
    BY DEF NextAddress, At, call
  <2>2. UsableSet(rs) /\ it \in Iters /\ InItsRange(rs, it)
    BY <1>1, <2>1, RangeSetUsable DEF TypeInv, TypeOK, WellFormed, Picking, At
  <2>3. err[p] # "exhausted"
    BY <2>1, NotExhausted DEF Walking, Releasing
  <2>4. \A q \in Proc : q # p => UNCHANGED <<pc[q], iter[q], rel[q], err[q]>>
    BY DEF NextAddress, Fail, GoTo, TypeInv, TypeOK
  <2>. QED
    BY <1>1, <2>1, <2>2, <2>3, <2>4 DEF RangeSet
<1>3. /\ \A j \in DOMAIN rs : \A y \in Addr :
           RangeContains(rs[j], y) /\ y # rs[j].gateway /\ Passed(rs, it, j, y) => y \in tried[p]
      /\ it.cur # NoIp /\ it.start_ip # NoIp => \E i \in DOMAIN rs : StartsIn(rs, it, i)
  BY <1>1, <1>2 DEF ScanInv, ScanOf, At, Picking
<1>4. CASE NextOutcome(rs, it) \in {"skip", "address"}
  <2>1. PICK next : next = NextIter(rs, it)
    OBVIOUS
  <2>2. /\ iter'[p] = next /\ err' = err
        /\ pc'[p] = IF NextOutcome(rs, it) = "skip" THEN "next" ELSE "exists"
    BY <1>1, <1>2, <1>4, <2>1 DEF NextAddress, GoTo, TypeInv, TypeOK
  <2>3. ~BackAtStart(rs, it) /\ (NextOutcome(rs, it) = "skip" => next.cur = rs[next.range_index].gateway)
    <3>1. Moved(rs, it).cur = next.cur /\ Moved(rs, it).range_index = next.range_index
      BY <1>2, <2>1 DEF NextIter, Anchored, Moved, Iters
    <3>. QED
      BY <1>4, <3>1 DEF NextOutcome
  <2>4. ASSUME NEW j \in DOMAIN rs, NEW y \in Addr,
               RangeContains(rs[j], y), y # rs[j].gateway, Passed(rs, next, j, y)
        PROVE  y \in tried[p] \/ (NextOutcome(rs, it) # "skip" /\ y = next.cur)
    <3>1. Passed(rs, it, j, y) \/ (j = next.range_index /\ y = next.cur)
      BY <1>2, <2>1, <2>3, <2>4, PassesOne
    <3>. QED
      BY <1>3, <2>3, <2>4, <3>1
  <2>5. \E i \in DOMAIN rs : StartsIn(rs, next, i)
    <3>1. CASE it.cur # NoIp /\ it.start_ip # NoIp
      <4>1. next.start_ip = it.start_ip
        BY <1>2, <2>1, <3>1 DEF NextIter, Anchored, Moved, Iters
      <4>. QED
        BY <1>3, <3>1, <4>1 DEF StartsIn
    <3>2. CASE it.cur = NoIp \/ it.start_ip = NoIp
      <4>1. next.start_ip = next.cur
        BY <1>2, <2>1, <3>2 DEF NextIter, Anchored, Moved, Iters
      <4>. QED
        BY <1>2, <2>1, <4>1, NextIterInItsRange DEF StartsIn, InItsRange
    <3>. QED
      BY <3>1, <3>2
  <2>6. ScanOf(p)'
    BY <1>2, <1>4, <2>2, <2>4, <2>5 DEF ScanOf, At
  <2>7. ExhaustedSet(p)'
    BY <1>2, <2>2 DEF ExhaustedSet
  <2>. QED
    BY <1>2, <2>2, <2>6, <2>7, ScanOfOne
<1>5. CASE NextOutcome(rs, it) = "end"
  <2>1. /\ BackAtStart(rs, it)
        /\ \/ pc'[p] = "exit"
           \/ pc'[p] = "lock" /\ rel'[p] > 0
    <3>1. BackAtStart(rs, it)
      <4>. HIDE DEF BackAtStart
      <4>. QED
        BY <1>5 DEF NextOutcome
    <3>2. Fail(p, "exhausted")
      BY <1>1, <1>5 DEF NextAddress
    <3>3. idx[p] \in Nat \ {0} /\ pc \in [Proc -> Label] /\ rel \in [Proc -> Nat]
      BY DEF TypeInv, TypeOK
    <3>4. pc'[p] = (IF idx[p] = 1 THEN "exit" ELSE "lock") /\ rel'[p] = idx[p] - 1
      BY <3>2, <3>3 DEF Fail, GoTo
    <3>. QED
      BY <3>1, <3>3, <3>4
  <2>2. PICK i \in DOMAIN rs : StartsIn(rs, it, i)
    BY <1>3, <2>1 DEF BackAtStart
  <2>3. ASSUME NEW y \in Allocatable(rs)
        PROVE  y \in tried[p]
    <3>1. PICK j \in DOMAIN rs : y \in Addr /\ RangeContains(rs[j], y) /\ y # rs[j].gateway
      BY DEF Allocatable
    <3>. QED
      BY <1>2, <1>3, <2>1, <2>2, <3>1, PassedAll
  <2>4. ScanOf(p)'
    BY <2>1 DEF ScanOf, Picking
  <2>5. ExhaustedSet(p)'
    BY <1>2, <2>1, <2>3 DEF ExhaustedSet, At
  <2>. QED
    BY <1>2, <2>4, <2>5, ScanOfOne
<1>. QED
  BY <1>1, <1>4, <1>5 DEF NextAddress

LEMMA NextScanInv == TypeInv /\ ScanInv /\ [Next]_vars => ScanInv'
<1>. SUFFICES ASSUME TypeInv, ScanInv, [Next]_vars
              PROVE  ScanInv'
  OBVIOUS
<1>1. CASE UNCHANGED vars
  BY <1>1 DEF vars, ScanInv, ScanOf, ExhaustedSet, RangeSet, At
<1>. QED
  BY <1>1, WalksScanInv, OtherScanInv, NewIterScanInv, ReservesScanInv, NextAddressScanInv
  DEF Next, Run

\* `No IP addresses available' is said only after every allocatable address
\* of the set was found taken, wherever the iterator began in whichever range
\* (allocator.rs:67-107, 117-146, 195-243).
THEOREM ExhaustedIsTaken == Spec => []ExhaustedMeansTaken
<1>1. Init => ScanInv
  BY DEF Init, ScanInv, ScanOf, ExhaustedSet, Picking, At
<1>2. TypeInv /\ ScanInv /\ [Next]_vars => ScanInv'
  BY NextScanInv
<1>3. ScanInv => ExhaustedMeansTaken
  BY DEF ScanInv, ExhaustedSet, ExhaustedMeansTaken
<1>. QED
  BY <1>1, <1>2, <1>3, TypeCorrect, PTL DEF Spec
=============================================================================
