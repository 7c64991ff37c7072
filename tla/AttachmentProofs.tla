-------------------------- MODULE AttachmentProofs --------------------------
(***************************************************************************)
(* What the bridge plugin and the host-local plugin promise together: each *)
(* is to the other what the modules of the two leave open, and no address  *)
(* in a container's namespace is free.                                     *)
(***************************************************************************)
EXTENDS Attachment, AnswerProofs

----------------------------------------------------------------------------
(* The two processes of a slot.                                            *)

\* The shape of the bridge processes' and the kernel's state.
Shaped ==
  /\ bpc \in [Proc -> B!Label]
  /\ batt \in [Proc -> Att \cup {NoAtt}]
  /\ DOMAIN result = Proc
  /\ DOMAIN netns = Att /\ \A a \in Att : "addrs" \in DOMAIN netns[a]

\* A child was started with ADD, for the attachment of the bridge process
\* that has waited for it since.
Paired(p) ==
  /\ bpc[p] = "idle" <=> batt[p] = NoAtt
  /\ bpc[p] = "idle" => result[p].ips = <<>>
  /\ bpc[p] # "idle" /\ ~At(p, "idle") => att[p] = batt[p]
  /\ cmd[p] = "ADD"

PairInv == Shaped /\ \A p \in Proc : Paired(p)

\* What a step of a bridge process that is not about its child does to what
\* the others and the child see of it.
Worked(p) ==
  /\ bpc[p] # "idle"
  /\ \/ /\ bpc'[p] # "idle"
        /\ UNCHANGED <<batt, result>>
     \/ /\ bpc'[p] = "idle"
        /\ batt' = [batt EXCEPT ![p] = NoAtt]
        /\ result' = [result EXCEPT ![p] = B!NoResult]
  /\ bpc' \in [Proc -> B!Label]
  /\ \A q \in Proc : q # p => bpc'[q] = bpc[q]
  /\ DOMAIN netns' = Att
  /\ \A a \in Att :
       /\ "addrs" \in DOMAIN netns'[a]
       /\ \A b \in netns'[a].addrs :
            b \in netns[a].addrs
              \/ (a = batt[p] /\ \E n \in DOMAIN result[p].ips : b.ip = result[p].ips[n].ip)

\* It goes on, or gives up, with an operation that touches no address.
LEMMA KeepsAddresses ==
  ASSUME PairInv, NEW p \in Proc,
         \/ B!LinkAdd(p) \/ B!PromiscOn(p) \/ B!BridgeByName(p) \/ B!AcceptRa(p) \/ B!BridgeUp(p)
         \/ B!GetFromPath(p)
         \/ B!AddrList(p) \/ B!EnsureAddr(p) \/ B!BridgeAddrDel(p) \/ B!BridgeAddrAdd(p)
         \/ B!EnableForward(p)
         \/ B!ListChains(p) \/ B!NewChain(p) \/ B!AppendAccept(p) \/ B!AppendMasq(p)
         \/ B!AppendPost(p) \/ B!Fault(p)
  PROVE  Worked(p)
<1>1. UNCHANGED <<batt, result, netns>> /\ bpc[p] # "idle"
  BY DEF B!LinkAdd, B!PromiscOn, B!BridgeByName, B!AcceptRa, B!BridgeUp, B!GetFromPath, B!AddrList,
         B!EnsureAddr, B!BridgeAddrDel, B!BridgeAddrAdd, B!EnableForward, B!ListChains, B!NewChain,
         B!AppendAccept, B!AppendMasq, B!AppendUnique, B!AppendPost, B!Fault, B!At, B!Step
<1>2. bpc' \in [Proc -> B!Label] /\ bpc'[p] # "idle" /\ \A q \in Proc : q # p => bpc'[q] = bpc[q]
  <2>1. CASE \/ B!LinkAdd(p) \/ B!PromiscOn(p) \/ B!BridgeByName(p) \/ B!AcceptRa(p)
             \/ B!BridgeUp(p) \/ B!GetFromPath(p) \/ B!Fault(p)
    BY <2>1 DEF B!LinkAdd, B!PromiscOn, B!BridgeByName, B!AcceptRa, B!BridgeUp, B!GetFromPath,
                B!Fault, B!Step, B!GoTo, B!Fail, B!Label, PairInv, Shaped
  <2>2. CASE \/ B!AddrList(p) \/ B!BridgeAddrDel(p) \/ B!BridgeAddrAdd(p) \/ B!EnableForward(p)
    BY <2>2 DEF B!AddrList, B!BridgeAddrDel, B!BridgeAddrAdd, B!EnableForward,
                B!Step, B!GoTo, B!Fail, B!Label, PairInv, Shaped
  <2>4. CASE B!EnsureAddr(p)
    <3>1. /\ bpc[p] = "ensure_addr"
          /\ bpc' = bpc \/ \E l \in {"forward", "addr_del", "exit"} : bpc' = [bpc EXCEPT ![p] = l]
      BY <2>4 DEF B!EnsureAddr, B!InTheWay, B!GoTo, B!Fail, B!At
    <3>. QED
      BY <3>1 DEF B!Label, PairInv, Shaped
  <2>3. CASE \/ B!ListChains(p) \/ B!NewChain(p) \/ B!AppendAccept(p) \/ B!AppendMasq(p)
             \/ B!AppendPost(p)
    BY <2>3 DEF B!ListChains, B!NewChain, B!AppendAccept, B!AppendMasq, B!AppendUnique,
                B!AppendPost, B!Step, B!GoTo, B!Fail, B!Label, PairInv, Shaped
  <2>. QED
    BY <2>1, <2>2, <2>3, <2>4
<1>. QED
  BY <1>1, <1>2 DEF Worked, PairInv, Shaped

\* What it does inside the namespace.
LEMMA WorksInside ==
  ASSUME PairInv, NEW p \in Proc,
         \/ B!MakeVeth(p) \/ B!HostVethUp(p) \/ B!SetMaster(p) \/ B!AddrAdd(p) \/ B!LinkUp(p)
         \/ B!RouteAdd(p)
  PROVE  Worked(p)
<1>1. UNCHANGED <<batt, result>> /\ bpc[p] # "idle"
  BY DEF B!MakeVeth, B!HostVethUp, B!SetMaster, B!AddrAdd, B!LinkUp, B!RouteAdd, B!At, B!Step
<1>2. PICK l \in B!Label \ {"idle"} : bpc' = [bpc EXCEPT ![p] = l]
  BY DEF B!MakeVeth, B!HostVethUp, B!SetMaster, B!AddrAdd, B!LinkUp, B!RouteAdd, B!Step, B!GoTo,
         B!Fail, B!Label, B!At, PairInv, Shaped
<1>3. PICK a \in Att : a = batt[p]
  BY <1>1 DEF PairInv, Shaped, Paired
<1>4. DOMAIN netns' = Att /\ \A c \in Att : c # a => netns'[c] = netns[c]
  BY <1>3 DEF B!MakeVeth, B!HostVethUp, B!SetMaster, B!AddrAdd, B!LinkUp, B!RouteAdd, PairInv, Shaped
<1>5. DOMAIN netns'[a] = DOMAIN netns[a]
  BY <1>3 DEF B!MakeVeth, B!HostVethUp, B!SetMaster, B!AddrAdd, B!LinkUp, B!RouteAdd, PairInv, Shaped
<1>6. \A b \in netns'[a].addrs :
        b \in netns[a].addrs \/ \E n \in DOMAIN result[p].ips : b.ip = result[p].ips[n].ip
  <2>1. CASE B!AddrAdd(p)
    BY <1>3, <2>1 DEF B!AddrAdd, B!Ips, B!Block, PairInv, Shaped
  <2>2. CASE ~B!AddrAdd(p)
    BY <1>3, <2>2 DEF B!MakeVeth, B!HostVethUp, B!SetMaster, B!LinkUp, B!RouteAdd, PairInv, Shaped
  <2>. QED
    BY <2>1, <2>2
<1>. QED
  BY <1>1, <1>2, <1>3, <1>4, <1>5, <1>6 DEF Worked, PairInv, Shaped

LEMMA BridgeWorked ==
  ASSUME PairInv, NEW p \in Proc, (B!Run(p) /\ bpc[p] # "delegate") \/ B!Fault(p)
  PROVE  Worked(p)
<1>1. CASE B!Reply(p) \/ B!Exit(p)
  BY <1>1 DEF B!Reply, B!Exit, B!Ended, B!GoTo, B!At, B!Label, Worked, PairInv, Shaped
<1>2. ~B!DelegateAdd(p) \/ B!Fault(p)
  BY DEF B!DelegateAdd, B!At
<1>. QED
  BY <1>1, <1>2, KeepsAddresses, WorksInside DEF B!Run

\* The child has ended and the bridge process goes on, or gives up.
LEMMA AnswerHeard ==
  ASSUME PairInv, NEW p \in Proc, bpc[p] = "delegate",
         B!DelegateFails(p) \/ \E r : B!Answered(p, r)
  PROVE  /\ UNCHANGED <<batt, netns>>
         /\ bpc' \in [Proc -> B!Label] /\ bpc'[p] # "idle"
         /\ \A q \in Proc : q # p => bpc'[q] = bpc[q]
         /\ DOMAIN result' = Proc
         /\ \A q \in Proc : q # p => result'[q] = result[q]
BY DEF B!DelegateFails, B!Answered, B!GoTo, B!Fail, B!Label, PairInv, Shaped

\* What a step of a child does to what its bridge process relies on.
LEMMA ChildWorked ==
  ASSUME TypeInv, NEW p \in Proc, Run(p) \/ Crash(p)
  PROVE  /\ pc[p] # "idle"
         /\ \A q \in Proc : q # p => UNCHANGED <<pc[q], att[q], cmd[q]>>
         /\ \/ pc'[p] # "idle" /\ UNCHANGED <<att, cmd>>
            \/ pc'[p] = "idle" /\ cmd'[p] = "ADD"
<1>1. CASE Reply(p) \/ Exit(p) \/ Crash(p)
  BY <1>1 DEF Reply, Exit, Crash, Ended, GoTo, At, TypeInv, TypeOK
<1>2. CASE \/ NewLock(p) \/ DropLock(p) \/ ReadDir(p) \/ GetById(p) \/ CheckDuplicate(p)
           \/ NewIter(p) \/ NextAddress(p) \/ Exists(p)
  BY <1>2 DEF NewLock, DropLock, ReadDir, GetById, CheckDuplicate, NewIter, NextAddress, Exists,
              Fail, Step, GoTo, At, call, TypeInv, TypeOK
<1>3. CASE \/ CreateNew(p) \/ WriteId(p) \/ WriteLast(p) \/ WriteFails(p) \/ ReleaseById(p)
           \/ RemoveFile(p)
  BY <1>3 DEF CreateNew, WriteId, WriteLast, WriteFails, ReleaseById, RemoveFile,
              Fail, NextRelease, Step, GoTo, At, call, TypeInv, TypeOK
<1>. QED
  BY <1>1, <1>2, <1>3 DEF Run

LEMMA InitPairInv == AttachmentInit => PairInv
BY DEF AttachmentInit, Init, B!Init, B!Label, B!FreshNs, B!NoResult, PairInv, Shaped, Paired, At

LEMMA NextPairInv == TypeInv /\ PairInv /\ [AttachmentNext]_allVars => PairInv'
<1>. SUFFICES ASSUME TypeInv, PairInv, [AttachmentNext]_allVars
              PROVE  PairInv'
  OBVIOUS
<1>1. CASE UNCHANGED <<wires, pc, att, cmd>>
  BY <1>1 DEF wires, PairInv, Shaped, Paired, At
<1>2. ASSUME NEW p \in Proc, NEW a \in Att, NEW c \in {"ADD", "DEL"}, StartBridge(p, a, c)
      PROVE  PairInv'
  BY <1>2, SentinelAssumption
  DEF StartBridge, B!Invoke, B!Step, B!GoTo, B!At, B!Label, vars, PairInv, Shaped, Paired, At
<1>3. ASSUME NEW p \in Proc, BridgeStep(p) \/ BridgeFault(p)
      PROVE  PairInv'
  <2>1. Worked(p) /\ UNCHANGED <<pc, att, cmd>>
    BY <1>3, BridgeWorked DEF BridgeStep, BridgeFault, vars
  <2>. QED
    BY <2>1 DEF Worked, B!NoResult, PairInv, Shaped, Paired, At
<1>4. ASSUME NEW p \in Proc, Delegate(p)
      PROVE  PairInv'
  BY <1>4 DEF Delegate, Invoke, Step, GoTo, At, wires, TypeInv, TypeOK, PairInv, Shaped, Paired
<1>5. ASSUME NEW p \in Proc, Run(p) \/ Crash(p),
             \/ UNCHANGED wires
             \/ /\ Awaited(p) /\ Ended(p)
                /\ B!DelegateFails(p) \/ \E r : B!Answered(p, r)
      PROVE  PairInv'
  <2>1. /\ \A q \in Proc : q # p => UNCHANGED <<pc[q], att[q], cmd[q]>>
        /\ pc[p] # "idle"
        /\ \/ pc'[p] # "idle" /\ UNCHANGED <<att, cmd>>
           \/ pc'[p] = "idle" /\ cmd'[p] = "ADD"
    BY <1>5, ChildWorked
  <2>2. CASE UNCHANGED wires
    BY <2>1, <2>2 DEF wires, PairInv, Shaped, Paired, At
  <2>3. CASE Awaited(p) /\ Ended(p) /\ (B!DelegateFails(p) \/ \E r : B!Answered(p, r))
    <3>1. /\ UNCHANGED <<batt, netns>>
          /\ bpc' \in [Proc -> B!Label] /\ bpc'[p] # "idle" /\ bpc[p] # "idle"
          /\ \A q \in Proc : q # p => bpc'[q] = bpc[q]
          /\ DOMAIN result' = Proc
          /\ \A q \in Proc : q # p => result'[q] = result[q]
      BY <2>3, AnswerHeard DEF Awaited
    <3>2. pc'[p] = "idle"
      BY <2>3 DEF Ended, GoTo, TypeInv, TypeOK
    <3>. QED
      BY <2>1, <3>1, <3>2 DEF PairInv, Shaped, Paired, At
  <2>. QED
    BY <1>5, <2>2, <2>3
<1>6. ASSUME NEW a \in Att, RemoveNetns(a) \/ MakeNetns(a)
      PROVE  PairInv'
  BY <1>6 DEF RemoveNetns, MakeNetns, B!RemoveNetns, B!MakeNetns, B!NoNs, B!FreshNs, vars, PairInv,
              Shaped, Paired, At
<1>7. ASSUME NEW p \in Proc, ChildStep(p) \/ ChildReplies(p) \/ ChildFails(p) \/ ChildDies(p)
                            \/ OrphanEnds(p)
      PROVE  PairInv'
  <2>1. Run(p) \/ Crash(p)
    BY <1>7 DEF ChildStep, ChildReplies, ChildFails, ChildDies, OrphanEnds, Panic, Run
  <2>2. \/ UNCHANGED wires
        \/ /\ Awaited(p) /\ Ended(p)
           /\ B!DelegateFails(p) \/ \E r : B!Answered(p, r)
    BY <1>7 DEF ChildStep, ChildReplies, ChildFails, ChildDies, OrphanEnds, Reply, Exit, Crash
  <2>. QED
    BY <1>5, <2>1, <2>2
<1>8. CASE UNCHANGED allVars
  BY <1>1, <1>8 DEF allVars, vars
<1>. QED
  BY <1>2, <1>3, <1>4, <1>6, <1>7, <1>8 DEF AttachmentNext

\* Each child is a host-local process, whatever becomes of its parent.
LEMMA StepOfHostLocal == PairInv /\ [AttachmentNext]_allVars => [Next]_vars
<1>. SUFFICES ASSUME PairInv, [AttachmentNext]_allVars PROVE [Next]_vars
  OBVIOUS
<1>1. ASSUME NEW p \in Proc, Delegate(p) PROVE Next
  <2>1. bpc[p] = "delegate" /\ Invoke(p, batt[p], "ADD")
    BY <1>1 DEF Delegate
  <2>2. batt[p] \in Att /\ "ADD" \in Command
    BY <2>1 DEF PairInv, Shaped, Paired, Command
  <2>. QED
    BY <2>1, <2>2 DEF Next
<1>2. ASSUME NEW p \in Proc, ChildStep(p) \/ ChildReplies(p) \/ ChildFails(p) \/ ChildDies(p)
                            \/ OrphanEnds(p)
      PROVE  Next
  <2>1. Run(p) \/ Crash(p)
    BY <1>2 DEF ChildStep, ChildReplies, ChildFails, ChildDies, OrphanEnds, Panic, Run
  <2>. QED
    BY <2>1 DEF Next
<1>3. CASE \/ UNCHANGED allVars
           \/ \E p \in Proc : \/ \E a \in Att, c \in {"ADD", "DEL"} : StartBridge(p, a, c)
                             \/ BridgeStep(p) \/ BridgeFault(p)
           \/ \E a \in Att : RemoveNetns(a) \/ MakeNetns(a)
  BY <1>3 DEF allVars, StartBridge, BridgeStep, BridgeFault, RemoveNetns, MakeNetns
<1>. QED
  BY <1>1, <1>2, <1>3 DEF AttachmentNext

\* The children of bridge processes, orphans among them, are host-local
\* processes that the store's promises hold for (invoke lib.rs:57-105,
\* host-local main.rs:59-95).
THEOREM ChildrenAreHostLocal == AttachmentSpec => Spec
<1>1. AttachmentInit => Init /\ TypeInv /\ PairInv
  BY InitTypeInv, InitPairInv DEF AttachmentInit
<1>2. TypeInv /\ PairInv /\ [AttachmentNext]_allVars => [Next]_vars
  BY StepOfHostLocal
<1>3. TypeInv /\ PairInv /\ [AttachmentNext]_allVars => TypeInv' /\ PairInv'
  BY <1>2, NextTypeInv, NextPairInv
<1>. QED
  BY <1>1, <1>2, <1>3, PTL DEF AttachmentSpec, Spec

\* So the promises of the store hold in the composition too, one by one.
THEOREM NoDuplicatesOfChildren == SerialRuntime => (AttachmentSpec => []NoDuplicateAllocation)
BY NoDuplicates, ChildrenAreHostLocal, PTL

----------------------------------------------------------------------------
(* The answers of the children.                                            *)

\* At its end a child has one allocatable address of each set.
LEMMA ReservedIsProper ==
  ASSUME TypeInv, AnswerInv, NEW p \in Proc, At(p, "reply")
  PROVE  /\ att[p] \in Att
         /\ ExecResult(att[p], Reserved(p)) \in ProperAnswers[att[p]]
         /\ \A i \in DOMAIN Conf[att[p]] : Reserved(p)[i] \in ips[p]
<1>. DEFINE x == Reserved(p)
<1>1. PICK a \in Att : a = att[p]
  <2>1. ~At(p, "idle")
    BY DEF At
  <2>. QED
    BY <2>1, RangeSetUsable DEF TypeInv
<1>2. AnswerOf(a, ips[p], Len(Conf[a])) /\ DOMAIN Conf[a] = 1 .. Len(Conf[a])
  BY <1>1, ConfAssumption DEF AnswerInv, Gathers, Served, At
<1>3. ASSUME NEW i \in DOMAIN Conf[a]
      PROVE  x[i] \in ips[p] /\ x[i] \in Allocatable(Conf[a][i])
  <2>1. \E y \in ips[p] : ContainsIp(Conf[a][i], y)
    BY <1>2 DEF AnswerOf, Allocatable, ContainsIp
  <2>2. x[i] \in ips[p] /\ ContainsIp(Conf[a][i], x[i])
    BY <1>1, <2>1 DEF Reserved
  <2>3. PICK y \in ips[p] : y = x[i]
    BY <2>2
  <2>4. PICK j \in DOMAIN Conf[a] : y \in Allocatable(Conf[a][j])
    BY <1>2 DEF AnswerOf
  <2>5. y \in Addr /\ ContainsIp(Conf[a][j], y)
    BY <2>4 DEF Allocatable, ContainsIp
  <2>6. i = j
    BY <2>2, <2>3, <2>5, ContainedOnce
  <2>. QED
    BY <2>3, <2>4, <2>6
<1>4. x \in [DOMAIN Conf[a] -> Addr]
  <2>1. \A i \in DOMAIN Conf[a] : x[i] \in Addr
    BY <1>3 DEF Allocatable
  <2>2. DOMAIN x = DOMAIN Conf[a] /\ x = [i \in DOMAIN x |-> x[i]]
    <3>. DEFINE found(i) == CHOOSE y \in ips[p] : ContainsIp(Conf[att[p]][i], y)
    <3>1. x = [i \in DOMAIN Conf[att[p]] |-> found(i)]
      BY DEF Reserved
    <3>. HIDE DEF found, x
    <3>. QED
      BY <1>1, <3>1
  <2>. HIDE DEF x
  <2>. QED
    BY <2>1, <2>2
<1>. HIDE DEF x
<1>5. x \in Choices(a)
  BY <1>3, <1>4 DEF Choices
<1>6. ExecResult(a, x) \in ProperAnswers[a]
  BY <1>5 DEF ProperAnswers
<1>. QED
  BY <1>1, <1>3, <1>6 DEF x

\* The composition implements the bridge with an IPAM plugin that gives
\* proper answers: one address of every range set, in order, none of them the
\* gateway, and none of it depends on the runtime (bridge main.rs:72-86,
\* invoke lib.rs:57-105, host-local main.rs:59-95).
THEOREM ImplementsBridge == AttachmentSpec => BridgeSpec
<1>1. AttachmentInit => B!Init
  BY DEF AttachmentInit
<1>2. TypeInv /\ AnswerInv /\ PairInv /\ [AttachmentNext]_allVars
        => [UNCHANGED wires \/ B!Next]_wires
  <2>. SUFFICES ASSUME TypeInv, AnswerInv, PairInv, [AttachmentNext]_allVars
                PROVE  UNCHANGED wires \/ B!Next
    OBVIOUS
  <2>1. ASSUME NEW p \in Proc, NEW a \in Att, NEW c \in {"ADD", "DEL"}, StartBridge(p, a, c)
        PROVE  B!Next
    <3>1. B!Invoke(p, a, c) /\ c \in DOMAIN B!Handler
      BY <2>1 DEF StartBridge, B!Handler
    <3>. QED
      BY <3>1 DEF B!Next
  <2>2. ASSUME NEW p \in Proc, BridgeStep(p) \/ BridgeFault(p)
        PROVE  B!Next
    <3>1. B!Run(p) \/ B!Fault(p)
      BY <2>2 DEF BridgeStep, BridgeFault
    <3>. QED
      BY <3>1 DEF B!Next
  <2>3. ASSUME NEW p \in Proc, ChildReplies(p)
        PROVE  B!Next
    <3>1. B!Answered(p, ExecResult(att[p], Reserved(p))) /\ bpc[p] = "delegate" /\ At(p, "reply")
      BY <2>3 DEF ChildReplies, Awaited, Reply
    <3>2. att[p] = batt[p]
      BY <3>1 DEF PairInv, Paired, At
    <3>3. ExecResult(att[p], Reserved(p)) \in ProperAnswers[batt[p]]
      BY <3>1, <3>2, ReservedIsProper
    <3>4. B!DelegateAdd(p)
      BY <3>1, <3>3 DEF B!DelegateAdd, B!At
    <3>. QED
      BY <3>4 DEF B!Next, B!Run
  <2>4. ASSUME NEW p \in Proc, ChildFails(p) \/ ChildDies(p)
        PROVE  UNCHANGED wires \/ B!Next
    <3>1. CASE Awaited(p) /\ B!DelegateFails(p)
      <4>1. B!DelegateAdd(p)
        BY <3>1 DEF Awaited, B!DelegateAdd, B!At
      <4>. QED
        BY <4>1 DEF B!Next, B!Run
    <3>2. CASE UNCHANGED wires
      BY <3>2
    <3>. QED
      BY <2>4, <3>1, <3>2 DEF ChildFails, ChildDies
  <2>5. ASSUME NEW a \in Att, RemoveNetns(a) \/ MakeNetns(a)
        PROVE  B!Next
    <3>1. B!RemoveNetns(a) \/ B!MakeNetns(a)
      BY <2>5 DEF RemoveNetns, MakeNetns
    <3>. QED
      BY <3>1 DEF B!Next
  <2>6. CASE UNCHANGED allVars \/ \E p \in Proc : Delegate(p) \/ ChildStep(p) \/ OrphanEnds(p)
    BY <2>6 DEF allVars, wires, Delegate, ChildStep, OrphanEnds
  <2>. QED
    BY <2>1, <2>2, <2>3, <2>4, <2>5, <2>6 DEF AttachmentNext
<1>3. AttachmentInit => TypeInv /\ AnswerInv /\ PairInv
  BY InitTypeInv, InitAnswerInv, InitPairInv DEF AttachmentInit
<1>4. TypeInv /\ AnswerInv /\ PairInv /\ [AttachmentNext]_allVars
        => TypeInv' /\ AnswerInv' /\ PairInv'
  BY StepOfHostLocal, NextTypeInv, NextAnswerInv, NextPairInv
<1>. QED
  BY <1>1, <1>2, <1>3, <1>4, PTL DEF AttachmentSpec, BridgeSpec

----------------------------------------------------------------------------
(* The addresses in the namespaces.                                        *)

\* What a bridge process has been answered, and what is in a namespace, the
\* child's runtime holds a lease for.
Leased ==
  /\ \A p \in Proc : \A n \in DOMAIN result[p].ips : result[p].ips[n].ip \in lease[batt[p]]
  /\ \A a \in Att : \A b \in netns[a].addrs : b.ip \in lease[a]

\* Nobody calls DEL of host-local, and a child whose attachment has a lease
\* does not get to an answer.
LEMMA LeasesGrow ==
  ASSUME TypeInv, LeaseStopsGet, PairInv, [AttachmentNext]_allVars, NEW a \in Att
  PROVE  lease[a] \subseteq lease'[a]
<1>1. ASSUME NEW p \in Proc, Reply(p) \/ Exit(p) \/ Crash(p)
      PROVE  lease[a] \subseteq lease'[a]
  <2>1. cmd[p] = "ADD" /\ (At(p, "reply") => lease[att[p]] = {})
    BY DEF PairInv, Paired, LeaseStopsGet, At
  <2>. QED
    BY <1>1, <2>1 DEF Reply, Exit, Crash, LeaseAfter, TypeInv, TypeOK
<1>2. ASSUME NEW p \in Proc, Run(p), ~Reply(p), ~Exit(p)
      PROVE  lease' = lease
  BY <1>2 DEF Run, NewLock, DropLock, ReadDir, GetById, CheckDuplicate, NewIter, NextAddress, Exists,
              CreateNew, WriteId, WriteLast, WriteFails, ReleaseById, RemoveFile
<1>. QED
  BY <1>1, <1>2, StepOfHostLocal DEF Next, Invoke, vars

\* What a process is answered is what its child's runtime gets a lease for.
LEMMA ReplyLeased ==
  ASSUME TypeInv, LeaseStopsGet, AnswerInv, PairInv, Leased, NEW p \in Proc, ChildReplies(p)
  PROVE  Leased'
<1>1. /\ bpc[p] = "delegate" /\ At(p, "reply") /\ lease' = LeaseAfter(p, ips[p])
      /\ B!Answered(p, ExecResult(att[p], Reserved(p)))
  BY DEF ChildReplies, Awaited, Reply
<1>2. PICK a \in Att : a = att[p] /\ a = batt[p]
  BY <1>1, ReservedIsProper DEF PairInv, Paired, At
<1>3. \A c \in Att : lease[c] \subseteq lease'[c]
  <2>1. AttachmentNext
    BY DEF AttachmentNext
  <2>. QED
    BY <2>1, LeasesGrow
<1>4. UNCHANGED <<batt, netns>>
  BY <1>1 DEF B!Answered
<1>5. ASSUME NEW n \in DOMAIN result'[p].ips
      PROVE  result'[p].ips[n].ip \in lease'[a]
  <2>1. PICK r : r = ExecResult(a, Reserved(p))
    OBVIOUS
  <2>2. CASE result' = result
    BY <1>2, <1>3, <2>2 DEF Leased
  <2>3. CASE result' # result
    <3>1. PICK c : result'[p].ips = [m \in DOMAIN r.ips |-> B!WithGw(c, r.ips[m])]
      <4>1. PICK c : result' = [result EXCEPT ![p] = B!calc_gateway(c, r)]
        BY <1>1, <1>2, <2>1, <2>3 DEF B!Answered
      <4>2. result'[p] = B!calc_gateway(c, r)
        BY <4>1 DEF PairInv, Shaped
      <4>. QED
        BY <4>2 DEF B!calc_gateway
    <3>2. n \in DOMAIN r.ips /\ DOMAIN r.ips = DOMAIN Conf[a] /\ r.ips[n].ip = Reserved(p)[n]
      BY <2>1, <3>1 DEF ExecResult, IpConfig
    <3>3. result'[p].ips[n].ip = r.ips[n].ip
      <4>1. PICK s, g : r.ips[n] = [ip |-> Reserved(p)[n], size |-> s, gateway |-> g]
        BY <2>1, <3>2 DEF ExecResult, IpConfig
      <4>. QED
        BY <3>1, <3>2, <4>1 DEF B!WithGw
    <3>4. Reserved(p)[n] \in ips[p]
      BY <1>1, <1>2, <3>2, ReservedIsProper
    <3>5. cmd[p] = "ADD" /\ ips[p] # {}
      BY <3>4 DEF PairInv, Paired
    <3>6. lease'[a] = ips[p]
      BY <1>1, <1>2, <3>5 DEF LeaseAfter, TypeInv, TypeOK
    <3>. QED
      BY <3>2, <3>3, <3>4, <3>6
  <2>. QED
    BY <2>2, <2>3
<1>6. ASSUME NEW q \in Proc, q # p, NEW n \in DOMAIN result'[q].ips
      PROVE  result'[q].ips[n].ip \in lease'[batt[q]]
  <2>1. result'[q] = result[q]
    BY <1>1, <1>6 DEF B!Answered, PairInv, Shaped
  <2>2. batt[q] \in Att
    BY <1>6, <2>1 DEF PairInv, Shaped, Paired
  <2>. QED
    BY <1>3, <1>6, <2>1, <2>2 DEF Leased
<1>. QED
  BY <1>2, <1>3, <1>4, <1>5, <1>6 DEF Leased

LEMMA NextLeased ==
  ASSUME TypeInv, LeaseStopsGet, AnswerInv, PairInv, Leased, [AttachmentNext]_allVars
  PROVE  Leased'
<1>1. \A a \in Att : lease[a] \subseteq lease'[a]
  BY LeasesGrow
<1>2. \A q \in Proc : \A n \in DOMAIN result[q].ips : batt[q] \in Att
  BY DEF PairInv, Shaped, Paired
<1>3. CASE UNCHANGED <<batt, result, netns>>
  BY <1>1, <1>2, <1>3 DEF Leased
<1>4. ASSUME NEW p \in Proc, NEW a \in Att, NEW c \in {"ADD", "DEL"}, StartBridge(p, a, c)
      PROVE  Leased'
  BY <1>4 DEF StartBridge, B!Invoke, B!Step, B!At, vars, Leased, PairInv, Shaped, Paired
<1>5. ASSUME NEW p \in Proc, BridgeStep(p) \/ BridgeFault(p)
      PROVE  Leased'
  <2>1. Worked(p) /\ UNCHANGED lease
    BY <1>5, BridgeWorked DEF BridgeStep, BridgeFault, vars
  <2>2. \A q \in Proc : \A n \in DOMAIN result'[q].ips :
          n \in DOMAIN result[q].ips /\ result'[q] = result[q] /\ batt'[q] = batt[q]
    BY <2>1 DEF Worked, B!NoResult, PairInv, Shaped
  <2>3. \A a \in Att : \A b \in netns'[a].addrs : b.ip \in lease[a]
    BY <2>1 DEF Worked, Leased
  <2>. QED
    BY <2>1, <2>2, <2>3 DEF Leased
<1>6. ASSUME NEW a \in Att, RemoveNetns(a) \/ MakeNetns(a)
      PROVE  Leased'
  <2>1. UNCHANGED <<batt, result, lease>>
    BY <1>6 DEF RemoveNetns, MakeNetns, B!RemoveNetns, B!MakeNetns, vars
  <2>2. \A c \in Att : netns'[c] = netns[c] \/ netns'[c].addrs = {}
    BY <1>6 DEF RemoveNetns, MakeNetns, B!RemoveNetns, B!MakeNetns, B!NoNs, B!FreshNs, PairInv, Shaped
  <2>. QED
    BY <2>1, <2>2 DEF Leased
<1>7. ASSUME NEW p \in Proc, Delegate(p) \/ ChildStep(p) \/ ChildFails(p) \/ ChildDies(p)
                            \/ OrphanEnds(p)
      PROVE  Leased'
  <2>1. UNCHANGED <<batt, result, netns>>
    BY <1>7 DEF Delegate, ChildStep, ChildFails, ChildDies, OrphanEnds, B!DelegateFails, wires
  <2>. QED
    BY <1>3, <2>1
<1>8. UNCHANGED allVars => UNCHANGED <<batt, result, netns>>
  BY DEF allVars, wires
<1>. QED
  BY <1>3, <1>4, <1>5, <1>6, <1>7, <1>8, ReplyLeased DEF AttachmentNext

\* No address in a container's namespace is free in the store or another's:
\* a process that is answered is answered what its attachment has a lease
\* for, nobody takes a lease back, and a lease is backed (bridge
\* main.rs:72-86, host-local main.rs:74-79, disk.rs:92-108).
THEOREM WiredAreReserved == SerialRuntime => (AttachmentSpec => []WiredIsReserved)
<1>. SUFFICES ASSUME SerialRuntime PROVE AttachmentSpec => []WiredIsReserved
  OBVIOUS
<1>1. AttachmentInit => TypeInv /\ LeaseInv /\ AnswerInv /\ PairInv /\ Leased
  BY InitTypeInv, InitLeaseInv, InitAnswerInv, InitPairInv
  DEF AttachmentInit, B!Init, B!NoResult, B!FreshNs, Leased
<1>2. TypeInv /\ LeaseInv /\ AnswerInv /\ PairInv /\ Leased /\ [AttachmentNext]_allVars
        => TypeInv' /\ LeaseInv' /\ AnswerInv' /\ PairInv' /\ Leased'
  BY StepOfHostLocal, NextTypeInv, NextLeaseInv, NextAnswerInv, NextPairInv, NextLeased DEF LeaseInv
<1>3. LeaseInv /\ Leased => WiredIsReserved
  BY DEF LeaseInv, LeaseBacked, Leased, WiredIsReserved
<1>. QED
  BY <1>1, <1>2, <1>3, PTL DEF AttachmentSpec
=============================================================================
