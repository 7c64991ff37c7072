----------------------------- MODULE Attachment -----------------------------
(***************************************************************************)
(* The bridge plugin and the host-local plugin it starts, composed: what   *)
(* Bridge leaves open in Answers is what a HostLocal process answers, and  *)
(* what HostLocal leaves open in its runtime is a bridge process.  Slot p  *)
(* of HostLocal runs the child of slot p of Bridge.  The state of the      *)
(* host-local processes and of their store is that of HostLocal, extended  *)
(* here; Bridge is the instance B, whose pc and att are bpc and batt.      *)
(*                                                                         *)
(* Nothing ties the child's life to its parent's: a bridge process that is *)
(* killed leaves its host-local process running, an orphan.                *)
(***************************************************************************)
EXTENDS HostLocal

CONSTANTS
  NetConf,      \* attachment |-> the configuration of its bridge plugin
  IpamRoutes,   \* attachment |-> the routes of its host-local configuration
  FirstV6, NoAnswer, NoChain,
  MaxFaults     \* how many kernel operations fail and processes are killed

\* SerialRuntime says here that the runtime waits for orphans of an
\* attachment before it tries again.
ASSUME AttachmentAssumption == Crashes /\ MaxFaults \in Nat

VARIABLES
  \* Bridge: the kernel, the runtime and the bridge processes
  bridge, br_addrs, forward, chain, post, netns, given,
  bpc, batt, adding, result, k, seen,
  faults   \* how many there were

----------------------------------------------------------------------------
(* What host-local answers.                                                *)

\* The range of the set that the address was found in gives it its mask and
\* its gateway.
IpConfig(rs, x) ==
  LET r == rs[CHOOSE n \in DOMAIN rs : RangeContains(rs[n], x)]
  IN  [ip |-> x, size |-> r.subnet.size, gateway |-> r.gateway]

\* One address per range set, in their order, and the configured routes.
ExecResult(a, x) ==
  [ips |-> [i \in DOMAIN Conf[a] |-> IpConfig(Conf[a][i], x[i])],
   routes |-> IpamRoutes[a]]

Choices(a) ==
  {x \in [DOMAIN Conf[a] -> Addr] :
     \A i \in DOMAIN Conf[a] : x[i] \in Allocatable(Conf[a][i])}

ProperAnswers == [a \in Att |-> {ExecResult(a, x) : x \in Choices(a)}]

B == INSTANCE Bridge WITH Conf <- NetConf, Answers <- ProperAnswers, Faults <- TRUE,
       pc <- bpc, att <- batt

wires == <<bridge, br_addrs, forward, chain, post, netns, given,
           bpc, batt, adding, result, k, seen>>
allVars == <<vars, wires, faults>>

AttachmentInit == Init /\ B!Init /\ faults = 0

----------------------------------------------------------------------------
(* The runtime and the bridge process.                                     *)

Faulty == faults < MaxFaults /\ faults' = faults + 1

\* A slot whose child has outlived its process is not used.
StartBridge(p, a, c) ==
  /\ At(p, "idle")
  /\ SerialRuntime => \A q \in Proc : att[q] # a
  /\ B!Invoke(p, a, c)
  /\ UNCHANGED <<vars, faults>>

RemoveNetns(a) == B!RemoveNetns(a) /\ UNCHANGED <<vars, faults>>

MakeNetns(a) == B!MakeNetns(a) /\ UNCHANGED <<vars, faults>>

BridgeStep(p) ==
  /\ bpc[p] # "delegate"
  /\ B!Run(p)
  /\ UNCHANGED <<vars, faults>>

\* The child, if there is one, lives on.
BridgeFault(p) == Faulty /\ B!Fault(p) /\ UNCHANGED vars

----------------------------------------------------------------------------
(* Delegation.                                                             *)

\* delegate_add says ADD whatever bridge's own command is.
Delegate(p) ==
  /\ bpc[p] = "delegate"
  /\ Invoke(p, batt[p], "ADD")
  /\ UNCHANGED <<wires, faults>>

ChildStep(p) ==
  /\ pc[p] \notin {"reply", "exit"}
  /\ Run(p)
  /\ UNCHANGED <<wires, faults>>

Awaited(p) == bpc[p] = "delegate" /\ pc[p] # "idle"

\* The address of each range set that a child has gathered.
Reserved(p) ==
  [i \in DOMAIN Conf[att[p]] |-> CHOOSE x \in ips[p] : ContainsIp(Conf[att[p]][i], x)]

ChildReplies(p) ==
  /\ Awaited(p)
  /\ Reply(p)
  /\ B!Answered(p, ExecResult(att[p], Reserved(p)))
  /\ UNCHANGED faults

ChildFails(p) ==
  /\ Awaited(p)
  /\ Exit(p)
  /\ B!DelegateFails(p)
  /\ UNCHANGED faults

ChildDies(p) ==
  /\ Faulty
  /\ Crash(p)
  /\ IF Awaited(p) THEN B!DelegateFails(p) ELSE UNCHANGED wires

\* An orphan that has an answer panics on its broken pipe.
Panic(p) == At(p, "reply") /\ Crash(p)

OrphanEnds(p) ==
  /\ ~Awaited(p)
  /\ Exit(p) \/ Panic(p)
  /\ UNCHANGED <<wires, faults>>

AttachmentNext ==
  \/ \E p \in Proc :
       \* CHECK differs from DEL only in what the runtime relies on meanwhile.
       \/ \E a \in Att, c \in {"ADD", "DEL"} : StartBridge(p, a, c)
       \/ BridgeStep(p) \/ BridgeFault(p)
       \/ Delegate(p) \/ ChildStep(p) \/ ChildReplies(p) \/ ChildFails(p)
       \/ ChildDies(p) \/ OrphanEnds(p)
  \/ \E a \in Att : RemoveNetns(a) \/ MakeNetns(a)

\* Processes that are not killed go on; the kernel grants the flock in turn.
Fairness ==
  \A p \in Proc :
    /\ WF_allVars(BridgeStep(p) \/ Delegate(p))
    /\ WF_allVars(ChildStep(p) \/ ChildReplies(p) \/ ChildFails(p) \/ OrphanEnds(p))
    /\ SF_allVars(NewLock(p) /\ UNCHANGED <<wires, faults>>)

AttachmentSpec == AttachmentInit /\ [][AttachmentNext]_allVars

FairSpec == AttachmentSpec /\ Fairness
----------------------------------------------------------------------------
(* Properties, beside NoDuplicateAllocation of HostLocal.                  *)

\* Every address in a container's namespace is reserved for the attachment,
\* whatever commands failed or were killed on either side in between, and
\* whatever is left of them: a reservation outlives the namespace, never the
\* other way round (bridge main.rs:72-86, host-local main.rs:74-79).
WiredIsReserved ==
  \A a \in Att : \A b \in netns[a].addrs : files[b.ip] = a

\* The composition is a bridge whose IPAM plugin gives proper answers: one
\* address of every range set in their order, with the gateway and the mask
\* of its range, and never the gateway itself.  (This is B!Spec; the first
\* disjunct, which changes nothing, saves TLC most of the steps.)
BridgeSpec == B!Init /\ [][UNCHANGED wires \/ B!Next]_wires

\* Every command ends that nobody kills: a bridge process waits for a child
\* that waits for a lock and walks through a store that others change, and
\* nobody waits for ever (invoke lib.rs:102-105, allocator.rs:67-107).
EveryCommandEnds == \A p \in Proc : bpc[p] # "idle" ~> bpc[p] = "idle"
=============================================================================
