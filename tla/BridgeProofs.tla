---------------------------- MODULE BridgeProofs ----------------------------
(***************************************************************************)
(* What the bridge plugin answered is wired and stays wired, for any       *)
(* number of processes, attachments and addresses.                         *)
(***************************************************************************)
EXTENDS Bridge, TLAPS

----------------------------------------------------------------------------
(* The invariant.                                                          *)

Namespaces == [there : BOOLEAN, veth : BOOLEAN, host_up : BOOLEAN, master : BOOLEAN,
               up : BOOLEAN, addrs : SUBSET Blocks, routes : SUBSET Routes]
Links == [kind : {"none", "bridge", "other"}, up : BOOLEAN, accept_ra : {0, 1}, promisc : BOOLEAN]

\* The types of the variables that what was answered depends on.
WireTypes ==
  /\ bridge \in Links
  /\ netns \in [Att -> Namespaces]
  /\ given \in [Att -> Results \cup {NoAnswer}]
  /\ pc \in [Proc -> Label]
  /\ att \in [Proc -> Att \cup {NoAtt}]
  /\ adding \in [Proc -> BOOLEAN]
  /\ result \in [Proc -> Results]
  /\ k \in [Proc -> Nat \ {0}]

\* The operations a process makes once its container is wired, once the
\* interface's addresses are set, and so on back to the start.
Wired == {"addr_list", "ensure_addr", "addr_del", "forward", "list_chains",
          "new_chain", "accept_rule", "masq_rule", "post_rule", "reply"}
Routed == Wired \cup {"route_add"}
Addressed == Routed \cup {"link_up"}
Answering == Addressed \cup {"addr_add"}
Mastered == Answering \cup {"delegate"}
HostUp == Mastered \cup {"set_master"}
Paired == HostUp \cup {"host_up"}
Inside == Paired \cup {"make_veth"}
BridgeIsUp == Inside \cup {"netns"}
BridgeIsThere == BridgeIsUp \cup {"accept_ra", "bridge_up"}

OneProcPerAtt == \A p, q \in Proc : att[p] = att[q] /\ att[p] # NoAtt => p = q

\* A process works on its attachment, and goes through lists from the start.
AtWork(p) ==
  /\ At(p, "idle") <=> att[p] = NoAtt
  /\ pc[p] \notin {"addr_add", "route_add", "exit"} \cup Wired => k[p] = 1

\* What a process has found or made is there.
BridgeFound(p) ==
  /\ pc[p] \in BridgeIsThere => bridge.kind = "bridge"
  /\ pc[p] \in BridgeIsUp => bridge.up

InterfaceMade(p) ==
  /\ pc[p] \in Inside => ns(p).there
  /\ pc[p] \in Paired => ns(p).veth
  /\ pc[p] \in HostUp => ns(p).host_up
  /\ pc[p] \in Mastered => ns(p).master
  /\ pc[p] \in Routed => ns(p).up

\* The part of its result that a process has set.
ResultSet(p) ==
  /\ pc[p] = "addr_add" =>
       \A n \in DOMAIN Ips(p) : n < k[p] => Block(Ips(p)[n]) \in ns(p).addrs
  /\ pc[p] \in Addressed => \A n \in DOMAIN Ips(p) : Block(Ips(p)[n]) \in ns(p).addrs
  /\ pc[p] = "route_add" =>
       \A n \in DOMAIN result[p].routes : n < k[p] => result[p].routes[n] \in ns(p).routes
  /\ pc[p] \in Wired => Range(result[p].routes) \subseteq ns(p).routes

ProcessOk(p) == AtWork(p) /\ BridgeFound(p) /\ InterfaceMade(p) /\ ResultSet(p)

VethIsInside == \A a \in Att : netns[a].veth => netns[a].there

WireInv ==
  /\ WireTypes
  /\ OneProcPerAtt
  /\ VethIsInside
  /\ \A p \in Proc : ProcessOk(p)
  /\ AnsweredIsWired

----------------------------------------------------------------------------
(* What a step of one process leaves alone.                                *)

\* No namespace and no bridge loses anything.
NsGrows ==
  \A a \in Att :
    /\ netns'[a].there = netns[a].there
    /\ netns[a].veth => netns'[a].veth
    /\ netns[a].host_up => netns'[a].host_up
    /\ netns[a].master => netns'[a].master
    /\ netns[a].up => netns'[a].up
    /\ netns[a].addrs \subseteq netns'[a].addrs
    /\ netns[a].routes \subseteq netns'[a].routes

BridgeGrows == (bridge.kind = "bridge" => bridge'.kind = "bridge") /\ (bridge.up => bridge'.up)

Others(p) == \A q \in Proc : q # p => UNCHANGED <<pc[q], att[q], k[q], result[q]>>

LEMMA AttOfProc ==
  ASSUME WireTypes, NEW p \in Proc, AtWork(p), ~At(p, "idle")
  PROVE  att[p] \in Att
BY DEF WireTypes, AtWork

LEMMA OthersOk ==
  ASSUME WireInv, NsGrows, BridgeGrows, NEW p \in Proc, Others(p), NEW q \in Proc, q # p
  PROVE  ProcessOk(q)'
<1>1. ProcessOk(q) /\ UNCHANGED <<pc[q], k[q], result[q], att[q]>>
  BY DEF WireInv, Others
<1>2. AtWork(q)'
  BY <1>1 DEF ProcessOk, AtWork, At
<1>3. BridgeFound(q)'
  BY <1>1 DEF ProcessOk, BridgeFound, BridgeGrows
<1>4. CASE att[q] \in Att
  <2>1. InterfaceMade(q)'
    BY <1>1, <1>4 DEF ProcessOk, InterfaceMade, NsGrows, ns
  <2>2. ResultSet(q)'
    BY <1>1, <1>4 DEF ProcessOk, ResultSet, NsGrows, ns, Ips
  <2>. QED
    BY <1>2, <1>3, <2>1, <2>2 DEF ProcessOk
<1>5. CASE att[q] \notin Att
  <2>1. pc'[q] = "idle"
    BY <1>1, <1>5, AttOfProc DEF WireInv, ProcessOk, At
  <2>2. InterfaceMade(q)' /\ ResultSet(q)'
    BY <2>1 DEF InterfaceMade, ResultSet, Inside, Paired, HostUp, Mastered, Answering,
       Addressed, Routed, Wired
  <2>. QED
    BY <1>2, <1>3, <2>2 DEF ProcessOk
<1>. QED
  BY <1>4, <1>5

LEMMA WiredStays ==
  ASSUME WireInv, NsGrows, BridgeGrows, UNCHANGED given
  PROVE  AnsweredIsWired'
BY DEF WireInv, AnsweredIsWired, NsGrows, BridgeGrows

\* A step of a process that has not ended: what it has to show for itself.
LEMMA StepKeeps ==
  ASSUME WireInv, NsGrows, BridgeGrows, UNCHANGED <<given, att>>, NEW p \in Proc, Others(p),
         WireTypes', ProcessOk(p)', VethIsInside'
  PROVE  WireInv'
<1>1. \A q \in Proc : ProcessOk(q)'
  BY OthersOk
<1>2. OneProcPerAtt'
  BY DEF WireInv, OneProcPerAtt
<1>. QED
  BY <1>1, <1>2, WiredStays DEF WireInv

LEMMA FailedIsOk ==
  ASSUME NEW p \in Proc, WireTypes, ProcessOk(p), ~At(p, "idle"), UNCHANGED att, pc'[p] = "exit"
  PROVE  ProcessOk(p)'
BY AttOfProc, BridgeAssumption DEF ProcessOk, AtWork, At, BridgeFound, InterfaceMade, ResultSet,
   BridgeIsThere, BridgeIsUp, Inside, Paired, HostUp, Mastered, Answering, Addressed, Routed, Wired

\* A step that touches neither the namespaces nor the bridge.
LEMMA QuietStep ==
  ASSUME WireInv, NEW p \in Proc, UNCHANGED <<bridge, netns, given, att, adding>>, ~At(p, "idle"),
         pc' \in [Proc -> Label], result' \in [Proc -> Results], k' \in [Proc -> Nat \ {0}],
         Others(p), ProcessOk(p)'
  PROVE  WireInv'
<1>1. NsGrows /\ BridgeGrows
  BY DEF NsGrows, BridgeGrows
<1>2. WireTypes' /\ VethIsInside'
  BY DEF WireInv, WireTypes, VethIsInside
<1>. QED
  BY <1>1, <1>2, StepKeeps

\* A process that fails.
LEMMA FailKeeps ==
  ASSUME WireInv, NEW p \in Proc, ~At(p, "idle"), Fail(p),
         UNCHANGED <<bridge, netns, given, att, adding, result, k>>
  PROVE  WireInv'
<1>1. pc' = [pc EXCEPT ![p] = "exit"]
  BY DEF Fail, GoTo
<1>2. pc' \in [Proc -> Label] /\ pc'[p] = "exit" /\ Others(p)
  BY <1>1 DEF WireInv, WireTypes, Label, Others
<1>3. ProcessOk(p)'
  BY <1>2, FailedIsOk DEF WireInv
<1>. QED
  BY <1>2, <1>3, QuietStep DEF WireInv, WireTypes

\* A wired process goes on.
LEMMA WiredGoesOn ==
  ASSUME WireInv, NEW p \in Proc, pc[p] \in Wired, NEW l \in Wired \cup {"exit"},
         pc' = [pc EXCEPT ![p] = l],
         k' = k \/ \E n \in Nat \ {0} : k' = [k EXCEPT ![p] = n],
         UNCHANGED <<bridge, netns, given, att, adding, result>>
  PROVE  WireInv'
<1>1. /\ pc' \in [Proc -> Label] /\ pc'[p] = l
      /\ k' \in [Proc -> Nat \ {0}]
      /\ Others(p)
  BY DEF WireInv, WireTypes, Label, Others, Wired
<1>2. ~At(p, "idle")
  BY DEF At, Wired
<1>3. CASE l = "exit"
  <2>1. ProcessOk(p)'
    BY <1>1, <1>2, <1>3, FailedIsOk DEF WireInv
  <2>. QED
    BY <1>1, <1>2, <2>1, QuietStep DEF WireInv, WireTypes
<1>4. CASE l \in Wired
  <2>1. ProcessOk(p)
    BY DEF WireInv
  <2>2. AtWork(p)'
    BY <1>1, <1>2, <1>4, <2>1 DEF ProcessOk, AtWork, At, Wired
  <2>3. BridgeFound(p)'
    BY <1>1, <1>4, <2>1 DEF ProcessOk, BridgeFound, BridgeIsThere, BridgeIsUp, Inside, Paired,
       HostUp, Mastered, Answering, Addressed, Routed
  <2>4. InterfaceMade(p)'
    BY <1>1, <1>4, <2>1 DEF ProcessOk, InterfaceMade, ns, Inside, Paired, HostUp, Mastered,
       Answering, Addressed, Routed
  <2>5. ResultSet(p)'
    <3>1. pc'[p] # "addr_add" /\ pc'[p] # "route_add"
      BY <1>1, <1>4 DEF Wired
    <3>2. /\ \A n \in DOMAIN Ips(p) : Block(Ips(p)[n]) \in ns(p).addrs
          /\ Range(result[p].routes) \subseteq ns(p).routes
      BY <2>1 DEF ProcessOk, ResultSet, Addressed, Routed
    <3>. QED
      BY <3>1, <3>2 DEF ResultSet, ns, Ips
  <2>. QED
    BY <1>1, <1>2, <2>2, <2>3, <2>4, <2>5, QuietStep DEF ProcessOk, WireInv, WireTypes
<1>. QED
  BY <1>3, <1>4

----------------------------------------------------------------------------
(* The answer of the IPAM plugin.                                          *)

\* What calc_gateway makes of a result is a result.
LEMMA CalcIsResult ==
  ASSUME NEW a \in Att, NEW r \in Results
  PROVE  calc_gateway(Effective(Conf[a]), r) \in Results
<1> DEFINE c == Effective(Conf[a])
           ips == [n \in DOMAIN r.ips |-> WithGw(c, r.ips[n])]
<1>1. r.ips \in Seq(IpConfigs) /\ r.routes \in Seq(Routes)
  BY DEF Results
<1>2. FirstV6 \in Addr
  BY BridgeAssumption DEF BridgeAssumption
<1>3. \A i \in IpConfigs : WithGw(c, i) \in IpConfigs
  <2> SUFFICES ASSUME NEW i \in IpConfigs PROVE WithGw(c, i) \in IpConfigs
    OBVIOUS
  <2>1. i.ip \in Addr
    BY DEF IpConfigs
  <2>2. NextV4(i.ip) \in Addr \cup {NoIp}
    BY <2>1, <1>2, MaxAddrAssumption DEF NextV4, Family, Addr
  <2>. QED
    BY <2>2 DEF WithGw, IpConfigs
<1>4. ips \in Seq(IpConfigs) /\ Len(ips) = Len(r.ips)
  BY <1>1, <1>3
<1>5. WithDefault(r.routes, ips) \in Seq(Routes)
  <2>1. CASE ips = <<>>
    BY <1>1, <2>1 DEF WithDefault
  <2>2. CASE ips # <<>>
    <3>1. ips[1] \in IpConfigs
      BY <1>4, <2>2
    <3>2. [fam |-> 4, unspecified |-> TRUE, gw |-> ips[1].gateway] \in Routes
      BY <3>1 DEF IpConfigs, Routes
    <3>. QED
      BY <1>1, <3>2 DEF WithDefault
  <2>. QED
    BY <2>1, <2>2
<1>. QED
  BY <1>1, <1>4, <1>5 DEF calc_gateway, Results

----------------------------------------------------------------------------
(* The bridge's operations.                                                *)

\* A process on its way to its namespace.
LEMMA BridgeStep ==
  ASSUME WireInv, NEW p \in Proc, ~At(p, "idle"), pc[p] \notin {"exit"} \cup Inside,
         pc'[p] \in Label \ ({"idle"} \cup Inside), pc' = [pc EXCEPT ![p] = pc'[p]],
         bridge' \in Links, BridgeGrows, BridgeFound(p)',
         UNCHANGED <<netns, given, att, adding, result, k>>
  PROVE  WireInv'
<1>1. WireTypes /\ ProcessOk(p) /\ VethIsInside
  BY DEF WireInv
<1>2. WireTypes' /\ Others(p)
  BY <1>1 DEF WireTypes, Others
<1>3. AtWork(p)'
  BY <1>1 DEF ProcessOk, AtWork, At, Inside, Paired, HostUp, Mastered, Answering, Addressed,
     Routed, Wired
<1>4. InterfaceMade(p)' /\ ResultSet(p)'
  BY DEF InterfaceMade, ResultSet, Inside, Paired, HostUp, Mastered, Answering, Addressed,
     Routed, Wired
<1>5. NsGrows /\ VethIsInside'
  BY <1>1 DEF NsGrows, VethIsInside
<1>. QED
  BY <1>2, <1>3, <1>4, <1>5, StepKeeps DEF ProcessOk

LEMMA LinkAddKeeps ==
  ASSUME WireInv, NEW p \in Proc, LinkAdd(p)
  PROVE  WireInv'
<1>. DEFINE l == IF conf(p).promisc THEN "promisc_on" ELSE "bridge_by_name"
<1>1. pc[p] = "link_add" /\ pc' = [pc EXCEPT ![p] = l] /\ l \in {"promisc_on", "bridge_by_name"}
  BY DEF LinkAdd, Step, At, GoTo
<1>. HIDE DEF l
<1>2. WireTypes
  BY DEF WireInv
<1>3. pc'[p] = l
  BY <1>1, <1>2 DEF WireTypes
<1>4. bridge' \in Links /\ BridgeGrows
  BY <1>2 DEF LinkAdd, WireTypes, Links, BridgeGrows
<1>5. BridgeFound(p)'
  BY <1>1, <1>3 DEF BridgeFound, BridgeIsThere, BridgeIsUp, Inside, Paired, HostUp, Mastered,
     Answering, Addressed, Routed, Wired
<1>6. pc'[p] \in Label \ ({"idle"} \cup Inside) /\ pc[p] \notin {"exit"} \cup Inside /\ ~At(p, "idle")
  BY <1>1, <1>3 DEF Label, At, Inside, Paired, HostUp, Mastered, Answering, Addressed, Routed, Wired
<1>. QED
  BY <1>1, <1>3, <1>4, <1>5, <1>6, BridgeStep DEF LinkAdd

LEMMA PromiscOnKeeps ==
  ASSUME WireInv, NEW p \in Proc, PromiscOn(p)
  PROVE  WireInv'
<1>1. pc[p] = "promisc_on" /\ pc' = [pc EXCEPT ![p] = "bridge_by_name"]
  BY DEF PromiscOn, Step, At, GoTo
<1>2. WireTypes
  BY DEF WireInv
<1>3. pc'[p] = "bridge_by_name"
  BY <1>1, <1>2 DEF WireTypes
<1>4. bridge' \in Links /\ BridgeGrows
  BY <1>2 DEF PromiscOn, WireTypes, Links, BridgeGrows
<1>5. BridgeFound(p)'
  BY <1>3 DEF BridgeFound, BridgeIsThere, BridgeIsUp, Inside, Paired, HostUp, Mastered,
     Answering, Addressed, Routed, Wired
<1>6. pc'[p] \in Label \ ({"idle"} \cup Inside) /\ pc[p] \notin {"exit"} \cup Inside /\ ~At(p, "idle")
  BY <1>1, <1>3 DEF Label, At, Inside, Paired, HostUp, Mastered, Answering, Addressed, Routed, Wired
<1>. QED
  BY <1>1, <1>3, <1>4, <1>5, <1>6, BridgeStep DEF PromiscOn

LEMMA BridgeByNameKeeps ==
  ASSUME WireInv, NEW p \in Proc, BridgeByName(p)
  PROVE  WireInv'
<1>1. pc[p] = "bridge_by_name" /\ ~At(p, "idle")
  BY DEF BridgeByName, At
<1>2. CASE Fail(p)
  BY <1>1, <1>2, FailKeeps DEF BridgeByName, host
<1>3. CASE bridge.kind = "bridge" /\ GoTo(p, "accept_ra")
  <2>1. pc' = [pc EXCEPT ![p] = "accept_ra"] /\ pc'[p] = "accept_ra"
    BY <1>3 DEF GoTo, WireInv, WireTypes
  <2>2. bridge' \in Links /\ BridgeGrows /\ bridge' = bridge
    BY DEF BridgeByName, WireInv, WireTypes, BridgeGrows, host
  <2>3. BridgeFound(p)'
    BY <1>3, <2>1, <2>2 DEF BridgeFound, BridgeIsUp, Inside, Paired, HostUp, Mastered,
       Answering, Addressed, Routed, Wired
  <2>4. pc'[p] \in Label \ ({"idle"} \cup Inside) /\ pc[p] \notin {"exit"} \cup Inside
    BY <1>1, <2>1 DEF Label, Inside, Paired, HostUp, Mastered, Answering, Addressed, Routed, Wired
  <2>. QED
    BY <1>1, <2>1, <2>2, <2>3, <2>4, BridgeStep DEF BridgeByName
<1>. QED
  BY <1>2, <1>3 DEF BridgeByName

LEMMA AcceptRaKeeps ==
  ASSUME WireInv, NEW p \in Proc, AcceptRa(p)
  PROVE  WireInv'
<1>1. pc[p] = "accept_ra" /\ pc' = [pc EXCEPT ![p] = "bridge_up"]
  BY DEF AcceptRa, Step, At, GoTo
<1>2. WireTypes /\ BridgeFound(p)
  BY DEF WireInv, ProcessOk
<1>3. pc'[p] = "bridge_up"
  BY <1>1, <1>2 DEF WireTypes
<1>4. bridge' \in Links /\ BridgeGrows /\ bridge'.kind = bridge.kind
  BY <1>2 DEF AcceptRa, WireTypes, Links, BridgeGrows
<1>5. BridgeFound(p)'
  BY <1>1, <1>2, <1>3, <1>4 DEF BridgeFound, BridgeIsThere, BridgeIsUp, Inside, Paired, HostUp,
     Mastered, Answering, Addressed, Routed, Wired
<1>6. pc'[p] \in Label \ ({"idle"} \cup Inside) /\ pc[p] \notin {"exit"} \cup Inside /\ ~At(p, "idle")
  BY <1>1, <1>3 DEF Label, At, Inside, Paired, HostUp, Mastered, Answering, Addressed, Routed, Wired
<1>. QED
  BY <1>1, <1>3, <1>4, <1>5, <1>6, BridgeStep DEF AcceptRa

LEMMA BridgeUpKeeps ==
  ASSUME WireInv, NEW p \in Proc, BridgeUp(p)
  PROVE  WireInv'
<1>1. pc[p] = "bridge_up" /\ pc' = [pc EXCEPT ![p] = "netns"]
  BY DEF BridgeUp, Step, At, GoTo
<1>2. WireTypes /\ BridgeFound(p)
  BY DEF WireInv, ProcessOk
<1>3. pc'[p] = "netns"
  BY <1>1, <1>2 DEF WireTypes
<1>4. bridge' \in Links /\ BridgeGrows /\ bridge'.kind = bridge.kind /\ bridge'.up
  BY <1>2 DEF BridgeUp, WireTypes, Links, BridgeGrows
<1>5. BridgeFound(p)'
  BY <1>1, <1>2, <1>3, <1>4 DEF BridgeFound, BridgeIsThere
<1>6. pc'[p] \in Label \ ({"idle"} \cup Inside) /\ pc[p] \notin {"exit"} \cup Inside /\ ~At(p, "idle")
  BY <1>1, <1>3 DEF Label, At, Inside, Paired, HostUp, Mastered, Answering, Addressed, Routed, Wired
<1>. QED
  BY <1>1, <1>3, <1>4, <1>5, <1>6, BridgeStep DEF BridgeUp

----------------------------------------------------------------------------
(* The operations on the container's interface.                            *)

\* What a namespace may become.
Grown(n, m) ==
  /\ m \in Namespaces
  /\ m.there = n.there
  /\ n.veth => m.veth
  /\ n.host_up => m.host_up
  /\ n.master => m.master
  /\ n.up => m.up
  /\ n.addrs \subseteq m.addrs
  /\ n.routes \subseteq m.routes

LEMMA NamespaceGrows ==
  ASSUME WireTypes, NEW a \in Att, NEW m, Grown(netns[a], m), netns' = [netns EXCEPT ![a] = m]
  PROVE  netns' \in [Att -> Namespaces] /\ netns'[a] = m /\ NsGrows
<1>1. /\ netns'[a] = m
      /\ \A b \in Att : b # a => netns'[b] = netns[b]
  BY DEF WireTypes
<1>2. netns' \in [Att -> Namespaces]
  BY DEF WireTypes, Grown
<1>3. NsGrows
  BY <1>1 DEF NsGrows, Grown
<1>. QED
  BY <1>1, <1>2, <1>3

LEMMA InterfaceStep ==
  ASSUME WireInv, NEW p \in Proc, pc[p] \in BridgeIsUp,
         NEW l \in Inside, pc' = [pc EXCEPT ![p] = l],
         netns' \in [Att -> Namespaces], NsGrows, VethIsInside',
         result' \in [Proc -> Results], k' \in [Proc -> Nat \ {0}],
         \A q \in Proc : q # p => UNCHANGED <<k[q], result[q]>>,
         l \in {"addr_add", "route_add"} \cup Wired \/ k'[p] = 1,
         InterfaceMade(p)', ResultSet(p)',
         UNCHANGED <<bridge, given, att, adding>>
  PROVE  WireInv'
<1>1. WireTypes /\ ProcessOk(p)
  BY DEF WireInv
<1>2. l \in Label \ {"idle", "exit"} /\ ~At(p, "idle")
  BY DEF Label, At, BridgeIsUp, Inside, Paired, HostUp, Mastered, Answering, Addressed, Routed,
     Wired
<1>3. WireTypes' /\ Others(p) /\ pc'[p] = l
  BY <1>1, <1>2 DEF WireTypes, Others
<1>4. AtWork(p)'
  BY <1>1, <1>2, <1>3 DEF ProcessOk, AtWork, At
<1>5. BridgeGrows /\ BridgeFound(p)'
  BY <1>1, <1>3 DEF BridgeGrows, ProcessOk, BridgeFound, BridgeIsThere, BridgeIsUp
<1>. QED
  BY <1>3, <1>4, <1>5, StepKeeps DEF ProcessOk

LEMMA GetFromPathKeeps ==
  ASSUME WireInv, NEW p \in Proc, GetFromPath(p)
  PROVE  WireInv'
<1>1. pc[p] = "netns" /\ ~At(p, "idle")
  BY DEF GetFromPath, At
<1>2. CASE Fail(p)
  BY <1>1, <1>2, FailKeeps DEF GetFromPath, host
<1>3. CASE ns(p).there /\ GoTo(p, "make_veth")
  <2>1. WireTypes /\ ProcessOk(p) /\ VethIsInside
    BY DEF WireInv
  <2>2. pc' = [pc EXCEPT ![p] = "make_veth"] /\ pc'[p] = "make_veth"
    BY <1>3, <2>1 DEF GoTo, WireTypes
  <2>3. UNCHANGED <<bridge, netns, given, att, adding, result, k>>
    BY DEF GetFromPath, host
  <2>4. InterfaceMade(p)' /\ ResultSet(p)'
    BY <1>3, <2>2, <2>3 DEF InterfaceMade, ResultSet, ns, Paired, HostUp, Mastered, Answering,
       Addressed, Routed, Wired
  <2>5. NsGrows /\ VethIsInside' /\ k'[p] = 1
    BY <1>1, <2>1, <2>3 DEF NsGrows, VethIsInside, ProcessOk, AtWork, Wired
  <2>6. pc[p] \in BridgeIsUp /\ "make_veth" \in Inside
    BY <1>1 DEF BridgeIsUp, Inside
  <2>. QED
    BY <2>1, <2>2, <2>3, <2>4, <2>5, <2>6, InterfaceStep DEF WireTypes
<1>. QED
  BY <1>2, <1>3 DEF GetFromPath

LEMMA MakeVethKeeps ==
  ASSUME WireInv, NEW p \in Proc, MakeVeth(p)
  PROVE  WireInv'
<1>1. pc[p] = "make_veth" /\ ~At(p, "idle")
  BY DEF MakeVeth, At
<1>2. CASE Fail(p) /\ UNCHANGED netns
  BY <1>1, <1>2, FailKeeps DEF MakeVeth, host
<1>3. CASE netns' = [netns EXCEPT ![att[p]].veth = TRUE] /\ GoTo(p, "host_up")
  <2>1. WireTypes /\ ProcessOk(p) /\ VethIsInside /\ att[p] \in Att
    BY <1>1, AttOfProc DEF WireInv, ProcessOk
  <2>2. pc' = [pc EXCEPT ![p] = "host_up"] /\ pc'[p] = "host_up"
    BY <1>3, <2>1 DEF GoTo, WireTypes
  <2>3. UNCHANGED <<bridge, given, att, adding, result, k>>
    BY DEF MakeVeth, host
  <2>4. netns' \in [Att -> Namespaces] /\ NsGrows
    <3>1. ns(p) \in Namespaces
      BY <2>1 DEF WireTypes, ns
    <3>2. Grown(ns(p), [ns(p) EXCEPT !.veth = TRUE])
      BY <3>1 DEF Grown, Namespaces
    <3>3. netns' = [netns EXCEPT ![att[p]] = [ns(p) EXCEPT !.veth = TRUE]]
      BY <1>3 DEF ns
    <3>. QED
      BY <2>1, <3>2, <3>3, NamespaceGrows DEF ns
  <2>5. ns(p).there
    BY <1>1, <2>1 DEF ProcessOk, InterfaceMade, Inside
  <2>6. VethIsInside'
    BY <1>3, <2>1, <2>5 DEF VethIsInside, ns, WireTypes
  <2>7. InterfaceMade(p)' /\ ResultSet(p)'
    BY <1>3, <2>1, <2>2, <2>3, <2>5 DEF InterfaceMade, ResultSet, ns, WireTypes, Namespaces, HostUp,
       Mastered, Answering, Addressed, Routed, Wired
  <2>8. k'[p] = 1 /\ pc[p] \in BridgeIsUp /\ "host_up" \in Inside
    BY <1>1, <2>1, <2>3 DEF ProcessOk, AtWork, Wired, BridgeIsUp, Inside, Paired
  <2>. QED
    BY <2>1, <2>2, <2>3, <2>4, <2>6, <2>7, <2>8, InterfaceStep DEF WireTypes
<1>. QED
  BY <1>2, <1>3 DEF MakeVeth

LEMMA HostVethUpKeeps ==
  ASSUME WireInv, NEW p \in Proc, HostVethUp(p)
  PROVE  WireInv'
<1>1. pc[p] = "host_up" /\ ~At(p, "idle")
  BY DEF HostVethUp, Step, At
<1>2. WireTypes /\ ProcessOk(p) /\ VethIsInside /\ att[p] \in Att
  BY <1>1, AttOfProc DEF WireInv, ProcessOk
<1>3. /\ netns' = [netns EXCEPT ![att[p]].host_up = TRUE]
      /\ pc' = [pc EXCEPT ![p] = "set_master"]
      /\ UNCHANGED <<bridge, given, att, adding, result, k>>
  BY DEF HostVethUp, Step, GoTo, host
<1>4. pc'[p] = "set_master"
  BY <1>2, <1>3 DEF WireTypes
<1>5. netns' \in [Att -> Namespaces] /\ NsGrows
  <2>1. ns(p) \in Namespaces
    BY <1>2 DEF WireTypes, ns
  <2>2. Grown(ns(p), [ns(p) EXCEPT !.host_up = TRUE])
    BY <2>1 DEF Grown, Namespaces
  <2>3. netns' = [netns EXCEPT ![att[p]] = [ns(p) EXCEPT !.host_up = TRUE]]
    BY <1>3 DEF ns
  <2>. QED
    BY <1>2, <2>2, <2>3, NamespaceGrows DEF ns
<1>6. ns(p).there /\ ns(p).veth
  BY <1>1, <1>2 DEF ProcessOk, InterfaceMade, Inside, Paired
<1>7. VethIsInside'
  BY <1>2, <1>3, <1>6 DEF VethIsInside, ns, WireTypes
<1>8. InterfaceMade(p)' /\ ResultSet(p)'
  BY <1>2, <1>3, <1>4, <1>6 DEF InterfaceMade, ResultSet, ns, WireTypes, Namespaces, Mastered,
     Answering, Addressed, Routed, Wired
<1>9. k'[p] = 1 /\ pc[p] \in BridgeIsUp /\ "set_master" \in Inside
  BY <1>1, <1>2, <1>3 DEF ProcessOk, AtWork, Wired, BridgeIsUp, Inside, Paired, HostUp
<1>. QED
  BY <1>2, <1>3, <1>5, <1>7, <1>8, <1>9, InterfaceStep DEF WireTypes

LEMMA SetMasterKeeps ==
  ASSUME WireInv, NEW p \in Proc, SetMaster(p)
  PROVE  WireInv'
<1>1. pc[p] = "set_master" /\ ~At(p, "idle")
  BY DEF SetMaster, Step, At
<1>2. WireTypes /\ ProcessOk(p) /\ VethIsInside /\ att[p] \in Att
  BY <1>1, AttOfProc DEF WireInv, ProcessOk
<1>3. /\ netns' = [netns EXCEPT ![att[p]].master = TRUE]
      /\ pc' = [pc EXCEPT ![p] = "delegate"]
      /\ UNCHANGED <<bridge, given, att, adding, result, k>>
  BY DEF SetMaster, Step, GoTo, host
<1>4. pc'[p] = "delegate"
  BY <1>2, <1>3 DEF WireTypes
<1>5. netns' \in [Att -> Namespaces] /\ NsGrows
  <2>1. ns(p) \in Namespaces
    BY <1>2 DEF WireTypes, ns
  <2>2. Grown(ns(p), [ns(p) EXCEPT !.master = TRUE])
    BY <2>1 DEF Grown, Namespaces
  <2>3. netns' = [netns EXCEPT ![att[p]] = [ns(p) EXCEPT !.master = TRUE]]
    BY <1>3 DEF ns
  <2>. QED
    BY <1>2, <2>2, <2>3, NamespaceGrows DEF ns
<1>6. ns(p).there /\ ns(p).veth /\ ns(p).host_up
  BY <1>1, <1>2 DEF ProcessOk, InterfaceMade, Inside, Paired, HostUp
<1>7. VethIsInside'
  BY <1>2, <1>3, <1>6 DEF VethIsInside, ns, WireTypes
<1>8. InterfaceMade(p)' /\ ResultSet(p)'
  BY <1>2, <1>3, <1>4, <1>6 DEF InterfaceMade, ResultSet, ns, WireTypes, Namespaces,
     Answering, Addressed, Routed, Wired
<1>9. k'[p] = 1 /\ pc[p] \in BridgeIsUp /\ "delegate" \in Inside
  BY <1>1, <1>2, <1>3 DEF ProcessOk, AtWork, Wired, BridgeIsUp, Inside, Paired, HostUp, Mastered
<1>. QED
  BY <1>2, <1>3, <1>5, <1>7, <1>8, <1>9, InterfaceStep DEF WireTypes

LEMMA DelegateAddKeeps ==
  ASSUME WireInv, NEW p \in Proc, DelegateAdd(p)
  PROVE  WireInv'
<1>1. pc[p] = "delegate" /\ ~At(p, "idle")
  BY DEF DelegateAdd, At
<1>2. WireTypes /\ ProcessOk(p) /\ VethIsInside /\ att[p] \in Att
  BY <1>1, AttOfProc DEF WireInv, ProcessOk
<1>3. CASE DelegateFails(p)
  BY <1>1, <1>3, FailKeeps DEF DelegateFails, host
<1>4. ASSUME NEW r \in Answers[att[p]], Answered(p, r)
      PROVE  WireInv'
  <2>1. CASE Fail(p) /\ UNCHANGED result
    BY <1>1, <1>4, <2>1, FailKeeps DEF Answered, host
  <2>2. CASE /\ result' = [result EXCEPT ![p] = calc_gateway(Effective(conf(p)), r)]
             /\ GoTo(p, "addr_add")
    <3>1. r \in Results
      BY <1>2, BridgeAssumption DEF BridgeAssumption
    <3>2. calc_gateway(Effective(conf(p)), r) \in Results
      BY <1>2, <3>1, CalcIsResult DEF conf
    <3>3. /\ pc' = [pc EXCEPT ![p] = "addr_add"] /\ pc'[p] = "addr_add"
          /\ result' \in [Proc -> Results]
          /\ \A q \in Proc : q # p => UNCHANGED result[q]
      BY <1>2, <2>2, <3>2 DEF GoTo, WireTypes
    <3>4. UNCHANGED <<bridge, netns, given, att, adding, k>>
      BY <1>4 DEF Answered, host
    <3>5. NsGrows /\ VethIsInside'
      BY <1>2, <3>4 DEF NsGrows, VethIsInside
    <3>6. InterfaceMade(p)'
      BY <1>1, <1>2, <3>3, <3>4 DEF ProcessOk, InterfaceMade, ns, Inside, Paired, HostUp, Mastered,
         Answering, Addressed, Routed, Wired
    <3>7. k'[p] = 1
      BY <1>1, <1>2, <3>4 DEF ProcessOk, AtWork, Wired
    <3>8. DOMAIN Ips(p)' \subseteq Nat \ {0}
      BY <3>3 DEF Results, Ips
    <3>9. ResultSet(p)'
      BY <3>3, <3>7, <3>8 DEF ResultSet, Addressed, Routed, Wired
    <3>10. pc[p] \in BridgeIsUp /\ "addr_add" \in Inside
      BY <1>1 DEF BridgeIsUp, Inside, Paired, HostUp, Mastered, Answering
    <3>. QED
      BY <1>2, <3>3, <3>4, <3>5, <3>6, <3>7, <3>9, <3>10, InterfaceStep DEF WireTypes
  <2>. QED
    BY <1>4, <2>1, <2>2 DEF Answered
<1>. QED
  BY <1>3, <1>4 DEF DelegateAdd

----------------------------------------------------------------------------
(* config_interface.                                                       *)

\* What all its operations start from.
LEMMA Configuring ==
  ASSUME WireInv, NEW p \in Proc, pc[p] \in {"addr_add", "link_up", "route_add"}
  PROVE  /\ WireTypes /\ ProcessOk(p) /\ VethIsInside
         /\ ~At(p, "idle") /\ pc[p] \in BridgeIsUp
         /\ att[p] \in Att /\ ns(p) \in Namespaces
         /\ ns(p).there /\ ns(p).veth /\ ns(p).host_up /\ ns(p).master
         /\ Ips(p) \in Seq(IpConfigs) /\ result[p].routes \in Seq(Routes)
         /\ k[p] \in Nat \ {0}
<1>1. WireTypes /\ ProcessOk(p) /\ VethIsInside /\ ~At(p, "idle")
  BY DEF WireInv, At
<1>2. pc[p] \in Mastered /\ pc[p] \in HostUp /\ pc[p] \in Paired /\ pc[p] \in Inside
      /\ pc[p] \in BridgeIsUp
  BY DEF BridgeIsUp, Inside, Paired, HostUp, Mastered, Answering, Addressed, Routed
<1>3. att[p] \in Att
  BY <1>1, AttOfProc DEF ProcessOk
<1>. QED
  BY <1>1, <1>2, <1>3 DEF ProcessOk, InterfaceMade, WireTypes, ns, Ips, Results

LEMMA AddrAddKeeps ==
  ASSUME WireInv, NEW p \in Proc, AddrAdd(p)
  PROVE  WireInv'
<1>. DEFINE b == Block(Ips(p)[k[p]])
<1>1. pc[p] = "addr_add"
  BY DEF AddrAdd, At
<1>2. /\ WireTypes /\ ProcessOk(p) /\ VethIsInside
      /\ ~At(p, "idle") /\ pc[p] \in BridgeIsUp
      /\ att[p] \in Att /\ ns(p) \in Namespaces
      /\ ns(p).there /\ ns(p).veth /\ ns(p).host_up /\ ns(p).master
      /\ Ips(p) \in Seq(IpConfigs) /\ k[p] \in Nat \ {0}
  BY <1>1, Configuring
<1>3. UNCHANGED <<bridge, given, att, adding, result>>
  BY DEF AddrAdd, host
<1>4. \A n \in DOMAIN Ips(p) : n < k[p] => Block(Ips(p)[n]) \in ns(p).addrs
  BY <1>1, <1>2 DEF ProcessOk, ResultSet
<1>5. CASE Fail(p) /\ UNCHANGED <<netns, k>>
  BY <1>2, <1>3, <1>5, FailKeeps
<1>6. CASE /\ k[p] \in DOMAIN Ips(p)
           /\ netns' = [netns EXCEPT ![att[p]].addrs = @ \cup {b}]
           /\ k' = [k EXCEPT ![p] = @ + 1]
           /\ UNCHANGED pc
  <2>1. b \in Blocks
    <3>1. Ips(p)[k[p]] \in IpConfigs
      BY <1>2, <1>6
    <3>. QED
      BY <3>1 DEF Block, Blocks, IpConfigs
  <2>2. Grown(ns(p), [ns(p) EXCEPT !.addrs = @ \cup {b}])
    BY <1>2, <2>1 DEF Grown, Namespaces
  <2>3. netns' = [netns EXCEPT ![att[p]] = [ns(p) EXCEPT !.addrs = @ \cup {b}]]
    BY <1>6 DEF ns
  <2>4. /\ netns' \in [Att -> Namespaces] /\ NsGrows
        /\ netns'[att[p]] = [ns(p) EXCEPT !.addrs = @ \cup {b}]
    BY <1>2, <2>2, <2>3, NamespaceGrows DEF ns
  <2>5. k' \in [Proc -> Nat \ {0}] /\ k'[p] = k[p] + 1 /\ \A q \in Proc : q # p => UNCHANGED k[q]
    BY <1>2, <1>6 DEF WireTypes
  <2>6. VethIsInside'
    BY <1>2, <2>3, <2>4 DEF VethIsInside, WireTypes, ns, NsGrows
  <2>7. InterfaceMade(p)'
    BY <1>1, <1>2, <1>3, <1>6, <2>4 DEF InterfaceMade, ns, NsGrows, Routed, Wired
  <2>8. \A n \in DOMAIN Ips(p) : n < k[p] + 1 => Block(Ips(p)[n]) \in ns(p).addrs \cup {b}
    BY <1>2, <1>4
  <2>9. ns(p)'.addrs = ns(p).addrs \cup {b} /\ Ips(p)' = Ips(p)
    BY <1>2, <1>3, <2>4 DEF ns, Ips, Namespaces
  <2>10. ResultSet(p)'
    BY <1>1, <1>6, <2>5, <2>8, <2>9 DEF ResultSet, Addressed, Routed, Wired
  <2>11. pc' = [pc EXCEPT ![p] = "addr_add"] /\ "addr_add" \in Inside
    BY <1>1, <1>2, <1>6 DEF WireTypes, Inside, Paired, HostUp, Mastered, Answering
  <2>. QED
    BY <1>2, <1>3, <2>4, <2>5, <2>6, <2>7, <2>10, <2>11, InterfaceStep DEF WireTypes
<1>7. CASE /\ k[p] \notin DOMAIN Ips(p)
           /\ GoTo(p, "link_up")
           /\ k' = [k EXCEPT ![p] = 1]
           /\ UNCHANGED netns
  <2>1. pc' = [pc EXCEPT ![p] = "link_up"] /\ pc'[p] = "link_up" /\ "link_up" \in Inside
    BY <1>2, <1>7 DEF GoTo, WireTypes, Inside, Paired, HostUp, Mastered, Answering, Addressed
  <2>2. k' \in [Proc -> Nat \ {0}] /\ k'[p] = 1 /\ \A q \in Proc : q # p => UNCHANGED k[q]
    BY <1>2, <1>7 DEF WireTypes
  <2>3. NsGrows /\ VethIsInside' /\ netns' \in [Att -> Namespaces]
    BY <1>2, <1>7 DEF NsGrows, VethIsInside, WireTypes
  <2>4. InterfaceMade(p)'
    BY <1>2, <1>3, <1>7, <2>1 DEF InterfaceMade, ns, Routed, Wired
  <2>5. \A n \in DOMAIN Ips(p) : Block(Ips(p)[n]) \in ns(p).addrs
    BY <1>2, <1>4, <1>7
  <2>6. ResultSet(p)'
    BY <1>3, <1>7, <2>1, <2>5 DEF ResultSet, ns, Ips, Wired
  <2>. QED
    BY <1>2, <1>3, <2>1, <2>2, <2>3, <2>4, <2>6, InterfaceStep DEF WireTypes
<1>. QED
  BY <1>5, <1>6, <1>7 DEF AddrAdd

LEMMA LinkUpKeeps ==
  ASSUME WireInv, NEW p \in Proc, LinkUp(p)
  PROVE  WireInv'
<1>1. pc[p] = "link_up"
  BY DEF LinkUp, Step, At
<1>2. /\ WireTypes /\ ProcessOk(p) /\ VethIsInside
      /\ ~At(p, "idle") /\ pc[p] \in BridgeIsUp
      /\ att[p] \in Att /\ ns(p) \in Namespaces
      /\ ns(p).there /\ ns(p).veth /\ ns(p).host_up /\ ns(p).master
      /\ result[p].routes \in Seq(Routes)
  BY <1>1, Configuring
<1>3. /\ netns' = [netns EXCEPT ![att[p]].up = TRUE]
      /\ pc' = [pc EXCEPT ![p] = "route_add"]
      /\ UNCHANGED <<bridge, given, att, adding, result, k>>
  BY DEF LinkUp, Step, GoTo, host
<1>4. pc'[p] = "route_add" /\ "route_add" \in Inside
  BY <1>2, <1>3 DEF WireTypes, Inside, Paired, HostUp, Mastered, Answering, Addressed, Routed
<1>5. /\ netns' \in [Att -> Namespaces] /\ NsGrows
      /\ netns'[att[p]] = [ns(p) EXCEPT !.up = TRUE]
  <2>1. Grown(ns(p), [ns(p) EXCEPT !.up = TRUE])
    BY <1>2 DEF Grown, Namespaces
  <2>2. netns' = [netns EXCEPT ![att[p]] = [ns(p) EXCEPT !.up = TRUE]]
    BY <1>3 DEF ns
  <2>. QED
    BY <1>2, <2>1, <2>2, NamespaceGrows DEF ns
<1>6. VethIsInside'
  BY <1>2, <1>3, <1>5 DEF VethIsInside, WireTypes, ns, NsGrows
<1>7. InterfaceMade(p)'
  BY <1>2, <1>3, <1>5 DEF InterfaceMade, ns, NsGrows, Namespaces
<1>8. \A n \in DOMAIN Ips(p) : Block(Ips(p)[n]) \in ns(p).addrs
  BY <1>1, <1>2 DEF ProcessOk, ResultSet, Addressed
<1>9. k'[p] = 1
  BY <1>1, <1>2, <1>3 DEF ProcessOk, AtWork, Wired
<1>10. ns(p)'.addrs = ns(p).addrs /\ Ips(p)' = Ips(p)
  BY <1>2, <1>3, <1>5 DEF ns, Ips, Namespaces
<1>11. ResultSet(p)'
  BY <1>2, <1>3, <1>4, <1>8, <1>9, <1>10 DEF ResultSet, Wired
<1>. QED
  BY <1>2, <1>3, <1>4, <1>5, <1>6, <1>7, <1>9, <1>11, InterfaceStep DEF WireTypes

LEMMA RouteAddKeeps ==
  ASSUME WireInv, NEW p \in Proc, RouteAdd(p)
  PROVE  WireInv'
<1>. DEFINE routes == result[p].routes
<1>1. pc[p] = "route_add"
  BY DEF RouteAdd, At
<1>2. /\ WireTypes /\ ProcessOk(p) /\ VethIsInside
      /\ ~At(p, "idle") /\ pc[p] \in BridgeIsUp
      /\ att[p] \in Att /\ ns(p) \in Namespaces
      /\ ns(p).there /\ ns(p).veth /\ ns(p).host_up /\ ns(p).master
      /\ routes \in Seq(Routes) /\ k[p] \in Nat \ {0}
  BY <1>1, Configuring
<1>3. UNCHANGED <<bridge, given, att, adding, result>>
  BY DEF RouteAdd, host
<1>4. /\ \A n \in DOMAIN routes : n < k[p] => routes[n] \in ns(p).routes
      /\ \A n \in DOMAIN Ips(p) : Block(Ips(p)[n]) \in ns(p).addrs
      /\ ns(p).up
  BY <1>1, <1>2 DEF ProcessOk, ResultSet, InterfaceMade, Addressed, Routed
<1>5. CASE Fail(p) /\ UNCHANGED <<netns, k>>
  BY <1>2, <1>3, <1>5, FailKeeps
<1>6. CASE /\ k[p] \in DOMAIN routes
           /\ netns' = [netns EXCEPT ![att[p]].routes = @ \cup {routes[k[p]]}]
           /\ k' = [k EXCEPT ![p] = @ + 1]
           /\ UNCHANGED pc
  <2>1. routes[k[p]] \in Routes
    BY <1>2, <1>6
  <2>2. Grown(ns(p), [ns(p) EXCEPT !.routes = @ \cup {routes[k[p]]}])
    BY <1>2, <2>1 DEF Grown, Namespaces
  <2>3. netns' = [netns EXCEPT ![att[p]] = [ns(p) EXCEPT !.routes = @ \cup {routes[k[p]]}]]
    BY <1>6 DEF ns
  <2>4. /\ netns' \in [Att -> Namespaces] /\ NsGrows
        /\ netns'[att[p]] = [ns(p) EXCEPT !.routes = @ \cup {routes[k[p]]}]
    BY <1>2, <2>2, <2>3, NamespaceGrows DEF ns
  <2>5. k' \in [Proc -> Nat \ {0}] /\ k'[p] = k[p] + 1 /\ \A q \in Proc : q # p => UNCHANGED k[q]
    BY <1>2, <1>6 DEF WireTypes
  <2>6. VethIsInside'
    BY <1>2, <2>3, <2>4 DEF VethIsInside, WireTypes, ns, NsGrows
  <2>7. InterfaceMade(p)'
    BY <1>2, <1>3, <1>4, <2>4 DEF InterfaceMade, ns, NsGrows
  <2>8. \A n \in DOMAIN routes : n < k[p] + 1 => routes[n] \in ns(p).routes \cup {routes[k[p]]}
    BY <1>2, <1>4
  <2>9. /\ ns(p)'.routes = ns(p).routes \cup {routes[k[p]]} /\ ns(p)'.addrs = ns(p).addrs
        /\ Ips(p)' = Ips(p) /\ routes' = routes
    BY <1>2, <1>3, <2>4 DEF ns, Ips, Namespaces
  <2>10. ResultSet(p)'
    BY <1>1, <1>4, <1>6, <2>5, <2>8, <2>9 DEF ResultSet, Wired
  <2>11. pc' = [pc EXCEPT ![p] = "route_add"] /\ "route_add" \in Inside
    BY <1>1, <1>2, <1>6 DEF WireTypes, Inside, Paired, HostUp, Mastered, Answering, Addressed, Routed
  <2>. QED
    BY <1>2, <1>3, <2>4, <2>5, <2>6, <2>7, <2>10, <2>11, InterfaceStep DEF WireTypes
<1>7. CASE /\ k[p] \notin DOMAIN routes
           /\ GoTo(p, IF Effective(conf(p)).is_gw THEN "addr_list" ELSE "list_chains")
           /\ k' = [k EXCEPT ![p] = 1]
           /\ UNCHANGED netns
  <2>1. PICK l \in {"addr_list", "list_chains"} : GoTo(p, l)
    BY <1>7
  <2>2. pc' = [pc EXCEPT ![p] = l] /\ pc'[p] = l /\ l \in Wired /\ l \in Inside
    BY <1>2, <2>1 DEF GoTo, WireTypes, Inside, Paired, HostUp, Mastered, Answering, Addressed, Routed,
       Wired
  <2>3. k' \in [Proc -> Nat \ {0}] /\ \A q \in Proc : q # p => UNCHANGED k[q]
    BY <1>2, <1>7 DEF WireTypes
  <2>4. NsGrows /\ VethIsInside' /\ netns' \in [Att -> Namespaces]
    BY <1>2, <1>7 DEF NsGrows, VethIsInside, WireTypes
  <2>5. InterfaceMade(p)'
    BY <1>2, <1>3, <1>4, <1>7 DEF InterfaceMade, ns
  <2>6. Range(routes) \subseteq ns(p).routes
    <3>1. \A n \in DOMAIN routes : routes[n] \in ns(p).routes
      BY <1>2, <1>4, <1>7
    <3>. QED
      BY <3>1 DEF Range
  <2>7. ResultSet(p)'
    BY <1>3, <1>4, <1>7, <2>2, <2>6 DEF ResultSet, ns, Ips, Wired
  <2>. QED
    BY <1>2, <1>3, <2>2, <2>3, <2>4, <2>5, <2>7, InterfaceStep DEF WireTypes
<1>. QED
  BY <1>5, <1>6, <1>7 DEF RouteAdd

----------------------------------------------------------------------------
(* The gateways of the bridge and the nat chains.                          *)

\* A step of a wired process, to another of its operations or to its end.
GoesOn(p) ==
  /\ pc[p] \in Wired
  /\ \E l \in Wired \cup {"exit"} : pc' = [pc EXCEPT ![p] = l]
  /\ UNCHANGED k \/ \E n \in {1, k[p] + 1} : k' = [k EXCEPT ![p] = n]
  /\ UNCHANGED <<bridge, netns, given, att, adding, result>>

LEMMA WiredKeeps ==
  ASSUME WireInv, NEW p \in Proc,
         \/ AddrList(p) \/ EnsureAddr(p) \/ BridgeAddrDel(p) \/ BridgeAddrAdd(p)
         \/ EnableForward(p) \/ ListChains(p) \/ NewChain(p) \/ AppendAccept(p)
         \/ AppendMasq(p) \/ AppendPost(p)
  PROVE  WireInv'
<1>1. k[p] \in Nat \ {0} /\ pc = [pc EXCEPT ![p] = pc[p]]
  BY DEF WireInv, WireTypes
<1>2. ASSUME AddrList(p) PROVE GoesOn(p)
  BY <1>1, <1>2 DEF GoesOn, AddrList, GoTo, At, Wired, host
<1>3. ASSUME EnsureAddr(p) PROVE GoesOn(p)
  BY <1>1, <1>3 DEF GoesOn, EnsureAddr, InTheWay, Fail, GoTo, At, Wired, host
<1>4. ASSUME BridgeAddrDel(p) PROVE GoesOn(p)
  BY <1>1, <1>4 DEF GoesOn, BridgeAddrDel, Fail, GoTo, At, Wired, host
<1>5. ASSUME BridgeAddrAdd(p) PROVE GoesOn(p)
  BY <1>1, <1>5 DEF GoesOn, BridgeAddrAdd, Fail, GoTo, At, Wired, host
<1>6. ASSUME EnableForward(p) PROVE GoesOn(p)
  BY <1>1, <1>6 DEF GoesOn, EnableForward, Step, GoTo, At, Wired, host
<1>7. ASSUME ListChains(p) PROVE GoesOn(p)
  BY <1>1, <1>7 DEF GoesOn, ListChains, GoTo, At, Wired, host
<1>8. ASSUME NewChain(p) PROVE GoesOn(p)
  BY <1>1, <1>8 DEF GoesOn, NewChain, Fail, GoTo, At, Wired, host
<1>9. ASSUME AppendAccept(p) PROVE GoesOn(p)
  BY <1>1, <1>9 DEF GoesOn, AppendAccept, AppendUnique, Fail, GoTo, At, Wired, host
<1>10. ASSUME AppendMasq(p) PROVE GoesOn(p)
  BY <1>1, <1>10 DEF GoesOn, AppendMasq, AppendUnique, Fail, GoTo, At, Wired, host
<1>11. ASSUME AppendPost(p) PROVE GoesOn(p)
  BY <1>1, <1>11 DEF GoesOn, AppendPost, Fail, GoTo, At, Wired, host
<1>12. GoesOn(p)
  BY <1>2, <1>3, <1>4, <1>5, <1>6, <1>7, <1>8, <1>9, <1>10, <1>11
<1>13. UNCHANGED k \/ \E n \in Nat \ {0} : k' = [k EXCEPT ![p] = n]
  BY <1>1, <1>12 DEF GoesOn
<1>. QED
  BY <1>12, <1>13, WiredGoesOn DEF GoesOn

----------------------------------------------------------------------------
(* The ends of a process, and the runtime.                                 *)

LEMMA FaultKeeps ==
  ASSUME WireInv, NEW p \in Proc, Fault(p)
  PROVE  WireInv'
BY FailKeeps DEF Fault, At, host

\* A process that starts or ends changes nothing of the host's.
LEMMA StartOrEnd ==
  ASSUME WireInv, NEW p \in Proc, UNCHANGED <<bridge, netns>>, Others(p),
         WireTypes', AtWork(p)', pc'[p] \in {"idle", "link_add"},
         \A q \in Proc \ {p} : att'[p] # NoAtt => att[q] # att'[p],
         AnsweredIsWired'
  PROVE  WireInv'
<1>1. NsGrows /\ BridgeGrows /\ VethIsInside'
  BY DEF NsGrows, BridgeGrows, WireInv, VethIsInside
<1>2. ProcessOk(p)'
  BY DEF ProcessOk, BridgeFound, InterfaceMade, ResultSet, BridgeIsThere, BridgeIsUp, Inside,
     Paired, HostUp, Mastered, Answering, Addressed, Routed, Wired
<1>3. \A q \in Proc : ProcessOk(q)'
  BY <1>1, <1>2, OthersOk
<1>4. OneProcPerAtt'
  BY DEF WireInv, OneProcPerAtt, Others
<1>. QED
  BY <1>1, <1>3, <1>4 DEF WireInv

LEMMA InvokeKeeps ==
  ASSUME WireInv, NEW p \in Proc, NEW a \in Att, NEW c \in DOMAIN Handler, Invoke(p, a, c)
  PROVE  WireInv'
<1>1. WireTypes /\ AtWork(p) /\ AnsweredIsWired /\ pc[p] = "idle" /\ k[p] = 1
  BY DEF WireInv, ProcessOk, AtWork, Wired, Invoke, Step, At
<1>2. /\ \A q \in Proc : att[q] # a
      /\ pc' = [pc EXCEPT ![p] = "link_add"]
      /\ att' = [att EXCEPT ![p] = a]
      /\ adding' = [adding EXCEPT ![p] = c = "ADD"]
      /\ given' = given \/ given' = [given EXCEPT ![a] = NoAnswer]
      /\ UNCHANGED <<bridge, netns, result, k>>
  BY DEF Invoke, Step, GoTo, host
<1>3. WireTypes' /\ Others(p) /\ pc'[p] = "link_add" /\ att'[p] = a
  BY <1>1, <1>2 DEF WireTypes, Others, Label
<1>4. AtWork(p)'
  BY <1>1, <1>2, <1>3, BridgeAssumption DEF AtWork, At, BridgeAssumption
<1>5. \A b \in Att : given'[b] # NoAnswer => given'[b] = given[b]
  BY <1>1, <1>2 DEF WireTypes
<1>6. AnsweredIsWired'
  BY <1>1, <1>2, <1>5 DEF AnsweredIsWired
<1>. QED
  BY <1>2, <1>3, <1>4, <1>6, StartOrEnd

LEMMA EndedIsIdle ==
  ASSUME WireTypes, NEW p \in Proc, Ended(p), UNCHANGED <<bridge, netns>>,
         given' \in [Att -> Results \cup {NoAnswer}]
  PROVE  WireTypes' /\ Others(p) /\ AtWork(p)' /\ pc'[p] = "idle" /\ att'[p] = NoAtt
<1>1. NoResult \in Results
  BY DEF NoResult, Results
<1>2. WireTypes'
  BY <1>1 DEF Ended, GoTo, WireTypes, Label
<1>. QED
  BY <1>2 DEF Ended, GoTo, WireTypes, Others, AtWork, At

LEMMA ExitKeeps ==
  ASSUME WireInv, NEW p \in Proc, Exit(p)
  PROVE  WireInv'
<1>1. WireTypes /\ Ended(p) /\ UNCHANGED <<bridge, netns, given>>
  BY DEF WireInv, Exit, host
<1>2. WireTypes' /\ Others(p) /\ AtWork(p)' /\ pc'[p] = "idle" /\ att'[p] = NoAtt
  BY <1>1, EndedIsIdle DEF WireTypes
<1>3. AnsweredIsWired'
  BY <1>1 DEF WireInv, AnsweredIsWired
<1>. QED
  BY <1>1, <1>2, <1>3, StartOrEnd

\* What a process answers is what it has set.
LEMMA ReplyKeeps ==
  ASSUME WireInv, NEW p \in Proc, Reply(p)
  PROVE  WireInv'
<1>1. WireTypes /\ ProcessOk(p) /\ AnsweredIsWired /\ pc[p] = "reply" /\ att[p] \in Att
  BY AttOfProc DEF WireInv, ProcessOk, Reply, At
<1>2. /\ Ended(p) /\ UNCHANGED <<bridge, netns>>
      /\ given' = given \/ given' = [given EXCEPT ![att[p]] = result[p]]
  BY DEF Reply, host
<1>3. given' \in [Att -> Results \cup {NoAnswer}]
  BY <1>1, <1>2 DEF WireTypes
<1>4. WireTypes' /\ Others(p) /\ AtWork(p)' /\ pc'[p] = "idle" /\ att'[p] = NoAtt
  BY <1>1, <1>2, <1>3, EndedIsIdle
<1>5. /\ bridge.kind = "bridge" /\ bridge.up
      /\ ns(p).veth /\ ns(p).up /\ ns(p).host_up /\ ns(p).master
      /\ \A n \in DOMAIN Ips(p) : Block(Ips(p)[n]) \in ns(p).addrs
      /\ Range(result[p].routes) \subseteq ns(p).routes
  BY <1>1 DEF ProcessOk, BridgeFound, InterfaceMade, ResultSet, BridgeIsThere, BridgeIsUp, Inside,
     Paired, HostUp, Mastered, Answering, Addressed, Routed, Wired
<1>6. AnsweredIsWired'
  <2>1. \A b \in Att : given'[b] = given[b] \/ (b = att[p] /\ given'[b] = result[p])
    <3>1. CASE given' = given
      BY <3>1
    <3>2. CASE given' = [given EXCEPT ![att[p]] = result[p]]
      BY <1>1, <3>2 DEF WireTypes
    <3>. QED
      BY <1>2, <3>1, <3>2
  <2>. QED
    BY <1>1, <1>2, <1>5, <2>1 DEF AnsweredIsWired, ns, Ips
<1>. QED
  BY <1>2, <1>4, <1>6, StartOrEnd

\* The runtime changes a namespace that no process has found yet.
LEMMA NewNamespace ==
  ASSUME WireInv, NEW a \in Att, NEW m \in Namespaces, m.veth => m.there,
         \A p \in Proc : att[p] = a => pc[p] \notin Inside,
         netns' = [netns EXCEPT ![a] = m],
         given' \in [Att -> Results \cup {NoAnswer}], given'[a] = NoAnswer,
         \A b \in Att \ {a} : given'[b] = given[b],
         UNCHANGED <<bridge, pc, att, adding, result, k>>
  PROVE  WireInv'
<1>1. \A b \in Att \ {a} : netns'[b] = netns[b]
  BY DEF WireInv, WireTypes
<1>2. WireTypes' /\ VethIsInside' /\ OneProcPerAtt'
  BY <1>1 DEF WireInv, WireTypes, VethIsInside, OneProcPerAtt
<1>3. AnsweredIsWired'
  BY <1>1 DEF WireInv, AnsweredIsWired
<1>4. ASSUME NEW p \in Proc PROVE ProcessOk(p)'
  <2>1. ProcessOk(p) /\ AtWork(p)' /\ BridgeFound(p)'
    BY DEF WireInv, ProcessOk, AtWork, At, BridgeFound
  <2>2. CASE pc[p] \notin Inside
    BY <2>1, <2>2 DEF ProcessOk, InterfaceMade, ResultSet, Inside, Paired, HostUp, Mastered,
       Answering, Addressed, Routed, Wired
  <2>3. CASE pc[p] \in Inside
    <3>1. att[p] \in Att \ {a}
      BY <2>1, <2>3, AttOfProc DEF WireInv, ProcessOk, At, Inside, Paired, HostUp, Mastered,
         Answering, Addressed, Routed, Wired
    <3>. QED
      BY <1>1, <2>1, <3>1 DEF ProcessOk, InterfaceMade, ResultSet, ns, Ips
  <2>. QED
    BY <2>2, <2>3
<1>. QED
  BY <1>2, <1>3, <1>4 DEF WireInv

LEMMA RemoveNetnsKeeps ==
  ASSUME WireInv, NEW a \in Att, RemoveNetns(a)
  PROVE  WireInv'
<1>1. NoNs \in Namespaces /\ ~NoNs.veth
  BY DEF NoNs, FreshNs, Namespaces
<1>. QED
  BY <1>1, NewNamespace DEF RemoveNetns, WireInv, WireTypes, host

LEMMA MakeNetnsKeeps ==
  ASSUME WireInv, NEW a \in Att, MakeNetns(a)
  PROVE  WireInv'
<1>1. FreshNs \in Namespaces /\ ~FreshNs.veth
  BY DEF FreshNs, Namespaces
<1>2. given[a] = NoAnswer
  BY DEF WireInv, VethIsInside, AnsweredIsWired, MakeNetns
<1>3. \A p \in Proc : att[p] = a => pc[p] \notin Inside
  BY DEF WireInv, ProcessOk, InterfaceMade, ns, MakeNetns
<1>. QED
  BY <1>1, <1>2, <1>3, NewNamespace DEF MakeNetns, WireInv, WireTypes, host

----------------------------------------------------------------------------
(* The theorem.                                                            *)

LEMMA WireInit ==
  ASSUME Init
  PROVE  WireInv
<1>1. FreshNs \in Namespaces /\ ~FreshNs.veth
  BY DEF FreshNs, Namespaces
<1>2. WireTypes
  <2>1. NoResult \in Results
    BY DEF NoResult, Results
  <2>2. NoLink \in Links /\ [NoLink EXCEPT !.kind = "other"] \in Links
    BY DEF NoLink, Links
  <2>. QED
    BY <1>1, <2>1, <2>2 DEF Init, WireTypes, Label
<1>3. OneProcPerAtt /\ VethIsInside /\ AnsweredIsWired
  BY <1>1 DEF Init, OneProcPerAtt, VethIsInside, AnsweredIsWired
<1>4. \A p \in Proc : ProcessOk(p)
  BY DEF Init, ProcessOk, AtWork, At, BridgeFound, InterfaceMade, ResultSet, BridgeIsThere,
     BridgeIsUp, Inside, Paired, HostUp, Mastered, Answering, Addressed, Routed, Wired
<1>. QED
  BY <1>2, <1>3, <1>4 DEF WireInv

LEMMA WireNext ==
  ASSUME WireInv, [Next]_vars
  PROVE  WireInv'
<1>1. ASSUME NEW p \in Proc, NEW a \in Att, NEW c \in DOMAIN Handler, Invoke(p, a, c)
      PROVE  WireInv'
  BY <1>1, InvokeKeeps
<1>2. ASSUME NEW p \in Proc, Run(p)
      PROVE  WireInv'
  BY <1>2, LinkAddKeeps, PromiscOnKeeps, BridgeByNameKeeps, AcceptRaKeeps, BridgeUpKeeps,
     GetFromPathKeeps, MakeVethKeeps, HostVethUpKeeps, SetMasterKeeps, DelegateAddKeeps,
     AddrAddKeeps, LinkUpKeeps, RouteAddKeeps, WiredKeeps, ReplyKeeps, ExitKeeps DEF Run
<1>3. ASSUME NEW p \in Proc, Fault(p)
      PROVE  WireInv'
  BY <1>3, FaultKeeps
<1>4. ASSUME NEW a \in Att, RemoveNetns(a) \/ MakeNetns(a)
      PROVE  WireInv'
  BY <1>4, RemoveNetnsKeeps, MakeNetnsKeeps
<1>5. CASE UNCHANGED vars
  BY <1>5 DEF vars, WireInv, WireTypes, OneProcPerAtt, VethIsInside, ProcessOk, AtWork, At,
     BridgeFound, InterfaceMade, ResultSet, AnsweredIsWired, ns, Ips
<1>. QED
  BY <1>1, <1>2, <1>3, <1>4, <1>5 DEF Next

\* What a bridge plugin answered with is wired and stays wired: its ADD, which
\* several processes for other attachments interleave with and any of which
\* may fail or die at any operation (cmd_add, main.rs:33-112), answers only
\* when bridge, veth, addresses and routes are there, and no command takes
\* any of them away.
THEOREM AnsweredStaysWired == Spec => []AnsweredIsWired
<1>1. Init => WireInv
  BY WireInit
<1>2. WireInv /\ [Next]_vars => WireInv'
  BY WireNext
<1>3. WireInv => AnsweredIsWired
  BY DEF WireInv
<1>. QED
  BY <1>1, <1>2, <1>3, PTL DEF Spec
=============================================================================
