-------------------------- MODULE HostSideProofs ---------------------------
(***************************************************************************)
(* What the bridge plugin leaves on the host, for any number of processes, *)
(* attachments and addresses, wherever a process dies: packets that are    *)
(* sent to an attachment's chain are accepted if they are local before the *)
(* rest is masqueraded, the gateways that were handed out stay on the      *)
(* bridge, and every variable has its type.                                *)
(***************************************************************************)
EXTENDS BridgeProofs

ChainRules == {"ACCEPT", "MASQUERADE"} \X Blocks
Chains == Seq(ChainRules) \cup {NoChain}

\* The operations on a chain for one address.
Masquerading == {"new_chain", "accept_rule", "masq_rule", "post_rule"}

Accepted(rules, x) == \E m \in DOMAIN rules : rules[m][1] = "ACCEPT" /\ rules[m][2].ip = x

Ip(p) == Ips(p)[k[p]].ip

\* The rules that a process has appended for its address are there.
RulesMade(p) ==
  /\ pc[p] \in Masquerading => k[p] \in DOMAIN Ips(p)
  /\ pc[p] \in Masquerading \ {"new_chain"} => Rules(p) # NoChain
  /\ pc[p] = "masq_rule" => Accepted(Rules(p), Ip(p))
  /\ pc[p] = "post_rule" => LocalFirst(Rules(p), Ip(p))

MasqInv ==
  /\ chain \in [Att -> [{4, 6} -> Chains]]
  /\ post \subseteq Addr \X Att
  /\ \A p \in Proc : RulesMade(p)
  /\ LocalNotMasqueraded

----------------------------------------------------------------------------
(* Chains only grow.                                                       *)

Extends(longer, rules) ==
  Len(rules) <= Len(longer) /\ \A n \in DOMAIN rules : longer[n] = rules[n]

ChainsGrow ==
  \A a \in Att, f \in {4, 6} : chain[a][f] # NoChain =>
    chain'[a][f] # NoChain /\ Extends(chain'[a][f], chain[a][f])

LEMMA ExtendedKeepsRules ==
  ASSUME NEW rules \in Seq(ChainRules), NEW longer \in Seq(ChainRules), Extends(longer, rules), NEW x
  PROVE  /\ Accepted(rules, x) => Accepted(longer, x)
         /\ LocalFirst(rules, x) => LocalFirst(longer, x)
<1>1. \A n \in DOMAIN rules : n \in DOMAIN longer /\ longer[n] = rules[n]
  BY DEF Extends
<1>. QED
  BY <1>1 DEF Accepted, LocalFirst

LEMMA FamilyOfIp ==
  ASSUME NEW x
  PROVE  Family(x) \in {4, 6}
BY DEF Family

\* A process that stands still, and what was established before.
LEMMA GrowthKeeps ==
  ASSUME WireInv, MasqInv, ChainsGrow, chain' \in [Att -> [{4, 6} -> Chains]],
         NEW p \in Proc, UNCHANGED <<pc[p], att[p], k[p], result[p]>>
  PROVE  RulesMade(p)'
<1>1. RulesMade(p) /\ WireTypes /\ AtWork(p) /\ chain \in [Att -> [{4, 6} -> Chains]]
  BY DEF WireInv, ProcessOk, MasqInv
<1>2. CASE pc[p] \in Masquerading \ {"new_chain"}
  <2>1. att[p] \in Att /\ Family(Ip(p)) \in {4, 6}
    BY <1>1, <1>2, AttOfProc, FamilyOfIp DEF Masquerading, At
  <2>2. Ip(p)' = Ip(p) /\ Ips(p)' = Ips(p)
    BY DEF Ip, Ips
  <2>3. Rules(p) = chain[att[p]][Family(Ip(p))] /\ Rules(p)' = chain'[att[p]][Family(Ip(p))]
    BY <2>2 DEF Rules, Ip
  <2>4. Rules(p) # NoChain /\ Rules(p)' # NoChain /\ Extends(Rules(p)', Rules(p))
    BY <1>1, <1>2, <2>1, <2>3 DEF RulesMade, ChainsGrow
  <2>5. Rules(p) \in Seq(ChainRules) /\ Rules(p)' \in Seq(ChainRules)
    BY <1>1, <2>1, <2>3, <2>4 DEF Chains
  <2>6. /\ Accepted(Rules(p), Ip(p)) => Accepted(Rules(p)', Ip(p))
        /\ LocalFirst(Rules(p), Ip(p)) => LocalFirst(Rules(p)', Ip(p))
    BY <2>4, <2>5, ExtendedKeepsRules
  <2>. QED
    BY <1>1, <1>2, <2>2, <2>4, <2>6 DEF RulesMade, Masquerading
<1>3. CASE pc[p] \notin Masquerading \ {"new_chain"}
  BY <1>1, <1>3 DEF RulesMade, Masquerading, Ips
<1>. QED
  BY <1>2, <1>3

LEMMA LocalStays ==
  ASSUME MasqInv, ChainsGrow, chain' \in [Att -> [{4, 6} -> Chains]], UNCHANGED post
  PROVE  LocalNotMasqueraded'
<1>. SUFFICES ASSUME NEW rule \in post
              PROVE  \E f \in {4, 6} :
                       chain'[rule[2]][f] # NoChain /\ LocalFirst(chain'[rule[2]][f], rule[1])
  BY DEF LocalNotMasqueraded
<1>1. rule[2] \in Att
  BY DEF MasqInv
<1>2. PICK f \in {4, 6} : chain[rule[2]][f] # NoChain /\ LocalFirst(chain[rule[2]][f], rule[1])
  BY DEF MasqInv, LocalNotMasqueraded
<1>3. chain'[rule[2]][f] # NoChain /\ Extends(chain'[rule[2]][f], chain[rule[2]][f])
  BY <1>1, <1>2 DEF ChainsGrow
<1>4. chain[rule[2]][f] \in Seq(ChainRules) /\ chain'[rule[2]][f] \in Seq(ChainRules)
  BY <1>1, <1>2, <1>3 DEF MasqInv, Chains
<1>. QED
  BY <1>2, <1>3, <1>4, ExtendedKeepsRules

\* A step of one process that lengthens at most a chain.
LEMMA MasqStep ==
  ASSUME WireInv, MasqInv, ChainsGrow, chain' \in [Att -> [{4, 6} -> Chains]], UNCHANGED post,
         NEW p \in Proc, Others(p), RulesMade(p)'
  PROVE  MasqInv'
<1>1. \A q \in Proc : RulesMade(q)'
  BY GrowthKeeps DEF Others
<1>. QED
  BY <1>1, LocalStays DEF MasqInv

\* A step of one process that leaves the chains alone.
LEMMA StepAside ==
  ASSUME WireInv, MasqInv, UNCHANGED <<chain, post>>, NEW p \in Proc, Others(p), RulesMade(p)'
  PROVE  MasqInv'
<1>1. chain' \in [Att -> [{4, 6} -> Chains]]
  BY DEF MasqInv
<1>2. ChainsGrow
  <2>. SUFFICES ASSUME NEW a \in Att, NEW f \in {4, 6}, chain[a][f] # NoChain
                PROVE  Extends(chain[a][f], chain[a][f])
    BY DEF ChainsGrow
  <2>1. chain[a][f] \in Seq(ChainRules)
    BY DEF MasqInv, Chains
  <2>. QED
    BY <2>1 DEF Extends
<1>. QED
  BY <1>1, <1>2, MasqStep
----------------------------------------------------------------------------
(* setup_ip_masq.                                                          *)

\* What its operations start from.
LEMMA AtTheChain ==
  ASSUME WireInv, MasqInv, NEW p \in Proc, pc[p] \in Masquerading
  PROVE  /\ att[p] \in Att /\ k[p] \in DOMAIN Ips(p)
         /\ Ips(p)[k[p]] \in IpConfigs /\ Family(Ip(p)) \in {4, 6}
         /\ Rules(p) = chain[att[p]][Family(Ip(p))] /\ Rules(p) \in Chains
<1>1. WireTypes /\ AtWork(p) /\ RulesMade(p) /\ chain \in [Att -> [{4, 6} -> Chains]]
  BY DEF WireInv, ProcessOk, MasqInv
<1>2. att[p] \in Att
  BY <1>1, AttOfProc DEF Masquerading, At
<1>3. k[p] \in DOMAIN Ips(p) /\ Ips(p) \in Seq(IpConfigs)
  BY <1>1 DEF RulesMade, WireTypes, Ips, Results
<1>. QED
  BY <1>1, <1>2, <1>3, FamilyOfIp DEF Rules, Ip

\* A chain that is made or gets a rule.
LEMMA ChainSet ==
  ASSUME MasqInv, NEW a \in Att, NEW f \in {4, 6}, NEW rules \in Seq(ChainRules),
         chain[a][f] # NoChain => Extends(rules, chain[a][f]),
         chain' = [chain EXCEPT ![a][f] = rules]
  PROVE  chain' \in [Att -> [{4, 6} -> Chains]] /\ ChainsGrow /\ chain'[a][f] = rules
<1>1. chain \in [Att -> [{4, 6} -> Chains]]
  BY DEF MasqInv
<1>2. chain' = [chain EXCEPT ![a] = [chain[a] EXCEPT ![f] = rules]]
  OBVIOUS
<1>3. [chain[a] EXCEPT ![f] = rules] \in [{4, 6} -> Chains]
  BY <1>1 DEF Chains
<1>4. chain' \in [Att -> [{4, 6} -> Chains]] /\ chain'[a][f] = rules
  BY <1>1, <1>2, <1>3
<1>5. ASSUME NEW b \in Att, NEW g \in {4, 6}, chain[b][g] # NoChain
      PROVE  chain'[b][g] # NoChain /\ Extends(chain'[b][g], chain[b][g])
  <2>1. CASE b = a /\ g = f
    BY <1>4, <1>5, <2>1, BridgeAssumption DEF BridgeAssumption, ChainRules
  <2>2. CASE ~(b = a /\ g = f)
    <3>1. chain'[b][g] = chain[b][g]
      BY <1>1, <1>2, <2>2
    <3>2. chain[b][g] \in Seq(ChainRules)
      BY <1>1, <1>5 DEF Chains
    <3>. QED
      BY <1>5, <3>1, <3>2 DEF Extends
  <2>. QED
    BY <2>1, <2>2
<1>. QED
  BY <1>4, <1>5 DEF ChainsGrow

\* append_unique: the chain ends with the rule, or the process fails.
LEMMA Appended ==
  ASSUME WireInv, MasqInv, NEW p \in Proc, pc[p] \in Masquerading \ {"new_chain"},
         NEW rule \in ChainRules, NEW l, AppendUnique(p, rule, l), pc'[p] # "exit"
  PROVE  /\ chain' \in [Att -> [{4, 6} -> Chains]] /\ ChainsGrow
         /\ Rules(p) \in Seq(ChainRules) /\ Rules(p)' = Append(Rules(p), rule)
         /\ Rules(p)' # NoChain /\ Rules(p)' \in Seq(ChainRules)
<1>1. /\ att[p] \in Att /\ Family(Ip(p)) \in {4, 6}
      /\ Rules(p) = chain[att[p]][Family(Ip(p))] /\ Rules(p) \in Chains
  BY AtTheChain DEF Masquerading
<1>2. RulesMade(p) /\ pc \in [Proc -> Label]
  BY DEF MasqInv, WireInv, WireTypes
<1>3. Rules(p) # NoChain /\ Rules(p) \in Seq(ChainRules)
  BY <1>1, <1>2 DEF RulesMade, Chains
<1>4. chain' = [chain EXCEPT ![att[p]][Family(Ip(p))] = Append(Rules(p), rule)]
  BY <1>1, <1>2 DEF AppendUnique, Fail, GoTo, Ip
<1>5. /\ Append(Rules(p), rule) \in Seq(ChainRules)
      /\ Extends(Append(Rules(p), rule), Rules(p))
  BY <1>3 DEF Extends
<1>6. /\ chain' \in [Att -> [{4, 6} -> Chains]] /\ ChainsGrow
      /\ chain'[att[p]][Family(Ip(p))] = Append(Rules(p), rule)
  <2>. DEFINE a == att[p]
              f == Family(Ip(p))
              rules == Append(Rules(p), rule)
  <2>1. a \in Att /\ f \in {4, 6} /\ rules \in Seq(ChainRules)
    BY <1>1, <1>5
  <2>2. Extends(rules, chain[a][f])
    BY <1>1, <1>5
  <2>3. chain' = [chain EXCEPT ![a][f] = rules]
    BY <1>4
  <2>. HIDE DEF a, f, rules
  <2>4. chain' \in [Att -> [{4, 6} -> Chains]] /\ ChainsGrow /\ chain'[a][f] = rules
    BY <2>1, <2>2, <2>3, ChainSet
  <2>. QED
    BY <2>4 DEF a, f, rules
<1>7. Rules(p)' = Append(Rules(p), rule)
  BY <1>6 DEF Rules, Ip, Ips, AppendUnique
<1>. QED
  BY <1>3, <1>5, <1>6, <1>7, BridgeAssumption DEF BridgeAssumption, ChainRules

LEMMA ListChainsRules ==
  ASSUME WireInv, MasqInv, NEW p \in Proc, ListChains(p)
  PROVE  MasqInv'
<1>1. UNCHANGED <<chain, post, att, k, result>> /\ WireTypes
  BY DEF ListChains, host, WireInv
<1>2. Others(p) /\ pc'[p] \in Label
  BY <1>1 DEF ListChains, GoTo, WireTypes, Others, Label
<1>3. /\ pc'[p] \in Masquerading => k[p] \in DOMAIN Ips(p)
      /\ pc'[p] \in Masquerading \ {"new_chain"} => Rules(p) # NoChain
      /\ pc'[p] \notin {"masq_rule", "post_rule"}
  BY <1>1 DEF ListChains, GoTo, WireTypes, Masquerading
<1>4. RulesMade(p)'
  BY <1>1, <1>3 DEF RulesMade, Rules, Ips
<1>. QED
  BY <1>1, <1>2, <1>4, StepAside

LEMMA NewChainRules ==
  ASSUME WireInv, MasqInv, NEW p \in Proc, NewChain(p), pc'[p] # "exit"
  PROVE  MasqInv'
<1>1. /\ WireTypes /\ pc[p] = "new_chain" /\ UNCHANGED <<post, att, k, result>>
      /\ pc' = [pc EXCEPT ![p] = "accept_rule"] /\ Rules(p) = NoChain
      /\ chain' = [chain EXCEPT ![att[p]][Family(Ip(p))] = <<>>]
  BY DEF NewChain, WireInv, WireTypes, At, Fail, GoTo, Ip
<1>2. /\ att[p] \in Att /\ Family(Ip(p)) \in {4, 6} /\ k[p] \in DOMAIN Ips(p)
      /\ Rules(p) = chain[att[p]][Family(Ip(p))]
  BY <1>1, AtTheChain DEF Masquerading
<1>3. /\ chain' \in [Att -> [{4, 6} -> Chains]] /\ ChainsGrow
      /\ chain'[att[p]][Family(Ip(p))] = <<>>
  <2>. DEFINE a == att[p]
              f == Family(Ip(p))
              rules == <<>>
  <2>1. a \in Att /\ f \in {4, 6} /\ rules \in Seq(ChainRules) /\ chain[a][f] = NoChain
    BY <1>1, <1>2
  <2>2. chain' = [chain EXCEPT ![a][f] = rules]
    BY <1>1
  <2>. HIDE DEF a, f, rules
  <2>3. chain' \in [Att -> [{4, 6} -> Chains]] /\ ChainsGrow /\ chain'[a][f] = rules
    BY <2>1, <2>2, ChainSet
  <2>. QED
    BY <2>3 DEF a, f, rules
<1>4. Others(p) /\ pc'[p] = "accept_rule"
  BY <1>1 DEF WireTypes, Others
<1>5. Rules(p)' # NoChain
  <2>1. Rules(p)' = <<>> /\ <<>> \in Seq(ChainRules)
    BY <1>1, <1>3 DEF Rules, Ip, Ips
  <2>. QED
    BY <2>1, BridgeAssumption DEF BridgeAssumption, ChainRules
<1>6. RulesMade(p)'
  BY <1>1, <1>2, <1>4, <1>5 DEF RulesMade, Ips
<1>. QED
  BY <1>1, <1>3, <1>4, <1>6, MasqStep

LEMMA AppendAcceptRules ==
  ASSUME WireInv, MasqInv, NEW p \in Proc, AppendAccept(p), pc'[p] # "exit"
  PROVE  MasqInv'
<1>1. /\ WireTypes /\ pc[p] = "accept_rule" /\ UNCHANGED <<post, att, k, result>>
      /\ pc' = [pc EXCEPT ![p] = "masq_rule"] /\ AppendUnique(p, AcceptRule(p), "masq_rule")
  BY DEF AppendAccept, AppendUnique, WireInv, WireTypes, At, Fail, GoTo
<1>2. k[p] \in DOMAIN Ips(p) /\ Ips(p)[k[p]] \in IpConfigs
  BY <1>1, AtTheChain DEF Masquerading
<1>3. /\ AcceptRule(p) \in ChainRules
      /\ AcceptRule(p)[1] = "ACCEPT" /\ AcceptRule(p)[2].ip = Ip(p)
  BY <1>2 DEF AcceptRule, ChainRules, Block, Blocks, IpConfigs, Ip
<1>4. /\ chain' \in [Att -> [{4, 6} -> Chains]] /\ ChainsGrow
      /\ Rules(p) \in Seq(ChainRules) /\ Rules(p)' = Append(Rules(p), AcceptRule(p))
      /\ Rules(p)' # NoChain
  BY <1>1, <1>3, Appended DEF Masquerading
<1>5. Others(p) /\ pc'[p] = "masq_rule"
  BY <1>1 DEF WireTypes, Others
<1>6. Accepted(Rules(p)', Ip(p))
  <2>1. /\ Len(Rules(p)) + 1 \in DOMAIN Rules(p)'
        /\ Rules(p)'[Len(Rules(p)) + 1] = AcceptRule(p)
    BY <1>4
  <2>. QED
    BY <1>3, <2>1 DEF Accepted
<1>7. RulesMade(p)'
  BY <1>1, <1>2, <1>4, <1>5, <1>6 DEF RulesMade, Ip, Ips
<1>. QED
  BY <1>1, <1>4, <1>5, <1>7, MasqStep

LEMMA AppendMasqRules ==
  ASSUME WireInv, MasqInv, NEW p \in Proc, AppendMasq(p), pc'[p] # "exit"
  PROVE  MasqInv'
<1>1. /\ WireTypes /\ pc[p] = "masq_rule" /\ UNCHANGED <<post, att, k, result>>
      /\ pc' = [pc EXCEPT ![p] = "post_rule"] /\ AppendUnique(p, MasqRule, "post_rule")
  BY DEF AppendMasq, AppendUnique, WireInv, WireTypes, At, Fail, GoTo
<1>2. k[p] \in DOMAIN Ips(p) /\ Accepted(Rules(p), Ip(p))
  BY <1>1 DEF MasqInv, RulesMade, Masquerading
<1>3. MasqRule \in ChainRules
  BY MaxAddrAssumption DEF MasqRule, ChainRules, Blocks, Addr
<1>4. /\ chain' \in [Att -> [{4, 6} -> Chains]] /\ ChainsGrow
      /\ Rules(p) \in Seq(ChainRules) /\ Rules(p)' = Append(Rules(p), MasqRule)
      /\ Rules(p)' # NoChain
  BY <1>1, <1>3, Appended DEF Masquerading
<1>5. Others(p) /\ pc'[p] = "post_rule"
  BY <1>1 DEF WireTypes, Others
<1>6. LocalFirst(Rules(p)', Ip(p))
  <2>1. /\ Len(Rules(p)) + 1 \in DOMAIN Rules(p)'
        /\ Rules(p)'[Len(Rules(p)) + 1] = MasqRule
        /\ \A m \in DOMAIN Rules(p) : m \in DOMAIN Rules(p)' /\ m < Len(Rules(p)) + 1
                                      /\ Rules(p)'[m] = Rules(p)[m]
    BY <1>4
  <2>. QED
    BY <1>2, <2>1 DEF Accepted, LocalFirst
<1>7. RulesMade(p)'
  BY <1>1, <1>2, <1>4, <1>5, <1>6 DEF RulesMade, Ip, Ips
<1>. QED
  BY <1>1, <1>4, <1>5, <1>7, MasqStep

LEMMA AppendPostRules ==
  ASSUME WireInv, MasqInv, NEW p \in Proc, AppendPost(p), pc'[p] # "exit"
  PROVE  MasqInv'
<1>1. /\ WireTypes /\ pc[p] = "post_rule" /\ UNCHANGED <<chain, att, result>>
      /\ pc' = [pc EXCEPT ![p] = "list_chains"] /\ k' = [k EXCEPT ![p] = @ + 1]
      /\ post' = post \cup {<<Ip(p), att[p]>>}
  BY DEF AppendPost, WireInv, WireTypes, At, Fail, GoTo, Ip
<1>2. /\ att[p] \in Att /\ Ips(p)[k[p]] \in IpConfigs /\ Family(Ip(p)) \in {4, 6}
      /\ Rules(p) = chain[att[p]][Family(Ip(p))]
  BY <1>1, AtTheChain DEF Masquerading
<1>3. Rules(p) # NoChain /\ LocalFirst(Rules(p), Ip(p))
  BY <1>1 DEF MasqInv, RulesMade, Masquerading
<1>4. MasqInv
  OBVIOUS
<1>5. Others(p) /\ pc'[p] = "list_chains"
  BY <1>1 DEF WireTypes, Others
<1>6. post' \subseteq Addr \X Att
  BY <1>1, <1>2 DEF MasqInv, Ip, IpConfigs
<1>7. LocalNotMasqueraded'
  BY <1>1, <1>2, <1>3 DEF MasqInv, LocalNotMasqueraded
<1>8. ASSUME NEW q \in Proc PROVE RulesMade(q)'
  BY <1>1, <1>5 DEF MasqInv, RulesMade, Masquerading, Others, Rules, Ip, Ips
<1>. QED
  BY <1>1, <1>6, <1>7, <1>8 DEF MasqInv

----------------------------------------------------------------------------
(* The other steps, and the theorem.                                       *)

\* A process that goes on, and not to the chains.
Aside(p) ==
  /\ UNCHANGED <<chain, post>> /\ Others(p)
  /\ pc'[p] \notin Masquerading

LEMMA AsideKeeps ==
  ASSUME WireInv, MasqInv, NEW p \in Proc, Aside(p)
  PROVE  MasqInv'
<1>1. RulesMade(p)'
  BY DEF Aside, RulesMade, Masquerading
<1>. QED
  BY <1>1, StepAside DEF Aside

LEMMA RunKeepsRules ==
  ASSUME WireInv, MasqInv, NEW p \in Proc, Run(p) \/ Fault(p)
  PROVE  MasqInv'
<1>1. WireTypes
  BY DEF WireInv
<1>. USE DEF Aside, Others, Masquerading, At, GoTo, Step, Fail, host
<1>2. CASE LinkAdd(p) \/ PromiscOn(p) \/ BridgeByName(p) \/ AcceptRa(p) \/ BridgeUp(p)
  <2>1. Aside(p)
    BY <1>1, <1>2 DEF WireTypes, LinkAdd, PromiscOn, BridgeByName, AcceptRa, BridgeUp
  <2>. QED
    BY <2>1, AsideKeeps
<1>3. CASE GetFromPath(p) \/ MakeVeth(p) \/ HostVethUp(p) \/ SetMaster(p) \/ DelegateAdd(p)
  <2>1. Aside(p)
    BY <1>1, <1>3 DEF WireTypes, GetFromPath, MakeVeth, HostVethUp, SetMaster, DelegateAdd,
       Answered, DelegateFails
  <2>. QED
    BY <2>1, AsideKeeps
<1>4. CASE AddrAdd(p) \/ LinkUp(p) \/ RouteAdd(p)
  <2>1. Aside(p)
    BY <1>1, <1>4 DEF WireTypes, AddrAdd, LinkUp, RouteAdd
  <2>. QED
    BY <2>1, AsideKeeps
<1>5. CASE \/ AddrList(p) \/ EnsureAddr(p) \/ BridgeAddrDel(p) \/ BridgeAddrAdd(p)
           \/ EnableForward(p)
  <2>1. Aside(p)
    BY <1>1, <1>5 DEF WireTypes, AddrList, EnsureAddr, InTheWay, BridgeAddrDel, BridgeAddrAdd,
       EnableForward
  <2>. QED
    BY <2>1, AsideKeeps
<1>6. CASE Reply(p) \/ Exit(p) \/ Fault(p)
  <2>1. Aside(p)
    BY <1>1, <1>6 DEF WireTypes, Reply, Exit, Ended, Fault
  <2>. QED
    BY <2>1, AsideKeeps
<1>7. CASE (NewChain(p) \/ AppendAccept(p) \/ AppendMasq(p) \/ AppendPost(p)) /\ pc'[p] = "exit"
  <2>1. Aside(p)
    BY <1>1, <1>7 DEF WireTypes, NewChain, AppendAccept, AppendMasq, AppendUnique, AppendPost
  <2>. QED
    BY <2>1, AsideKeeps
<1>8. CASE ListChains(p)
  BY <1>8, ListChainsRules
<1>9. CASE (NewChain(p) \/ AppendAccept(p) \/ AppendMasq(p) \/ AppendPost(p)) /\ pc'[p] # "exit"
  BY <1>9, NewChainRules, AppendAcceptRules, AppendMasqRules, AppendPostRules
<1>. QED
  BY <1>2, <1>3, <1>4, <1>5, <1>6, <1>7, <1>8, <1>9 DEF Run

LEMMA RulesInit ==
  ASSUME Init
  PROVE  MasqInv
BY DEF Init, MasqInv, Chains, RulesMade, Masquerading, LocalNotMasqueraded

LEMMA RulesNext ==
  ASSUME WireInv, MasqInv, [Next]_vars
  PROVE  MasqInv'
<1>1. ASSUME NEW p \in Proc, NEW a \in Att, NEW c \in DOMAIN Handler, Invoke(p, a, c)
      PROVE  MasqInv'
  <2>1. Aside(p)
    BY <1>1 DEF WireInv, WireTypes, Invoke, Step, GoTo, host, Aside, Others, Masquerading
  <2>. QED
    BY <2>1, AsideKeeps
<1>2. ASSUME NEW p \in Proc, Run(p) \/ Fault(p)
      PROVE  MasqInv'
  BY <1>2, RunKeepsRules
<1>3. ASSUME UNCHANGED <<chain, post, pc, att, k, result>>
      PROVE  MasqInv'
  BY <1>3 DEF MasqInv, RulesMade, LocalNotMasqueraded, Rules, Ip, Ips
<1>. QED
  BY <1>1, <1>2, <1>3 DEF Next, RemoveNetns, MakeNetns, vars, host

\* From the moment an address's packets are sent to its attachment's chain,
\* the chain accepts those to its own network before it masquerades the rest
\* (setup_ip_masq, ip_masq.rs:20-61), with any number of commands under way,
\* whichever of them die, and whatever half-made chain they find.
THEOREM LocalNeverMasqueraded == Spec => []LocalNotMasqueraded
<1>1. Init => WireInv /\ MasqInv
  BY WireInit, RulesInit
<1>2. WireInv /\ MasqInv /\ [Next]_vars => WireInv' /\ MasqInv'
  BY WireNext, RulesNext
<1>3. MasqInv => LocalNotMasqueraded
  BY DEF MasqInv
<1>. QED
  BY <1>1, <1>2, <1>3, PTL DEF Spec

----------------------------------------------------------------------------
(* The gateways on the bridge.                                             *)

IsGw(p) == Effective(conf(p)).is_gw

\* The operations of a gateway that hands its addresses to the bridge, and
\* those after it.
Gatewaying == {"ensure_addr", "addr_del", "forward"}
Chaining == {"list_chains", "reply"} \cup Masquerading

\* The bridge has the address, or a network that forces its own may have
\* taken it away.
Has(x) == Threatened(x) \/ \E b \in br_addrs : b.ip = x

Kept(i) == Has(i.gateway) /\ Family(i.ip) \in forward

\* The gateways of a process's result are those calc_gateway made sure of,
\* and the process has handed over those before position k, or all.
GatewaysMade(p) ==
  /\ pc[p] \in Answering /\ IsGw(p) =>
       \A n \in DOMAIN Ips(p) :
         /\ [ip |-> Ips(p)[n].gateway, size |-> Ips(p)[n].size] \in Gateways(att[p])
         /\ Family(Ips(p)[n].gateway) = Family(Ips(p)[n].ip)
  /\ pc[p] \in {"addr_list"} \cup Gatewaying =>
       IsGw(p) /\ \A n \in DOMAIN Ips(p) : n < k[p] => Kept(Ips(p)[n])
  /\ pc[p] \in Gatewaying => k[p] \in DOMAIN Ips(p) /\ \A b \in seen[p] : Has(b.ip)
  /\ pc[p] = "addr_del" => conf(p).force_address
  /\ pc[p] = "forward" => Has(Gw(p).ip)
  /\ pc[p] \in Chaining /\ IsGw(p) => \A n \in DOMAIN Ips(p) : Kept(Ips(p)[n])

GatewayInv ==
  /\ \A b \in br_addrs : \E a \in Att : b \in Gateways(a)
  /\ forward \subseteq {4, 6}
  /\ seen \in [Proc -> SUBSET Blocks]
  /\ \A p \in Proc : GatewaysMade(p)
  /\ GatewayKept

\* A gateway is an address: what calc_gateway leaves without is left out.
LEMMA GatewaysAreBlocks ==
  ASSUME NEW a \in Att
  PROVE  Gateways(a) \subseteq Blocks
<1>. SUFFICES ASSUME NEW r \in Answers[a], NEW n \in DOMAIN r.ips,
                     WithGw(Effective(Conf[a]), r.ips[n]).gateway # NoIp
              PROVE  [ip |-> WithGw(Effective(Conf[a]), r.ips[n]).gateway, size |-> r.ips[n].size]
                       \in Blocks
  BY DEF Gateways
<1>1. r.ips[n] \in IpConfigs
  BY BridgeAssumption DEF BridgeAssumption, Results
<1>2. PICK i \in IpConfigs : i = r.ips[n]
  BY <1>1
<1>3. NextV4(i.ip) \in Addr \cup {NoIp}
  BY BridgeAssumption, MaxAddrAssumption DEF BridgeAssumption, NextV4, Family, Addr, IpConfigs
<1>4. WithGw(Effective(Conf[a]), i).gateway \in Addr \cup {NoIp}
  BY <1>3 DEF WithGw, IpConfigs
<1>5. i.size \in Nat \ {0}
  BY DEF IpConfigs
<1>. QED
  BY <1>2, <1>4, <1>5 DEF Blocks

\* Nothing that was kept is lost.
HostKeeps == (\A x : Has(x) => Has(x)') /\ forward \subseteq forward'

LEMMA KeptStays ==
  ASSUME HostKeeps, NEW i, Kept(i)
  PROVE  Kept(i)'
BY DEF HostKeeps, Kept

\* A step of p, of which only what p has to show for itself is open.
LEMMA GatewayStep ==
  ASSUME GatewayInv, HostKeeps, NEW p \in Proc, Others(p), \A q \in Proc : q # p => UNCHANGED seen[q],
         \A b \in br_addrs' : b \in br_addrs \/ \E a \in Att : b \in Gateways(a),
         forward' \subseteq {4, 6}, seen' \in [Proc -> SUBSET Blocks],
         GatewaysMade(p)', GatewayKept'
  PROVE  GatewayInv'
<1>1. ASSUME NEW q \in Proc, q # p
      PROVE  GatewaysMade(q)'
  <2>1. UNCHANGED <<pc[q], att[q], k[q], result[q], seen[q]>> /\ GatewaysMade(q)
    BY <1>1 DEF Others, GatewayInv
  <2>2. /\ Ips(q)' = Ips(q) /\ IsGw(q)' = IsGw(q) /\ Gw(q)' = Gw(q) /\ conf(q)' = conf(q)
        /\ Gateways(att[q])' = Gateways(att[q])
    BY <2>1 DEF Ips, IsGw, Gw, conf
  <2>3. \A n \in DOMAIN Ips(q) : Kept(Ips(q)[n]) => Kept(Ips(q)[n])'
    BY <2>2, KeptStays DEF HostKeeps, Kept
  <2>. QED
    BY <2>1, <2>2, <2>3 DEF GatewaysMade, HostKeeps
<1>. QED
  BY <1>1 DEF GatewayInv

LEMMA KeptGoesOn ==
  ASSUME GatewayInv, HostKeeps, \A a \in Att : given'[a] # NoAnswer => given'[a] = given[a]
  PROVE  GatewayKept'
<1>. SUFFICES ASSUME NEW a \in Att, given'[a] # NoAnswer, Effective(Conf[a]).is_gw,
                     NEW n \in DOMAIN given'[a].ips,
                     NEW i, i = given'[a].ips[n]
              PROVE  Kept(i)'
  BY DEF GatewayKept, Kept, Has
<1>1. given[a] # NoAnswer /\ given'[a] = given[a]
  OBVIOUS
<1>2. Kept(i)
  BY <1>1 DEF GatewayInv, GatewayKept, Kept, Has
<1>. QED
  BY <1>2, KeptStays

\* A process that is not as far as an answer, or no longer.
LEMMA NoAnswerYet ==
  ASSUME WireInv, GatewayInv, NEW p \in Proc, UNCHANGED <<br_addrs, forward>>, Others(p),
         seen' \in [Proc -> SUBSET Blocks], \A q \in Proc : q # p => UNCHANGED seen[q],
         pc'[p] \notin Answering, GatewayKept' \/ UNCHANGED given
  PROVE  GatewayInv'
<1>1. HostKeeps
  BY DEF HostKeeps, Has
<1>2. GatewaysMade(p)'
  BY DEF GatewaysMade, Gatewaying, Chaining, Masquerading, Answering, Addressed, Routed, Wired
<1>3. GatewayKept'
  BY <1>1, KeptGoesOn
<1>. QED
  BY <1>1, <1>2, <1>3, GatewayStep DEF GatewayInv

\* Every gateway of the result is one the network's plugin may be given.
LEMMA CalculatedGateways ==
  ASSUME NEW a \in Att, NEW r \in Answers[a], ~CalcFails(Effective(Conf[a]), r),
         Effective(Conf[a]).is_gw,
         NEW n \in DOMAIN calc_gateway(Effective(Conf[a]), r).ips, NEW i,
         i = calc_gateway(Effective(Conf[a]), r).ips[n]
  PROVE  [ip |-> i.gateway, size |-> i.size] \in Gateways(a) /\ Family(i.gateway) = Family(i.ip)
<1>1. n \in DOMAIN r.ips /\ i = WithGw(Effective(Conf[a]), r.ips[n])
  BY DEF calc_gateway
<1>2. r.ips[n] \in IpConfigs
  BY <1>1, BridgeAssumption DEF BridgeAssumption, Results
<1>3. i.ip = r.ips[n].ip /\ i.size = r.ips[n].size
  BY <1>1, <1>2 DEF WithGw, IpConfigs
<1>4. i.gateway # NoIp /\ Family(i.gateway) = Family(r.ips[n].ip)
  <2>1. ~(i.gateway = NoIp \/ Family(i.gateway) # Family(i.ip))
    BY <1>1 DEF CalcFails
  <2>. QED
    BY <1>3, <2>1
<1>5. [ip |-> i.gateway, size |-> r.ips[n].size] \in Gateways(a)
  BY <1>1, <1>4 DEF Gateways
<1>. QED
  BY <1>3, <1>4, <1>5

LEMMA DelegateAddGateways ==
  ASSUME WireInv, GatewayInv, NEW p \in Proc, DelegateAdd(p), pc'[p] # "exit"
  PROVE  GatewayInv'
<1>1. WireTypes /\ pc[p] = "delegate" /\ att[p] \in Att
  BY AttOfProc DEF WireInv, ProcessOk, DelegateAdd, At
<1>2. PICK r \in Answers[att[p]] :
        /\ ~CalcFails(Effective(conf(p)), r)
        /\ result' = [result EXCEPT ![p] = calc_gateway(Effective(conf(p)), r)]
        /\ pc' = [pc EXCEPT ![p] = "addr_add"]
        /\ UNCHANGED <<br_addrs, forward, seen, given, att, k>>
  BY <1>1 DEF DelegateAdd, DelegateFails, Answered, Fail, GoTo, WireTypes, host
<1>3. Others(p) /\ pc'[p] = "addr_add"
  BY <1>1, <1>2 DEF WireTypes, Others
<1>4. HostKeeps
  BY <1>2 DEF HostKeeps, Has
<1>5. result'[p] = calc_gateway(Effective(Conf[att[p]]), r)
  BY <1>1, <1>2 DEF WireTypes, conf
<1>6. ASSUME Effective(Conf[att[p]]).is_gw, NEW n \in DOMAIN result'[p].ips, NEW i, i = result'[p].ips[n]
      PROVE  [ip |-> i.gateway, size |-> i.size] \in Gateways(att[p]) /\ Family(i.gateway) = Family(i.ip)
  BY <1>1, <1>2, <1>5, <1>6, CalculatedGateways DEF conf
<1>7. GatewaysMade(p)'
  BY <1>2, <1>3, <1>6 DEF GatewaysMade, Gatewaying, Chaining, Masquerading, IsGw, Ips, conf
<1>8. GatewayKept'
  BY <1>2, <1>4, KeptGoesOn
<1>. QED
  BY <1>2, <1>3, <1>4, <1>7, <1>8, GatewayStep DEF GatewayInv

\* A process that has its result and goes on with it: what it has to show
\* but for the result.
LEMMA GoesOnWithResult ==
  ASSUME WireInv, GatewayInv, HostKeeps, NEW p \in Proc, Others(p), UNCHANGED <<given, att, result>>,
         \A q \in Proc : q # p => UNCHANGED seen[q],
         \A b \in br_addrs' : b \in br_addrs \/ \E a \in Att : b \in Gateways(a),
         forward' \subseteq {4, 6}, seen' \in [Proc -> SUBSET Blocks],
         pc[p] \in Answering,
         /\ pc'[p] \in {"addr_list"} \cup Gatewaying =>
              IsGw(p) /\ \A n \in DOMAIN Ips(p) : n < k'[p] => Kept(Ips(p)[n]) \/ Kept(Ips(p)[n])'
         /\ pc'[p] \in Gatewaying => k'[p] \in DOMAIN Ips(p) /\ \A b \in seen'[p] : Has(b.ip)
         /\ pc'[p] = "addr_del" => conf(p).force_address
         /\ pc'[p] = "forward" => Has(Gw(p).ip)'
         /\ pc'[p] \in Chaining /\ IsGw(p) => \A n \in DOMAIN Ips(p) : Kept(Ips(p)[n])
  PROVE  GatewayInv'
<1>1. Ips(p)' = Ips(p) /\ IsGw(p)' = IsGw(p) /\ conf(p)' = conf(p) /\ att'[p] = att[p]
  BY DEF Ips, IsGw, conf
<1>2. \A n \in DOMAIN Ips(p) : Kept(Ips(p)[n]) => Kept(Ips(p)[n])'
  BY <1>1 DEF HostKeeps, Kept
<1>3. /\ IsGw(p) => \A n \in DOMAIN Ips(p) :
                       /\ [ip |-> Ips(p)[n].gateway, size |-> Ips(p)[n].size] \in Gateways(att[p])
                       /\ Family(Ips(p)[n].gateway) = Family(Ips(p)[n].ip)
  BY DEF GatewayInv, GatewaysMade
<1>4. GatewaysMade(p)'
  BY <1>1, <1>2, <1>3 DEF GatewaysMade, HostKeeps
<1>5. GatewayKept'
  BY KeptGoesOn
<1>. QED
  BY <1>4, <1>5, GatewayStep

LEMMA ConfigureGateways ==
  ASSUME WireInv, GatewayInv, NEW p \in Proc, AddrAdd(p) \/ LinkUp(p) \/ RouteAdd(p)
  PROVE  GatewayInv'
<1>1. WireTypes /\ UNCHANGED <<br_addrs, forward, seen, given, att, result>>
      /\ pc[p] \in Answering
  BY DEF WireInv, AddrAdd, LinkUp, RouteAdd, Step, At, host, Answering, Addressed, Routed
<1>2. /\ Others(p)
      /\ pc'[p] \notin Gatewaying \cup (Chaining \ {"list_chains"})
      /\ pc'[p] = "addr_list" => IsGw(p) /\ k'[p] = 1
      /\ pc'[p] = "list_chains" => ~IsGw(p)
  BY <1>1 DEF AddrAdd, LinkUp, RouteAdd, Step, At, GoTo, Fail, WireTypes, Others, IsGw, Gatewaying,
              Chaining, Masquerading
<1>3. DOMAIN Ips(p) \subseteq Nat \ {0}
  BY <1>1 DEF WireTypes, Results, Ips
<1>4. HostKeeps
  BY <1>1 DEF HostKeeps, Has
<1>5. \A n \in DOMAIN Ips(p) : ~(n < 1)
  BY <1>3
<1>. QED
  BY <1>1, <1>2, <1>4, <1>5, GoesOnWithResult DEF GatewayInv, Gatewaying, Chaining

----------------------------------------------------------------------------
(* ensure_addr and enable_ip_forward.                                      *)

\* What its operations start from.
LEMMA AtTheBridge ==
  ASSUME WireInv, GatewayInv, NEW p \in Proc, pc[p] \in {"addr_list"} \cup Gatewaying
  PROVE  /\ WireTypes /\ pc[p] \in Answering /\ IsGw(p) /\ att[p] \in Att
         /\ \A n \in DOMAIN Ips(p) : n < k[p] => Kept(Ips(p)[n])
         /\ Ips(p) \in Seq(IpConfigs) /\ k[p] \in Nat \ {0}
         /\ pc[p] \in Gatewaying =>
              /\ k[p] \in DOMAIN Ips(p) /\ \A b \in seen[p] : Has(b.ip)
              /\ Gw(p) \in Gateways(att[p]) /\ Gw(p) \in Blocks
              /\ Family(Gw(p).ip) = Family(Ips(p)[k[p]].ip)
<1>1. WireTypes /\ AtWork(p) /\ GatewaysMade(p)
  BY DEF WireInv, ProcessOk, GatewayInv
<1>2. pc[p] \in Answering /\ ~At(p, "idle")
  BY DEF Answering, Addressed, Routed, Wired, Gatewaying, At
<1>3. att[p] \in Att
  BY <1>1, <1>2, AttOfProc
<1>4. IsGw(p) /\ \A n \in DOMAIN Ips(p) : n < k[p] => Kept(Ips(p)[n])
  BY <1>1 DEF GatewaysMade
<1>5. ASSUME pc[p] \in Gatewaying
      PROVE  /\ k[p] \in DOMAIN Ips(p) /\ \A b \in seen[p] : Has(b.ip)
             /\ Gw(p) \in Gateways(att[p]) /\ Gw(p) \in Blocks
             /\ Family(Gw(p).ip) = Family(Ips(p)[k[p]].ip)
  BY <1>1, <1>2, <1>3, <1>4, <1>5, GatewaysAreBlocks DEF GatewaysMade, Gw
<1>6. Ips(p) \in Seq(IpConfigs) /\ k[p] \in Nat \ {0}
  BY <1>1 DEF WireTypes, Results, Ips
<1>. QED
  BY <1>1, <1>2, <1>3, <1>4, <1>5, <1>6

LEMMA AddrListGateways ==
  ASSUME WireInv, GatewayInv, NEW p \in Proc, AddrList(p)
  PROVE  GatewayInv'
<1>1. /\ WireTypes /\ pc[p] = "addr_list" /\ pc[p] \in Answering /\ IsGw(p)
      /\ \A n \in DOMAIN Ips(p) : n < k[p] => Kept(Ips(p)[n])
      /\ Ips(p) \in Seq(IpConfigs) /\ k[p] \in Nat \ {0}
      /\ UNCHANGED <<br_addrs, forward, given, att, result>>
  BY AtTheBridge DEF AddrList, At, host
<1>2. HostKeeps
  BY <1>1 DEF HostKeeps, Has
<1>3. seen \in [Proc -> SUBSET Blocks] /\ br_addrs \subseteq Blocks
  BY GatewaysAreBlocks DEF GatewayInv
<1>4. CASE k[p] \in DOMAIN Ips(p)
  <2>1. /\ pc' = [pc EXCEPT ![p] = "ensure_addr"] /\ k' = k
        /\ seen' = [seen EXCEPT ![p] = {b \in br_addrs : Family(b.ip) = Family(Gw(p).ip)}]
    BY <1>4 DEF AddrList, GoTo
  <2>2. /\ Others(p) /\ pc'[p] = "ensure_addr" /\ seen' \in [Proc -> SUBSET Blocks]
        /\ seen'[p] \subseteq br_addrs /\ \A q \in Proc : q # p => UNCHANGED seen[q]
    BY <1>1, <1>3, <2>1 DEF WireTypes, Others
  <2>3. \A b \in seen'[p] : Has(b.ip)
    BY <2>2 DEF Has
  <2>. QED
    BY <1>1, <1>2, <1>4, <2>1, <2>2, <2>3, GoesOnWithResult
       DEF GatewayInv, Gatewaying, Chaining, Masquerading
<1>5. CASE k[p] \notin DOMAIN Ips(p)
  <2>1. Others(p) /\ pc'[p] = "list_chains" /\ UNCHANGED seen
    BY <1>1, <1>5 DEF AddrList, GoTo, WireTypes, Others
  <2>2. \A n \in DOMAIN Ips(p) : n < k[p]
    BY <1>1, <1>5
  <2>. QED
    BY <1>1, <1>2, <2>1, <2>2, GoesOnWithResult DEF GatewayInv, Gatewaying, Chaining, Masquerading
<1>. QED
  BY <1>4, <1>5

LEMMA EnsureAddrGateways ==
  ASSUME WireInv, GatewayInv, NEW p \in Proc, EnsureAddr(p)
  PROVE  GatewayInv'
<1>1. /\ WireTypes /\ pc[p] = "ensure_addr" /\ pc[p] \in Answering /\ IsGw(p)
      /\ \A n \in DOMAIN Ips(p) : n < k[p] => Kept(Ips(p)[n])
      /\ k[p] \in DOMAIN Ips(p) /\ \A b \in seen[p] : Has(b.ip)
      /\ UNCHANGED <<br_addrs, forward, given, att, result, k>>
  BY AtTheBridge DEF EnsureAddr, At, host, Gatewaying
<1>2. HostKeeps
  BY <1>1 DEF HostKeeps, Has
<1>3. seen \in [Proc -> SUBSET Blocks]
  BY DEF GatewayInv
<1>4. /\ Others(p) /\ seen' \in [Proc -> SUBSET Blocks] /\ seen'[p] \subseteq seen[p]
      /\ \A q \in Proc : q # p => UNCHANGED seen[q]
      /\ \/ pc'[p] = "forward" /\ \E b \in seen[p] : b.ip = Gw(p).ip
         \/ pc'[p] = "addr_del" /\ conf(p).force_address
         \/ pc'[p] = "exit" \/ pc'[p] = "ensure_addr"
  <2>1. CASE (\E b \in seen[p] : b.ip = Gw(p).ip) /\ seen' = [seen EXCEPT ![p] = {}] /\ GoTo(p, "forward")
    BY <1>1, <1>3, <2>1 DEF GoTo, WireTypes, Others
  <2>2. CASE UNCHANGED seen /\ InTheWay(p)
    BY <1>1, <1>3, <2>2 DEF InTheWay, Fail, GoTo, WireTypes, Others
  <2>3. CASE UNCHANGED pc /\ \E b \in seen[p] : seen' = [seen EXCEPT ![p] = @ \ {b}]
    BY <1>1, <1>3, <2>3 DEF WireTypes, Others
  <2>. QED
    BY <2>1, <2>2, <2>3 DEF EnsureAddr
<1>5. Gw(p)' = Gw(p)
  BY <1>1 DEF Gw, Ips
<1>6. pc'[p] = "forward" => Has(Gw(p).ip)'
  BY <1>1, <1>2, <1>4, <1>5 DEF HostKeeps
<1>. QED
  BY <1>1, <1>2, <1>4, <1>6, GoesOnWithResult DEF GatewayInv, Gatewaying, Chaining, Masquerading

\* An address is only taken away for the gateway of a network that forces it.
LEMMA BridgeAddrDelGateways ==
  ASSUME WireInv, GatewayInv, NEW p \in Proc, BridgeAddrDel(p), pc'[p] # "exit"
  PROVE  GatewayInv'
<1>1. /\ WireTypes /\ pc[p] = "addr_del" /\ pc[p] \in Answering /\ IsGw(p) /\ att[p] \in Att
      /\ \A n \in DOMAIN Ips(p) : n < k[p] => Kept(Ips(p)[n])
      /\ k[p] \in DOMAIN Ips(p) /\ \A b \in seen[p] : Has(b.ip)
      /\ Gw(p) \in Gateways(att[p])
      /\ UNCHANGED <<forward, given, att, result, k>>
  BY AtTheBridge DEF BridgeAddrDel, At, Gatewaying
<1>2. Conf[att[p]].force_address
  BY <1>1 DEF GatewayInv, GatewaysMade, conf
<1>3. PICK b \in Obstacles(p) :
        /\ b \in br_addrs /\ br_addrs' = br_addrs \ {b}
        /\ seen' = [seen EXCEPT ![p] = @ \ {b}]
        /\ pc' = [pc EXCEPT ![p] = "ensure_addr"]
  BY <1>1 DEF BridgeAddrDel, Fail, GoTo, WireTypes
<1>4. /\ Others(p) /\ pc'[p] = "ensure_addr" /\ seen' \in [Proc -> SUBSET Blocks]
      /\ seen'[p] \subseteq seen[p] /\ \A q \in Proc : q # p => UNCHANGED seen[q]
  BY <1>1, <1>3 DEF WireTypes, Others, GatewayInv
<1>5. Threatened(b.ip)
  <2>1. b.ip # Gw(p).ip /\ Conflicts(b, Gw(p))
    BY <1>3 DEF Obstacles
  <2>2. PICK c \in Att : b \in Gateways(c)
    BY <1>3 DEF GatewayInv
  <2>. QED
    BY <1>1, <1>2, <2>1, <2>2 DEF Threatened
<1>6. HostKeeps
  BY <1>1, <1>3, <1>5 DEF HostKeeps, Has
<1>. QED
  BY <1>1, <1>3, <1>4, <1>6, GoesOnWithResult DEF GatewayInv, Gatewaying, Chaining, Masquerading

LEMMA BridgeAddrAddGateways ==
  ASSUME WireInv, GatewayInv, NEW p \in Proc, BridgeAddrAdd(p), pc'[p] # "exit"
  PROVE  GatewayInv'
<1>1. /\ WireTypes /\ pc[p] = "ensure_addr" /\ pc[p] \in Answering /\ IsGw(p) /\ att[p] \in Att
      /\ \A n \in DOMAIN Ips(p) : n < k[p] => Kept(Ips(p)[n])
      /\ k[p] \in DOMAIN Ips(p) /\ \A b \in seen[p] : Has(b.ip)
      /\ Gw(p) \in Gateways(att[p])
      /\ UNCHANGED <<forward, given, att, result, k, seen>>
  BY AtTheBridge DEF BridgeAddrAdd, At, Gatewaying
<1>2. br_addrs' = br_addrs \cup {Gw(p)} /\ pc' = [pc EXCEPT ![p] = "forward"]
  BY <1>1 DEF BridgeAddrAdd, Fail, GoTo, WireTypes
<1>3. Others(p) /\ pc'[p] = "forward"
  BY <1>1, <1>2 DEF WireTypes, Others
<1>4. HostKeeps
  BY <1>1, <1>2 DEF HostKeeps, Has
<1>5. Gw(p)' = Gw(p)
  BY <1>1 DEF Gw, Ips
<1>6. Has(Gw(p).ip)'
  BY <1>2, <1>5 DEF Has
<1>. QED
  BY <1>1, <1>2, <1>3, <1>4, <1>6, GoesOnWithResult
     DEF GatewayInv, Gatewaying, Chaining, Masquerading

LEMMA EnableForwardGateways ==
  ASSUME WireInv, GatewayInv, NEW p \in Proc, EnableForward(p)
  PROVE  GatewayInv'
<1>1. /\ WireTypes /\ pc[p] = "forward" /\ pc[p] \in Answering /\ IsGw(p) /\ att[p] \in Att
      /\ \A n \in DOMAIN Ips(p) : n < k[p] => Kept(Ips(p)[n])
      /\ Ips(p) \in Seq(IpConfigs) /\ k[p] \in DOMAIN Ips(p)
      /\ Family(Gw(p).ip) = Family(Ips(p)[k[p]].ip)
      /\ UNCHANGED <<br_addrs, given, att, result, seen>>
  BY AtTheBridge DEF EnableForward, Step, At, Gatewaying
<1>2. /\ forward' = forward \cup {Family(Gw(p).ip)}
      /\ pc' = [pc EXCEPT ![p] = "addr_list"] /\ k' = [k EXCEPT ![p] = k[p] + 1]
  BY DEF EnableForward, Step, GoTo
<1>3. Others(p) /\ pc'[p] = "addr_list" /\ k'[p] = k[p] + 1
  BY <1>1, <1>2 DEF WireTypes, Others
<1>4. HostKeeps
  BY <1>1, <1>2 DEF HostKeeps, Has
<1>5. Has(Ips(p)[k[p]].gateway)
  BY <1>1 DEF GatewayInv, GatewaysMade, Gw
<1>6. ASSUME NEW n \in DOMAIN Ips(p), n < k'[p]
      PROVE  Kept(Ips(p)[n]) \/ Kept(Ips(p)[n])'
  <2>1. CASE n < k[p]
    BY <1>1, <2>1
  <2>2. CASE n = k[p]
    <3>1. PICK i : i = Ips(p)[n]
      OBVIOUS
    <3>2. Kept(i)'
      BY <1>1, <1>2, <1>4, <1>5, <2>2, <3>1 DEF Kept, HostKeeps
    <3>3. Ips(p)' = Ips(p)
      BY <1>1 DEF Ips
    <3>. QED
      BY <3>1, <3>2, <3>3
  <2>. QED
    BY <1>1, <1>3, <1>6, <2>1, <2>2
<1>8. forward' \subseteq {4, 6}
  BY <1>2, FamilyOfIp DEF GatewayInv
<1>. QED
  BY <1>1, <1>3, <1>4, <1>6, <1>8, GoesOnWithResult
     DEF GatewayInv, Gatewaying, Chaining, Masquerading

----------------------------------------------------------------------------
(* The other steps, and the theorems.                                      *)

LEMMA ChainGateways ==
  ASSUME WireInv, GatewayInv, NEW p \in Proc,
         ListChains(p) \/ NewChain(p) \/ AppendAccept(p) \/ AppendMasq(p) \/ AppendPost(p)
  PROVE  GatewayInv'
<1>1. WireTypes /\ UNCHANGED <<br_addrs, forward, seen, given, att, result>>
      /\ pc[p] \in Answering /\ pc[p] \in Chaining
  BY DEF WireInv, ListChains, NewChain, AppendAccept, AppendMasq, AppendUnique, AppendPost, Step, At,
         host, Answering, Addressed, Routed, Wired, Chaining, Masquerading
<1>2. Others(p) /\ pc'[p] \in Chaining \cup {"exit"}
  <2>1. CASE ListChains(p) \/ NewChain(p) \/ AppendPost(p)
    BY <1>1, <2>1 DEF ListChains, NewChain, AppendPost, GoTo, Fail, WireTypes, Others, Chaining,
                      Masquerading
  <2>2. CASE AppendAccept(p) \/ AppendMasq(p)
    BY <1>1, <2>2 DEF AppendAccept, AppendMasq, AppendUnique, GoTo, Fail, WireTypes, Others, Chaining,
                      Masquerading
  <2>. QED
    BY <2>1, <2>2
<1>3. HostKeeps
  BY <1>1 DEF HostKeeps, Has
<1>4. IsGw(p) => \A n \in DOMAIN Ips(p) : Kept(Ips(p)[n])
  BY <1>1 DEF GatewayInv, GatewaysMade
<1>. QED
  BY <1>1, <1>2, <1>3, <1>4, GoesOnWithResult DEF GatewayInv, Gatewaying, Chaining, Masquerading

\* What a process answers is what it has handed to the bridge.
LEMMA ReplyGateways ==
  ASSUME WireInv, GatewayInv, NEW p \in Proc, Reply(p)
  PROVE  GatewayInv'
<1>1. WireTypes /\ att[p] \in Att /\ pc[p] = "reply"
  BY AttOfProc DEF WireInv, ProcessOk, Reply, At
<1>2. /\ UNCHANGED <<br_addrs, forward>> /\ Others(p) /\ pc'[p] = "idle"
      /\ seen' = [seen EXCEPT ![p] = {}]
      /\ given' = given \/ given' = [given EXCEPT ![att[p]] = result[p]]
  BY <1>1 DEF Reply, Ended, GoTo, host, WireTypes, Others
<1>3. seen' \in [Proc -> SUBSET Blocks] /\ \A q \in Proc : q # p => UNCHANGED seen[q]
  BY <1>2 DEF GatewayInv
<1>4. IsGw(p) => \A n \in DOMAIN Ips(p) : Kept(Ips(p)[n])
  BY <1>1 DEF GatewayInv, GatewaysMade, Chaining
<1>5. GatewayKept'
  <2>1. ASSUME NEW a \in Att, given'[a] # NoAnswer, Effective(Conf[a]).is_gw,
               NEW n \in DOMAIN given'[a].ips, NEW i, i = given'[a].ips[n]
        PROVE  Kept(i)
    <3>1. CASE given'[a] = given[a]
      BY <2>1, <3>1 DEF GatewayInv, GatewayKept, Kept, Has
    <3>2. CASE given'[a] # given[a]
      <4>1. a = att[p] /\ given'[a] = result[p]
        BY <1>1, <1>2, <3>2 DEF WireTypes
      <4>. QED
        BY <1>4, <2>1, <4>1 DEF IsGw, conf, Ips
    <3>. QED
      BY <3>1, <3>2
  <2>. QED
    BY <1>2, <2>1 DEF GatewayKept, Kept, Has
<1>. QED
  BY <1>2, <1>3, <1>5, NoAnswerYet DEF Answering, Addressed, Routed, Wired

LEMMA RunKeepsGateways ==
  ASSUME WireInv, GatewayInv, NEW p \in Proc, Run(p) \/ Fault(p)
  PROVE  GatewayInv'
<1>1. WireTypes /\ seen \in [Proc -> SUBSET Blocks]
  BY DEF WireInv, GatewayInv
<1>2. CASE \/ LinkAdd(p) \/ PromiscOn(p) \/ BridgeByName(p) \/ AcceptRa(p) \/ BridgeUp(p)
           \/ GetFromPath(p) \/ MakeVeth(p) \/ HostVethUp(p) \/ SetMaster(p)
  <2>1. UNCHANGED <<br_addrs, forward, seen, given>> /\ Others(p)
    BY <1>1, <1>2 DEF LinkAdd, PromiscOn, BridgeByName, AcceptRa, BridgeUp, GetFromPath, MakeVeth,
                      HostVethUp, SetMaster, Step, GoTo, Fail, host, WireTypes, Others
  <2>2. pc'[p] \notin Answering
    BY <1>1, <1>2 DEF LinkAdd, PromiscOn, BridgeByName, AcceptRa, BridgeUp, GetFromPath, MakeVeth,
                      HostVethUp, SetMaster, Step, GoTo, Fail, WireTypes, Answering, Addressed,
                      Routed, Wired
  <2>. QED
    BY <1>1, <2>1, <2>2, NoAnswerYet
<1>3. CASE \/ pc'[p] = "exit" /\ (DelegateAdd(p) \/ BridgeAddrDel(p) \/ BridgeAddrAdd(p))
           \/ Exit(p) \/ Fault(p)
  <2>1. UNCHANGED <<br_addrs, forward, given>> /\ Others(p)
    BY <1>1, <1>3 DEF DelegateAdd, Answered, DelegateFails, BridgeAddrDel, BridgeAddrAdd, Exit, Ended,
                      Fault, GoTo, Fail, host, WireTypes, Others
  <2>2. pc'[p] \notin Answering
    BY <1>1, <1>3 DEF Exit, Ended, Fault, GoTo, Fail, WireTypes, Answering, Addressed, Routed, Wired
  <2>3. UNCHANGED seen \/ seen' = [seen EXCEPT ![p] = {}]
    BY <1>1, <1>3 DEF DelegateAdd, Answered, DelegateFails, BridgeAddrDel, BridgeAddrAdd, Exit, Ended,
                      Fault, GoTo, WireTypes
  <2>. QED
    BY <1>1, <2>1, <2>2, <2>3, NoAnswerYet
<1>. QED
  BY <1>2, <1>3, DelegateAddGateways, ConfigureGateways, AddrListGateways, EnsureAddrGateways,
     BridgeAddrDelGateways, BridgeAddrAddGateways, EnableForwardGateways, ChainGateways,
     ReplyGateways DEF Run

LEMMA GatewayInit ==
  ASSUME Init
  PROVE  GatewayInv
BY DEF Init, GatewayInv, GatewaysMade, GatewayKept, Gatewaying, Chaining, Masquerading, Answering,
       Addressed, Routed, Wired

LEMMA GatewayNext ==
  ASSUME WireInv, GatewayInv, [Next]_vars
  PROVE  GatewayInv'
<1>1. ASSUME NEW p \in Proc, NEW a \in Att, NEW c \in DOMAIN Handler, Invoke(p, a, c)
      PROVE  GatewayInv'
  <2>1. /\ UNCHANGED <<br_addrs, forward, seen>> /\ Others(p) /\ pc'[p] \notin Answering
        /\ \A b \in Att : given'[b] # NoAnswer => given'[b] = given[b]
    BY <1>1 DEF WireInv, WireTypes, Invoke, Step, GoTo, host, Others, Answering, Addressed, Routed,
                Wired
  <2>2. HostKeeps
    BY <2>1 DEF HostKeeps, Has
  <2>3. GatewayKept'
    BY <2>1, <2>2, KeptGoesOn
  <2>. QED
    BY <2>1, <2>3, NoAnswerYet DEF GatewayInv
<1>2. CASE UNCHANGED vars \/ \E a \in Att : RemoveNetns(a) \/ MakeNetns(a)
  <2>1. /\ UNCHANGED <<br_addrs, forward, seen, pc, att, k, result>>
        /\ \A b \in Att : given'[b] # NoAnswer => given'[b] = given[b]
    BY <1>2 DEF WireInv, WireTypes, RemoveNetns, MakeNetns, host, vars
  <2>2. HostKeeps
    BY <2>1 DEF HostKeeps, Has
  <2>3. GatewayKept'
    BY <2>1, <2>2, KeptGoesOn
  <2>4. ASSUME NEW p \in Proc
        PROVE  GatewaysMade(p)'
    <3>1. GatewaysMade(p)
      BY DEF GatewayInv
    <3>. QED
      BY <2>1, <3>1 DEF GatewaysMade, Kept, Has, Ips, Gw, IsGw, conf
  <2>. QED
    BY <2>1, <2>3, <2>4 DEF GatewayInv
<1>. QED
  BY <1>1, <1>2, RunKeepsGateways DEF Next

\* The bridge has the gateway of every attachment that was answered, and the
\* host forwards its family, until a network that conflicts with it forces
\* its own gateway (main.rs:88-99, 122-159).
THEOREM GatewaysStay == Spec => []GatewayKept
<1>1. Init => WireInv /\ GatewayInv
  BY WireInit, GatewayInit
<1>2. WireInv /\ GatewayInv /\ [Next]_vars => WireInv' /\ GatewayInv'
  BY WireNext, GatewayNext
<1>3. GatewayInv => GatewayKept
  BY DEF GatewayInv
<1>. QED
  BY <1>1, <1>2, <1>3, PTL DEF Spec

\* Every variable keeps its type: no gateway that IPAM left out and
\* calc_gateway could not make up becomes an address of the bridge
\* (main.rs:173-175, 207).
THEOREM BridgeTypes == Spec => []TypeOK
<1>1. Init => WireInv /\ MasqInv /\ GatewayInv
  BY WireInit, RulesInit, GatewayInit
<1>2. WireInv /\ MasqInv /\ GatewayInv /\ [Next]_vars => WireInv' /\ MasqInv' /\ GatewayInv'
  BY WireNext, RulesNext, GatewayNext
<1>3. WireInv /\ MasqInv /\ GatewayInv => TypeOK
  <2>. SUFFICES ASSUME WireTypes, MasqInv, GatewayInv PROVE TypeOK
    BY DEF WireInv
  <2>1. br_addrs \subseteq Blocks /\ forward \subseteq {4, 6} /\ seen \in [Proc -> SUBSET Blocks]
    BY GatewaysAreBlocks DEF GatewayInv
  <2>2. /\ post \subseteq Addr \X Att
        /\ \A a \in Att, f \in {4, 6} : chain[a][f] = NoChain \/ chain[a][f] \in Seq(ChainRules)
    BY DEF MasqInv, Chains
  <2>. QED
    BY <2>1, <2>2 DEF WireTypes, Links, Namespaces, ChainRules, TypeOK
<1>. QED
  BY <1>1, <1>2, <1>3, PTL DEF Spec
=============================================================================
