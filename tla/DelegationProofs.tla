-------------------------- MODULE DelegationProofs --------------------------
(***************************************************************************)
(* Theorems of Delegation for chains of any length, configurations of any  *)
(* size and pipes of any capacity.                                         *)
(***************************************************************************)
EXTENDS Delegation, TLAPS

Chunk == {"head", "tail", "noise"}
HasTail(s) == "tail" \in {s[n] : n \in DOMAIN s}

Label == {"unborn", "read", "work", "print", "spawn", "write_all",
          "read_to_end", "wait", "use", "exit_0", "exit_failed", "dead"}

\* The types, with what ChainTypeOK leaves out: the domains of the functions and
\* where a plugin goes when it has printed.
TypeInv ==
  /\ pc \in [Plugin -> Label]
  /\ stdin \in [Plugin -> 0 .. (Cap + ConfSize)]
  /\ fed \in [Plugin -> BOOLEAN]
  /\ stdout \in [Plugin -> Seq(Chunk)]
  /\ code \in [Plugin -> {"none", "0", "failed", "killed"}]
  /\ towrite \in [Plugin -> 0 .. ConfSize]
  /\ buffer \in [Plugin -> Seq(Chunk)]
  /\ toprint \in [Plugin -> Seq(Chunk)]
  /\ then \in [Plugin -> {"work", "spawn", "exit_0", "exit_failed"}]
  /\ worked \in [Plugin -> BOOLEAN]

PipesFit == \A i \in Plugin : i > 1 => Len(stdout[i]) <= Cap /\ stdin[i] <= Cap

\* A plugin is early until it has started its child, late when it is past
\* its own work.
Early(i) == \/ pc[i] \in {"unborn", "read", "work", "spawn"}
            \/ pc[i] = "print" /\ then[i] \in {"work", "spawn"}
Late(i) == \/ pc[i] \in {"exit_0", "exit_failed", "dead"}
           \/ pc[i] = "print" /\ then[i] \in {"exit_0", "exit_failed"}

\* Only a plugin that delegates does what a parent does.
Parental == \A i \in Plugin :
  pc[i] \in {"spawn", "write_all", "read_to_end", "wait"} \/ (pc[i] = "print" /\ then[i] = "spawn")
    => ~Leaf(i)

\* No child is started twice, and no work is done twice.
OneChild == \A i, j \in Plugin : Early(i) /\ j = i + 1 => pc[j] = "unborn"
WorkedIsLate == \A i \in Plugin : worked[i] => Late(i)

\* Wherever the end of a plugin's result is, the plugin and all below it have
\* worked.
From(i) == \A j \in Plugin : j >= i => worked[j]
TailMeansWorked == \A i \in Plugin :
  /\ HasTail(stdout[i]) \/ HasTail(toprint[i]) => From(i)
  /\ HasTail(buffer[i]) \/ At(i, "use") => From(i + 1)

ControlInv == Parental /\ OneChild /\ WorkedIsLate
ResultInv == TypeInv /\ PipesFit /\ ControlInv /\ TailMeansWorked

----------------------------------------------------------------------------
(* Sequences of chunks.                                                    *)

LEMMA PluginIsInterval ==
  /\ Plugin = 1 .. Len(Chain)
  /\ Len(Chain) \in Nat \ {0}
BY DelegationAssumption DEF Plugin

LEMMA ChildIsPlugin ==
  ASSUME NEW i \in Plugin, ~Leaf(i)
  PROVE  i + 1 \in Plugin
BY PluginIsInterval DEF Leaf

LEMMA AppendHasTail ==
  ASSUME NEW s \in Seq(Chunk), NEW c \in Chunk, HasTail(Append(s, c))
  PROVE  HasTail(s) \/ c = "tail"
<1>1. PICK n \in DOMAIN Append(s, c) : Append(s, c)[n] = "tail"
  BY DEF HasTail
<1>2. n \in 1 .. (Len(s) + 1)
  BY <1>1
<1>3. CASE n = Len(s) + 1
  BY <1>1, <1>3
<1>4. CASE n \in 1 .. Len(s)
  <2>1. s[n] = "tail" /\ n \in DOMAIN s
    BY <1>1, <1>4
  <2>. QED
    BY <2>1 DEF HasTail
<1>. QED
  BY <1>2, <1>3, <1>4

LEMMA AppendIsLonger ==
  ASSUME NEW s \in Seq(Chunk), NEW c
  PROVE  Append(s, c) # s
<1>1. Len(Append(s, c)) = Len(s) + 1
  OBVIOUS
<1>. QED
  BY <1>1

LEMMA HeadHasTail ==
  ASSUME NEW s \in Seq(Chunk), s # <<>>, Head(s) = "tail"
  PROVE  HasTail(s)
<1>1. 1 \in DOMAIN s /\ s[1] = "tail"
  OBVIOUS
<1>. QED
  BY <1>1 DEF HasTail

LEMMA TailHasTail ==
  ASSUME NEW s \in Seq(Chunk), s # <<>>, HasTail(Tail(s))
  PROVE  HasTail(s)
<1>1. PICK n \in DOMAIN Tail(s) : Tail(s)[n] = "tail"
  BY DEF HasTail
<1>2. n + 1 \in DOMAIN s /\ s[n + 1] = "tail"
  BY <1>1
<1>. QED
  BY <1>2 DEF HasTail

LEMMA NoTail ==
  /\ ~HasTail(<<>>)
  /\ ~HasTail(Noise)
BY DEF HasTail, Noise

LEMMA ResultHasTail == HasTail(Result)
<1>1. 2 \in DOMAIN Result /\ Result[2] = "tail"
  BY DEF Result
<1>. QED
  BY <1>1 DEF HasTail

LEMMA TextsAreChunks ==
  /\ Result \in Seq(Chunk)
  /\ Noise \in Seq(Chunk)
  /\ <<>> \in Seq(Chunk)
BY DEF Result, Noise, Chunk

----------------------------------------------------------------------------
(* Types.                                                                  *)

LEMMA InitTypes == Init => TypeInv /\ PipesFit
BY DelegationAssumption, PluginIsInterval, TextsAreChunks DEF Init, TypeInv, PipesFit, Label

\* What one assignment of an action does to a function's type.
LEMMA AssignKeepsType ==
  ASSUME NEW S, NEW f \in [Plugin -> S], NEW i \in Plugin, NEW v \in S
  PROVE  [f EXCEPT ![i] = v] \in [Plugin -> S]
OBVIOUS

LEMMA LabelsAreLabels ==
  ASSUME TypeInv, NEW i \in Plugin
  PROVE  /\ {"read", "work", "print", "spawn", "write_all", "read_to_end", "wait", "use",
             "exit_0", "exit_failed", "dead", then[i], FailedCode(i)} \subseteq Label
         /\ FailedCode(i) \in {"work", "spawn", "exit_0", "exit_failed"}
BY DEF TypeInv, Label, FailedCode

LEMMA Sizes == Cap \in Nat \ {0} /\ ConfSize \in Nat \ {0}
BY DelegationAssumption

Then == {"work", "spawn", "exit_0", "exit_failed"}

LEMMA ControlTypes ==
  ASSUME TypeInv, [Next]_vars
  PROVE  pc' \in [Plugin -> Label] /\ then' \in [Plugin -> Then]
<1>. USE DEF TypeInv, At, GoTo, Then
<1>1. CASE UNCHANGED vars
  BY <1>1 DEF vars
<1>2. ASSUME NEW i \in Plugin, Read(i) \/ Work(i) \/ Wait(i) \/ Use(i)
      PROVE  pc' \in [Plugin -> Label] /\ then' \in [Plugin -> Then]
  <2>1. CASE Read(i)
    <3>1. pc' = pc \/ \E l \in Label : pc' = [pc EXCEPT ![i] = l]
      BY <2>1, LabelsAreLabels DEF Read, PrintThen
    <3>2. then' = then \/ then' = [then EXCEPT ![i] = "work"]
      BY <2>1 DEF Read, PrintThen
    <3>. QED
      BY <3>1, <3>2
  <2>2. CASE Work(i)
    BY <2>2, LabelsAreLabels DEF Work, PrintThen
  <2>3. CASE Wait(i)
    <3>1. \E l \in Label : pc' = [pc EXCEPT ![i] = l]
      BY <2>3, LabelsAreLabels DEF Wait, PrintThen
    <3>2. then' = then \/ then' = [then EXCEPT ![i] = FailedCode(i)]
      BY <2>3 DEF Wait, PrintThen
    <3>. QED
      BY <3>1, <3>2, LabelsAreLabels
  <2>4. CASE Use(i)
    BY <2>4, LabelsAreLabels DEF Use, PrintThen
  <2>. QED
    BY <1>2, <2>1, <2>2, <2>3, <2>4
<1>3. ASSUME NEW i \in Plugin, WorkFails(i)
      PROVE  pc' \in [Plugin -> Label] /\ then' \in [Plugin -> Then]
  BY <1>3, LabelsAreLabels DEF WorkFails
<1>4. ASSUME NEW i \in Plugin, PrintChunk(i)
      PROVE  pc' \in [Plugin -> Label] /\ then' \in [Plugin -> Then]
  <2>1. pc' = pc \/ \E l \in Label : pc' = [pc EXCEPT ![i] = l]
    BY <1>4, LabelsAreLabels DEF PrintChunk
  <2>. QED
    BY <1>4, <2>1 DEF PrintChunk
<1>5. ASSUME NEW i \in Plugin, Exit(i) \/ Kill(i)
      PROVE  pc' \in [Plugin -> Label] /\ then' \in [Plugin -> Then]
  <2>1. pc' = [pc EXCEPT ![i] = "dead"] /\ then' = then
    BY <1>5 DEF Exit, Kill, End
  <2>. QED
    BY <2>1, LabelsAreLabels
<1>6. ASSUME NEW i \in Plugin, Spawn(i)
      PROVE  pc' \in [Plugin -> Label] /\ then' \in [Plugin -> Then]
  BY <1>6, LabelsAreLabels DEF Spawn
<1>7. ASSUME NEW i \in Plugin, WriteAll(i) \/ DropStdin(i) \/ ReadToEnd(i)
      PROVE  pc' \in [Plugin -> Label] /\ then' \in [Plugin -> Then]
  BY <1>7, LabelsAreLabels DEF WriteAll, DropStdin, ReadToEnd
<1>. QED
  BY <1>1, <1>2, <1>3, <1>4, <1>5, <1>6, <1>7 DEF Next, Run

LEMMA CountTypes ==
  ASSUME TypeInv, [Next]_vars
  PROVE  /\ stdin' \in [Plugin -> 0 .. (Cap + ConfSize)]
         /\ towrite' \in [Plugin -> 0 .. ConfSize]
<1>. DEFINE Goal == /\ stdin \in [Plugin -> 0 .. (Cap + ConfSize)]
                    /\ towrite \in [Plugin -> 0 .. ConfSize]
<1>. Goal
  BY DEF TypeInv
<1>. SUFFICES Goal'
  OBVIOUS
<1>1. CASE UNCHANGED <<stdin, towrite>>
  BY <1>1
<1>2. ASSUME NEW i \in Plugin, Read(i)
      PROVE  Goal'
  <2>1. CASE stdin[i] > 0
    <3>1. stdin[i] - 1 \in 0 .. (Cap + ConfSize)
      BY <2>1, Sizes
    <3>. QED
      BY <1>2, <3>1 DEF Read
  <2>2. CASE ~(stdin[i] > 0)
    BY <1>2, <2>2 DEF Read
  <2>. QED
    BY <2>1, <2>2
<1>3. ASSUME NEW i \in Plugin, Exit(i) \/ Kill(i) \/ Spawn(i)
      PROVE  Goal'
  <2>1. {0, ConfSize} \subseteq 0 .. ConfSize
    BY Sizes
  <2>. QED
    BY <1>3, <2>1 DEF Exit, Kill, Spawn, End
<1>4. ASSUME NEW i \in Plugin, WriteAll(i)
      PROVE  Goal'
  <2>1. CASE UNCHANGED <<stdin, towrite>>
    BY <2>1
  <2>2. CASE /\ stdin[i + 1] < Cap
             /\ stdin' = [stdin EXCEPT ![i + 1] = @ + 1]
             /\ towrite' = [towrite EXCEPT ![i] = @ - 1]
    <3>1. towrite[i] - 1 \in 0 .. ConfSize
      BY <1>4, Sizes DEF WriteAll
    <3>2. ASSUME i + 1 \in Plugin
          PROVE  stdin[i + 1] + 1 \in 0 .. (Cap + ConfSize)
      BY <2>2, <3>2, Sizes
    <3>. QED
      BY <2>2, <3>1, <3>2
  <2>. QED
    BY <1>4, <2>1, <2>2 DEF WriteAll
<1>. QED
  <2>. HIDE DEF Goal
  <2>. QED
    BY <1>1, <1>2, <1>3, <1>4
    DEF Next, Run, vars, Work, WorkFails, PrintChunk, DropStdin, ReadToEnd, Wait, Use

LEMMA FlagTypes ==
  ASSUME TypeInv, [Next]_vars
  PROVE  /\ fed' \in [Plugin -> BOOLEAN]
         /\ code' \in [Plugin -> {"none", "0", "failed", "killed"}]
         /\ worked' \in [Plugin -> BOOLEAN]
BY DEF TypeInv, Next, Run, vars, Read, Work, WorkFails, PrintChunk, Exit, Kill, End, Spawn,
       WriteAll, DropStdin, ReadToEnd, Wait, Use, Leaf

LEMMA TextTypes ==
  ASSUME TypeInv, Parental, [Next]_vars
  PROVE  {stdout', buffer', toprint'} \subseteq [Plugin -> Seq(Chunk)]
<1>. DEFINE Goal == {stdout, buffer, toprint} \subseteq [Plugin -> Seq(Chunk)]
<1>. Goal
  BY DEF TypeInv
<1>. SUFFICES Goal'
  OBVIOUS
<1>1. CASE UNCHANGED <<stdout, buffer, toprint>>
  BY <1>1
<1>2. ASSUME NEW i \in Plugin, Read(i) \/ Work(i) \/ Wait(i) \/ Use(i) \/ Exit(i) \/ Kill(i)
      PROVE  Goal'
  BY <1>2, TextsAreChunks DEF Read, Work, Wait, Use, Exit, Kill, PrintThen, End
<1>3. ASSUME NEW i \in Plugin, PrintChunk(i)
      PROVE  Goal'
  <2>1. CASE toprint[i] # <<>>
    <3>1. Head(toprint[i]) \in Chunk /\ Tail(toprint[i]) \in Seq(Chunk)
      BY <2>1
    <3>2. Append(stdout[i], Head(toprint[i])) \in Seq(Chunk)
      BY <3>1
    <3>. QED
      BY <1>3, <2>1, <3>1, <3>2, TextsAreChunks DEF PrintChunk
  <2>2. CASE toprint[i] = <<>>
    BY <1>3, <2>2 DEF PrintChunk
  <2>. QED
    BY <2>1, <2>2
<1>4. ASSUME NEW i \in Plugin, ReadToEnd(i)
      PROVE  Goal'
  <2>1. i + 1 \in Plugin
    BY <1>4, ChildIsPlugin DEF ReadToEnd, Parental, At
  <2>2. CASE stdout[i + 1] # <<>>
    <3>1. Head(stdout[i + 1]) \in Chunk /\ Tail(stdout[i + 1]) \in Seq(Chunk)
      BY <2>1, <2>2
    <3>2. Append(buffer[i], Head(stdout[i + 1])) \in Seq(Chunk)
      BY <3>1
    <3>. QED
      <4>1. /\ buffer' = [buffer EXCEPT ![i] = Append(@, Head(stdout[i + 1]))]
            /\ stdout' = [stdout EXCEPT ![i + 1] = Tail(@)]
            /\ toprint' = toprint
        BY <1>4, <2>2 DEF ReadToEnd
      <4>. QED
        BY <2>1, <3>1, <3>2, <4>1
  <2>3. CASE stdout[i + 1] = <<>>
    BY <1>4, <2>3 DEF ReadToEnd
  <2>. QED
    BY <2>2, <2>3
<1>. QED
  <2>. HIDE DEF Goal
  <2>. QED
    BY <1>1, <1>2, <1>3, <1>4 DEF Next, Run, vars, WorkFails, Spawn, WriteAll, DropStdin

LEMMA TypeStep ==
  ASSUME TypeInv, Parental, [Next]_vars
  PROVE  TypeInv'
BY ControlTypes, CountTypes, FlagTypes, TextTypes DEF TypeInv, Then

LEMMA PipesFitStep ==
  ASSUME TypeInv, PipesFit, Parental, [Next]_vars
  PROVE  PipesFit'
<1>1. CASE UNCHANGED <<stdin, stdout>>
  BY <1>1 DEF PipesFit
<1>2. ASSUME NEW i \in Plugin, Read(i)
      PROVE  PipesFit'
  BY <1>2, Sizes DEF Read, PipesFit, TypeInv
<1>3. ASSUME NEW i \in Plugin, PrintChunk(i)
      PROVE  PipesFit'
  <2>1. CASE toprint[i] # <<>> /\ stdout' # stdout
    <3>1. /\ stdout' = [stdout EXCEPT ![i] = Append(@, Head(toprint[i]))]
          /\ i = 1 \/ Len(stdout[i]) < Cap
          /\ stdin' = stdin
      BY <1>3, <2>1 DEF PrintChunk
    <3>2. Len(Append(stdout[i], Head(toprint[i]))) = Len(stdout[i]) + 1
      BY <2>1 DEF TypeInv
    <3>3. Len(stdout[i]) \in Nat
      BY DEF TypeInv
    <3>. QED
      BY <3>1, <3>2, <3>3, Sizes DEF PipesFit, TypeInv
  <2>2. CASE stdout' = stdout
    BY <1>1, <1>3, <2>2 DEF PrintChunk
  <2>. QED
    BY <1>3, <2>1, <2>2 DEF PrintChunk
<1>4. ASSUME NEW i \in Plugin, WriteAll(i)
      PROVE  PipesFit'
  <2>1. /\ stdout' = stdout
        /\ \/ stdin' = stdin
           \/ stdin[i + 1] < Cap /\ stdin' = [stdin EXCEPT ![i + 1] = @ + 1]
    BY <1>4, Zenon DEF WriteAll
  <2>2. \A j \in Plugin : stdin[j] \in Nat
    BY Sizes DEF TypeInv
  <2>3. DOMAIN stdin = Plugin
    BY DEF TypeInv
  <2>. QED
    BY <2>1, <2>2, <2>3, Sizes DEF PipesFit
<1>5. ASSUME NEW i \in Plugin, ReadToEnd(i)
      PROVE  PipesFit'
  <2>1. CASE stdout[i + 1] # <<>>
    <3>1. i + 1 \in Plugin
      BY <1>5, ChildIsPlugin DEF ReadToEnd, Parental, At
    <3>2. Len(Tail(stdout[i + 1])) = Len(stdout[i + 1]) - 1
      BY <2>1, <3>1 DEF TypeInv
    <3>3. Len(stdout[i + 1]) \in Nat
      BY <3>1 DEF TypeInv
    <3>. QED
      <4>1. stdout' = [stdout EXCEPT ![i + 1] = Tail(@)] /\ stdin' = stdin
        BY <1>5, <2>1 DEF ReadToEnd
      <4>2. DOMAIN stdout = Plugin
        BY DEF TypeInv
      <4>3. \A j \in Plugin : Len(stdout'[j]) <= Len(stdout[j]) \/ stdout'[j] = stdout[j]
        BY <3>1, <3>2, <3>3, <4>1, <4>2
      <4>4. \A j \in Plugin : Len(stdout[j]) \in Nat /\ Len(stdout'[j]) \in Nat
        BY TextTypes DEF TypeInv
      <4>. QED
        BY <4>1, <4>3, <4>4, Sizes DEF PipesFit
  <2>2. CASE stdout[i + 1] = <<>>
    BY <1>1, <1>5, <2>2 DEF ReadToEnd
  <2>. QED
    BY <2>1, <2>2
<1>. QED
  BY <1>1, <1>2, <1>3, <1>4, <1>5
  DEF Next, Run, vars, Work, WorkFails, Exit, Kill, End, Spawn, DropStdin, Wait, Use

----------------------------------------------------------------------------
(* Control.                                                                *)

LEMMA InitControl == Init => ControlInv /\ TailMeansWorked
<1>. SUFFICES ASSUME Init
              PROVE  ControlInv /\ TailMeansWorked
  OBVIOUS
<1>1. Parental
  BY DEF Init, Parental
<1>2. OneChild
  BY PluginIsInterval DEF Init, OneChild, Early
<1>3. WorkedIsLate
  BY DEF Init, WorkedIsLate
<1>4. TailMeansWorked
  BY NoTail DEF Init, TailMeansWorked, At
<1>. QED
  BY <1>1, <1>2, <1>3, <1>4 DEF ControlInv

LEMMA ControlStep ==
  ASSUME TypeInv, ControlInv, [Next]_vars
  PROVE  ControlInv'
<1>. USE DEF ControlInv
<1>1. CASE UNCHANGED <<pc, then, worked>>
  BY <1>1 DEF Parental, OneChild, WorkedIsLate, Early, Late
<1>2. ASSUME NEW i \in Plugin, Read(i)
      PROVE  ControlInv'
  <2>1. /\ pc[i] = "read" /\ worked' = worked
        /\ \/ pc' = pc /\ then' = then
           \/ pc' = [pc EXCEPT ![i] = "work"] /\ then' = then
           \/ pc' = [pc EXCEPT ![i] = "print"] /\ then' = [then EXCEPT ![i] = "work"]
    BY <1>2 DEF Read, PrintThen, At, GoTo
  <2>2. Parental'
    BY <2>1 DEF Parental, TypeInv
  <2>3. OneChild'
    <3>1. \A j \in Plugin : pc[j] = "unborn" => pc'[j] = "unborn"
      BY <2>1 DEF TypeInv
    <3>2. \A j \in Plugin : Early(j)' => Early(j)
      BY <2>1 DEF Early, TypeInv
    <3>. QED
      BY <3>1, <3>2 DEF OneChild
  <2>4. WorkedIsLate'
    BY <2>1 DEF WorkedIsLate, Late, TypeInv
  <2>. QED
    BY <2>2, <2>3, <2>4
<1>3. ASSUME NEW i \in Plugin, Work(i)
      PROVE  ControlInv'
  <2>1. /\ pc[i] = "work" /\ worked' = [worked EXCEPT ![i] = Leaf(i)]
        /\ pc' = [pc EXCEPT ![i] = "print"]
        /\ \/ Leaf(i) /\ then' = [then EXCEPT ![i] = "exit_0"]
           \/ ~Leaf(i) /\ then' = [then EXCEPT ![i] = "spawn"]
    BY <1>3 DEF Work, PrintThen, At, GoTo
  <2>2. Parental'
    BY <2>1 DEF Parental, TypeInv
  <2>3. OneChild'
    BY <2>1 DEF OneChild, Early, TypeInv
  <2>4. WorkedIsLate'
    BY <2>1 DEF WorkedIsLate, Late, TypeInv
  <2>. QED
    BY <2>2, <2>3, <2>4
<1>4. ASSUME NEW i \in Plugin, PrintChunk(i)
      PROVE  ControlInv'
  <2>1. /\ pc[i] = "print" /\ worked' = worked /\ then' = then
        /\ \/ pc' = pc
           \/ \E l \in {"exit_0", "exit_failed"} : pc' = [pc EXCEPT ![i] = l]
           \/ pc' = [pc EXCEPT ![i] = then[i]]
    BY <1>4 DEF PrintChunk, At, GoTo
  <2>2. Parental'
    BY <2>1 DEF Parental, TypeInv
  <2>3. OneChild'
    <3>1. \A j \in Plugin : pc[j] = "unborn" => pc'[j] = "unborn"
      BY <2>1 DEF TypeInv
    <3>2. \A j \in Plugin : Early(j)' => Early(j)
      BY <2>1 DEF Early, TypeInv
    <3>. QED
      BY <3>1, <3>2 DEF OneChild
  <2>4. WorkedIsLate'
    BY <2>1 DEF WorkedIsLate, Late, TypeInv
  <2>. QED
    BY <2>2, <2>3, <2>4
<1>5. ASSUME NEW i \in Plugin, Exit(i) \/ Kill(i) \/ WorkFails(i)
      PROVE  ControlInv'
  <2>1. /\ pc[i] # "unborn" /\ worked' = worked /\ then' = then
        /\ \E l \in {"exit_0", "exit_failed", "dead"} : pc' = [pc EXCEPT ![i] = l]
    BY <1>5 DEF Exit, Kill, End, WorkFails, FailedCode, Alive, At, GoTo
  <2>2. Parental'
    BY <2>1 DEF Parental, TypeInv
  <2>3. OneChild'
    BY <2>1 DEF OneChild, Early, TypeInv
  <2>4. WorkedIsLate'
    BY <2>1 DEF WorkedIsLate, Late, TypeInv
  <2>. QED
    BY <2>2, <2>3, <2>4
<1>6. ASSUME NEW i \in Plugin, Spawn(i)
      PROVE  ControlInv'
  <2>1. /\ pc[i] = "spawn" /\ worked' = worked /\ then' = then
        /\ pc' = [pc EXCEPT ![i] = "write_all", ![i + 1] = "read"]
    BY <1>6 DEF Spawn, At
  <2>2. i + 1 \in Plugin
    BY <2>1, ChildIsPlugin DEF Parental
  <2>3. pc[i + 1] = "unborn"
    BY <2>1, <2>2 DEF OneChild, Early
  <2>4. Parental'
    BY <2>1 DEF Parental, TypeInv
  <2>5. OneChild'
    BY <2>1, <2>2, <2>3, PluginIsInterval DEF OneChild, Early, TypeInv
  <2>6. WorkedIsLate'
    BY <2>1, <2>2, <2>3, PluginIsInterval DEF WorkedIsLate, Late, TypeInv
  <2>. QED
    BY <2>4, <2>5, <2>6
<1>7. ASSUME NEW i \in Plugin, WriteAll(i) \/ DropStdin(i) \/ ReadToEnd(i)
      PROVE  ControlInv'
  <2>1. /\ pc[i] \in {"write_all", "read_to_end"} /\ worked' = worked /\ then' = then
        /\ \/ pc' = pc
           \/ \E l \in {"read_to_end", "wait", "exit_0", "exit_failed"} :
                pc' = [pc EXCEPT ![i] = l]
    BY <1>7 DEF WriteAll, DropStdin, ReadToEnd, FailedCode, At, GoTo
  <2>2. Parental'
    BY <2>1 DEF Parental, TypeInv
  <2>3. OneChild'
    BY <2>1 DEF OneChild, Early, TypeInv
  <2>4. WorkedIsLate'
    BY <2>1 DEF WorkedIsLate, Late, TypeInv
  <2>. QED
    BY <2>2, <2>3, <2>4
<1>8. ASSUME NEW i \in Plugin, Wait(i)
      PROVE  ControlInv'
  <2>1. /\ pc[i] = "wait" /\ worked' = worked
        /\ \/ /\ \E l \in {"use", "exit_0", "exit_failed"} : pc' = [pc EXCEPT ![i] = l]
              /\ then' = then
           \/ /\ pc' = [pc EXCEPT ![i] = "print"]
              /\ \E l \in {"exit_0", "exit_failed"} : then' = [then EXCEPT ![i] = l]
    BY <1>8 DEF Wait, PrintThen, FailedCode, At, GoTo
  <2>2. Parental'
    BY <2>1 DEF Parental, TypeInv
  <2>3. OneChild'
    <3>1. \A j \in Plugin : pc[j] = "unborn" => pc'[j] = "unborn"
      BY <2>1 DEF TypeInv
    <3>2. \A j \in Plugin : Early(j)' => Early(j)
      BY <2>1 DEF Early, TypeInv
    <3>. QED
      BY <3>1, <3>2 DEF OneChild
  <2>4. WorkedIsLate'
    BY <2>1 DEF WorkedIsLate, Late, TypeInv
  <2>. QED
    BY <2>2, <2>3, <2>4
<1>9. ASSUME NEW i \in Plugin, Use(i)
      PROVE  ControlInv'
  <2>1. /\ pc[i] = "use" /\ worked' = [worked EXCEPT ![i] = TRUE]
        /\ pc' = [pc EXCEPT ![i] = "print"]
        /\ then' = [then EXCEPT ![i] = "exit_0"]
    BY <1>9 DEF Use, PrintThen, At, GoTo
  <2>2. Parental'
    BY <2>1 DEF Parental, TypeInv
  <2>3. OneChild'
    BY <2>1 DEF OneChild, Early, TypeInv
  <2>4. WorkedIsLate'
    BY <2>1 DEF WorkedIsLate, Late, TypeInv
  <2>. QED
    BY <2>2, <2>3, <2>4
<1>. QED
  <2>. HIDE DEF ControlInv
  <2>. QED
    BY <1>1, <1>2, <1>3, <1>4, <1>5, <1>6, <1>7, <1>8, <1>9 DEF Next, Run, vars

----------------------------------------------------------------------------
(* Results.                                                                *)

\* Work that was done stays done: it is done once.
LEMMA WorkedStays ==
  ASSUME TypeInv, ControlInv, [Next]_vars
  PROVE  \A j \in Plugin : worked[j] => worked'[j]
<1>1. CASE worked' = worked
  BY <1>1
<1>2. ASSUME NEW i \in Plugin, Work(i)
      PROVE  \A j \in Plugin : worked[j] => worked'[j]
  <2>1. pc[i] = "work" /\ worked' = [worked EXCEPT ![i] = Leaf(i)]
    BY <1>2 DEF Work, At
  <2>2. ~worked[i]
    BY <2>1 DEF ControlInv, WorkedIsLate, Late
  <2>. QED
    BY <2>1, <2>2 DEF TypeInv
<1>3. ASSUME NEW i \in Plugin, Use(i)
      PROVE  \A j \in Plugin : worked[j] => worked'[j]
  BY <1>3 DEF Use, TypeInv
<1>. QED
  BY <1>1, <1>2, <1>3 DEF Next, Run, vars, Read, WorkFails, PrintChunk, Exit, Kill, End, Spawn,
     WriteAll, DropStdin, ReadToEnd, Wait

LEMMA FromStays ==
  ASSUME TypeInv, ControlInv, [Next]_vars, NEW k \in Nat, From(k)
  PROVE  From(k)'
BY WorkedStays, Zenon DEF From, Plugin

\* A step that adds no end of a result anywhere.
LEMMA NothingNew ==
  ASSUME TypeInv, ControlInv, TailMeansWorked, [Next]_vars,
         \A j \in Plugin : /\ HasTail(stdout'[j]) \/ HasTail(toprint'[j])
                                => HasTail(stdout[j]) \/ HasTail(toprint[j])
                           /\ HasTail(buffer'[j]) => HasTail(buffer[j])
                           /\ pc'[j] = "use" => pc[j] = "use"
  PROVE  TailMeansWorked'
<1>. SUFFICES ASSUME NEW j \in Plugin
              PROVE  /\ HasTail(stdout'[j]) \/ HasTail(toprint'[j]) => From(j)'
                     /\ HasTail(buffer'[j]) \/ pc'[j] = "use" => From(j + 1)'
  BY DEF TailMeansWorked, At, HasTail, Plugin
<1>1. j \in Nat /\ j + 1 \in Nat
  BY PluginIsInterval
<1>. QED
  BY <1>1, FromStays DEF TailMeansWorked, At

LEMMA TailStep ==
  ASSUME TypeInv, ControlInv, TailMeansWorked, [Next]_vars
  PROVE  TailMeansWorked'
<1>1. CASE UNCHANGED <<pc, stdout, toprint, buffer>>
  BY <1>1, NothingNew
<1>2. ASSUME NEW i \in Plugin, Read(i) \/ WorkFails(i) \/ Exit(i) \/ Kill(i) \/ Spawn(i)
                               \/ WriteAll(i) \/ DropStdin(i)
      PROVE  TailMeansWorked'
  <2>1. /\ stdout' = stdout /\ buffer' = buffer
        /\ \/ toprint' = toprint
           \/ \E text \in {Noise, <<>>} : toprint' = [toprint EXCEPT ![i] = text]
    BY <1>2 DEF Read, WorkFails, Exit, Kill, Spawn, WriteAll, DropStdin, PrintThen, End
  <2>2. \/ pc' = pc
        \/ \E l \in {"work", "print", "exit_0", "exit_failed", "dead", "read_to_end"} :
             pc' = [pc EXCEPT ![i] = l]
        \/ pc' = [pc EXCEPT ![i] = "write_all", ![i + 1] = "read"]
    BY <1>2 DEF Read, WorkFails, Exit, Kill, Spawn, WriteAll, DropStdin, PrintThen, End,
       FailedCode, GoTo
  <2>3. \A j \in Plugin : HasTail(toprint'[j]) => HasTail(toprint[j])
    BY <2>1, NoTail DEF TypeInv
  <2>4. \A j \in Plugin : pc'[j] = "use" => pc[j] = "use"
    BY <2>2 DEF TypeInv
  <2>. QED
    BY <2>1, <2>3, <2>4, NothingNew
<1>3. ASSUME NEW i \in Plugin, Work(i)
      PROVE  TailMeansWorked'
  <2>1. /\ stdout' = stdout /\ buffer' = buffer
        /\ pc' = [pc EXCEPT ![i] = "print"]
        /\ worked' = [worked EXCEPT ![i] = Leaf(i)]
        /\ toprint' = [toprint EXCEPT ![i] = IF Leaf(i) THEN Result ELSE Noise]
    BY <1>3 DEF Work, PrintThen, GoTo
  <2>2. CASE Leaf(i)
    <3>1. From(i)'
      <4>1. \A j \in Plugin : j >= i => j = i
        BY <2>2, PluginIsInterval DEF Leaf
      <4>2. worked'[i]
        BY <2>1, <2>2 DEF TypeInv
      <4>. QED
        BY <4>1, <4>2, Zenon DEF From, Plugin
    <3>. SUFFICES ASSUME NEW j \in Plugin
                  PROVE  /\ HasTail(stdout'[j]) \/ HasTail(toprint'[j]) => From(j)'
                         /\ HasTail(buffer'[j]) \/ pc'[j] = "use" => From(j + 1)'
      BY DEF TailMeansWorked, At, HasTail, Plugin
    <3>2. j \in Nat /\ j + 1 \in Nat
      BY PluginIsInterval
    <3>3. pc'[j] = "use" => pc[j] = "use"
      BY <2>1 DEF TypeInv
    <3>4. j # i => toprint'[j] = toprint[j]
      BY <2>1 DEF TypeInv
    <3>. QED
      BY <2>1, <3>1, <3>2, <3>3, <3>4, FromStays DEF TailMeansWorked, At
  <2>3. CASE ~Leaf(i)
    <3>1. \A j \in Plugin : HasTail(toprint'[j]) => HasTail(toprint[j])
      BY <2>1, <2>3, NoTail DEF TypeInv
    <3>2. \A j \in Plugin : pc'[j] = "use" => pc[j] = "use"
      BY <2>1 DEF TypeInv
    <3>. QED
      BY <2>1, <3>1, <3>2, NothingNew
  <2>. QED
    BY <2>2, <2>3
<1>4. ASSUME NEW i \in Plugin, PrintChunk(i)
      PROVE  TailMeansWorked'
  <2>1. \A j \in Plugin : pc'[j] = "use" => pc[j] = "use"
    <3>1. pc' = pc \/ \E l \in Then : pc' = [pc EXCEPT ![i] = l]
      BY <1>4 DEF PrintChunk, GoTo, TypeInv, Then
    <3>. QED
      BY <3>1 DEF Then, TypeInv
  <2>2. buffer' = buffer
    BY <1>4 DEF PrintChunk
  <2>3. CASE stdout' = stdout
    <3>1. toprint' = toprint \/ toprint' = [toprint EXCEPT ![i] = <<>>]
                              \/ stdout' # stdout
      BY <1>4, <2>3, AppendIsLonger DEF PrintChunk, TypeInv
    <3>2. \A j \in Plugin : HasTail(toprint'[j]) => HasTail(toprint[j])
      BY <2>3, <3>1, NoTail DEF TypeInv
    <3>. QED
      BY <2>1, <2>2, <2>3, <3>2, NothingNew
  <2>4. CASE stdout' # stdout
    <3>1. /\ toprint[i] # <<>>
          /\ stdout' = [stdout EXCEPT ![i] = Append(@, Head(toprint[i]))]
          /\ toprint' = [toprint EXCEPT ![i] = Tail(@)]
      BY <1>4, <2>4 DEF PrintChunk
    <3>2. /\ toprint[i] \in Seq(Chunk) /\ stdout[i] \in Seq(Chunk)
          /\ Head(toprint[i]) \in Chunk
      BY <3>1 DEF TypeInv
    <3>3. HasTail(Append(stdout[i], Head(toprint[i]))) => HasTail(stdout[i]) \/ HasTail(toprint[i])
      BY <3>1, <3>2, AppendHasTail, HeadHasTail
    <3>4. HasTail(Tail(toprint[i])) => HasTail(toprint[i])
      BY <3>1, <3>2, TailHasTail
    <3>5. \A j \in Plugin : HasTail(stdout'[j]) \/ HasTail(toprint'[j])
                              => HasTail(stdout[j]) \/ HasTail(toprint[j])
      BY <3>1, <3>3, <3>4 DEF TypeInv
    <3>. QED
      BY <2>1, <2>2, <3>5, NothingNew
  <2>. QED
    BY <2>3, <2>4
<1>5. ASSUME NEW i \in Plugin, ReadToEnd(i)
      PROVE  TailMeansWorked'
  <2>1. i + 1 \in Plugin
    BY <1>5, ChildIsPlugin DEF ReadToEnd, ControlInv, Parental, At
  <2>2. CASE stdout[i + 1] # <<>>
    <3>1. /\ pc' = pc /\ toprint' = toprint
          /\ buffer' = [buffer EXCEPT ![i] = Append(@, Head(stdout[i + 1]))]
          /\ stdout' = [stdout EXCEPT ![i + 1] = Tail(@)]
      BY <1>5, <2>2 DEF ReadToEnd
    <3>2. /\ buffer[i] \in Seq(Chunk) /\ stdout[i + 1] \in Seq(Chunk)
          /\ Head(stdout[i + 1]) \in Chunk
      BY <2>1, <2>2 DEF TypeInv
    <3>3. HasTail(Append(buffer[i], Head(stdout[i + 1]))) => HasTail(buffer[i]) \/ HasTail(stdout[i + 1])
      BY <2>2, <3>2, AppendHasTail, HeadHasTail
    <3>4. HasTail(Tail(stdout[i + 1])) => HasTail(stdout[i + 1])
      BY <2>2, <3>2, TailHasTail
    <3>. SUFFICES ASSUME NEW j \in Plugin
                  PROVE  /\ HasTail(stdout'[j]) \/ HasTail(toprint'[j]) => From(j)'
                         /\ HasTail(buffer'[j]) \/ pc'[j] = "use" => From(j + 1)'
      BY DEF TailMeansWorked, At, HasTail, Plugin
    <3>5. j \in Nat /\ j + 1 \in Nat
      BY PluginIsInterval
    <3>6. HasTail(stdout'[j]) => HasTail(stdout[j])
      BY <3>1, <3>4 DEF TypeInv
    <3>7. HasTail(buffer'[j]) => From(j + 1)
      <4>1. CASE j = i
        <5>1. buffer'[i] = Append(buffer[i], Head(stdout[i + 1]))
          BY <3>1 DEF TypeInv
        <5>. QED
          BY <2>1, <3>3, <4>1, <5>1 DEF TailMeansWorked
      <4>2. CASE j # i
        BY <3>1, <4>2 DEF TailMeansWorked, TypeInv
      <4>. QED
        BY <4>1, <4>2
    <3>. QED
      BY <3>1, <3>5, <3>6, <3>7, FromStays DEF TailMeansWorked, At
  <2>3. CASE stdout[i + 1] = <<>>
    <3>1. stdout' = stdout /\ buffer' = buffer /\ toprint' = toprint
          /\ pc' = [pc EXCEPT ![i] = "wait"]
      BY <1>5, <2>3 DEF ReadToEnd, GoTo
    <3>2. \A j \in Plugin : pc'[j] = "use" => pc[j] = "use"
      BY <3>1 DEF TypeInv
    <3>. QED
      BY <3>1, <3>2, NothingNew
  <2>. QED
    BY <2>2, <2>3
<1>6. ASSUME NEW i \in Plugin, Wait(i)
      PROVE  TailMeansWorked'
  <2>1. /\ stdout' = stdout /\ buffer' = buffer
        /\ \/ toprint' = toprint
           \/ toprint' = [toprint EXCEPT ![i] = Noise]
        /\ \/ \E l \in {"print", "exit_0", "exit_failed"} : pc' = [pc EXCEPT ![i] = l]
           \/ buffer[i] = Result /\ pc' = [pc EXCEPT ![i] = "use"]
    BY <1>6 DEF Wait, Parses, PrintThen, FailedCode, GoTo
  <2>. SUFFICES ASSUME NEW j \in Plugin
                PROVE  /\ HasTail(stdout'[j]) \/ HasTail(toprint'[j]) => From(j)'
                       /\ HasTail(buffer'[j]) \/ pc'[j] = "use" => From(j + 1)'
    BY DEF TailMeansWorked, At, HasTail, Plugin
  <2>2. j \in Nat /\ j + 1 \in Nat
    BY PluginIsInterval
  <2>3. HasTail(toprint'[j]) => HasTail(toprint[j])
    BY <2>1, NoTail DEF TypeInv
  <2>4. pc'[j] = "use" => pc[j] = "use" \/ HasTail(buffer[j])
    BY <2>1, ResultHasTail DEF TypeInv
  <2>. QED
    BY <2>1, <2>2, <2>3, <2>4, FromStays DEF TailMeansWorked, At
<1>7. ASSUME NEW i \in Plugin, Use(i)
      PROVE  TailMeansWorked'
  <2>1. /\ pc[i] = "use" /\ stdout' = stdout /\ buffer' = buffer
        /\ pc' = [pc EXCEPT ![i] = "print"]
        /\ worked' = [worked EXCEPT ![i] = TRUE]
        /\ toprint' = [toprint EXCEPT ![i] = Result]
    BY <1>7 DEF Use, PrintThen, At, GoTo
  <2>2. From(i + 1)
    BY <2>1 DEF TailMeansWorked, At
  <2>3. From(i)'
    BY <2>1, <2>2, PluginIsInterval DEF From, TypeInv, Plugin
  <2>. SUFFICES ASSUME NEW j \in Plugin
                PROVE  /\ HasTail(stdout'[j]) \/ HasTail(toprint'[j]) => From(j)'
                       /\ HasTail(buffer'[j]) \/ pc'[j] = "use" => From(j + 1)'
    BY DEF TailMeansWorked, At, HasTail, Plugin
  <2>4. j \in Nat /\ j + 1 \in Nat
    BY PluginIsInterval
  <2>5. pc'[j] = "use" => pc[j] = "use"
    BY <2>1 DEF TypeInv
  <2>6. j # i => toprint'[j] = toprint[j]
    BY <2>1 DEF TypeInv
  <2>. QED
    BY <2>1, <2>3, <2>4, <2>5, <2>6, FromStays DEF TailMeansWorked, At
<1>. QED
  BY <1>1, <1>2, <1>3, <1>4, <1>5, <1>6, <1>7 DEF Next, Run, vars

----------------------------------------------------------------------------
(* Theorems.                                                               *)

LEMMA ResultInductive == Spec => []ResultInv
<1>1. Init => ResultInv
  BY InitTypes, InitControl DEF ResultInv
<1>2. ResultInv /\ [Next]_vars => ResultInv'
  <2>. SUFFICES ASSUME ResultInv, [Next]_vars
                PROVE  ResultInv'
    OBVIOUS
  <2>. QED
    BY TypeStep, PipesFitStep, ControlStep, TailStep DEF ResultInv, ControlInv
<1>. QED
  BY <1>1, <1>2, PTL DEF Spec

\* Every variable keeps its type and no pipe holds more than fits, for every
\* chain and every size of configurations and pipes (lib.rs:94-105).
THEOREM DelegationTypes == Spec => []ChainTypeOK
<1>1. ResultInv => ChainTypeOK
  BY DEF ResultInv, TypeInv, PipesFit, ChainTypeOK, Label, Chunk
<1>. QED
  BY <1>1, ResultInductive, PTL

\* A result, on any plugin's output or in its hands, stands for finished work
\* of every plugin below, in a chain of any length whose processes may be
\* killed or fail at any point (lib.rs:94-117, bridge main.rs:22-31).
THEOREM ResultsSafe == Spec => []ResultMeansWorked
<1>1. ResultInv => ResultMeansWorked
  <2>. SUFFICES ASSUME ResultInv, NEW i \in Plugin, At(i, "use") \/ HasTail(stdout[i]),
                       NEW j \in Plugin, j > i
                PROVE  worked[j]
    BY DEF ResultMeansWorked, HasTail
  <2>1. From(i) \/ From(i + 1)
    BY DEF ResultInv, TailMeansWorked
  <2>. QED
    BY <2>1, PluginIsInterval DEF From
<1>. QED
  BY <1>1, ResultInductive, PTL
=============================================================================
