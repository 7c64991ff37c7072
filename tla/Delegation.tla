----------------------------- MODULE Delegation -----------------------------
(***************************************************************************)
(* A chain of plugins, each of which starts the next as a child process,   *)
(* hands it a configuration on standard input and takes its result from    *)
(* standard output (invoke/src/lib.rs): flannel starts bridge, bridge      *)
(* starts an IPAM plugin.  The runtime, which starts the first one, feeds  *)
(* it and reads all it prints.                                             *)
(*                                                                         *)
(* What goes through a pipe is counted in chunks: a configuration is       *)
(* ConfSize of them, a result is a "head" and a "tail", and anything else  *)
(* that a plugin prints is "noise".                                        *)
(***************************************************************************)
EXTENDS Naturals, Sequences

CONSTANTS
  Chain,      \* the kinds of the plugins, the runtime's own first
  ConfSize,   \* chunks of a configuration
  Cap,        \* chunks a pipe holds
  Faults      \* a plugin's own work can fail, and it can be killed

ASSUME DelegationAssumption ==
  /\ Chain \in Seq({"flannel", "bridge", "ipam"}) /\ Chain # <<>>
  /\ \A i \in DOMAIN Chain : Chain[i] = "ipam" <=> i = Len(Chain)
  /\ ConfSize \in Nat \ {0} /\ Cap \in Nat \ {0}
  /\ Faults \in BOOLEAN

VARIABLES
  pc,       \* plugin |-> what it is about to do
  stdin,    \* plugin |-> chunks in its standard input's pipe
  fed,      \* plugin |-> its parent still holds the write end of that pipe
  stdout,   \* plugin |-> chunks in its standard output's pipe
  code,     \* plugin |-> its exit status: "none", "0", "failed" or "killed"
  towrite,  \* plugin |-> chunks of configuration still to write to its child
  buffer,   \* plugin |-> what it has read of its child's output
  toprint,  \* plugin |-> chunks it still has to print
  then,     \* plugin |-> what it does when they are printed
  worked    \* plugin |-> its work was done

vars == <<pc, stdin, fed, stdout, code, towrite, buffer, toprint, then, worked>>

Plugin == DOMAIN Chain
Leaf(i) == i = Len(Chain)
Result == <<"head", "tail">>
Noise == <<"noise">>

Init ==
  /\ pc = [i \in Plugin |-> IF i = 1 THEN "read" ELSE "unborn"]
  /\ stdin = [i \in Plugin |-> IF i = 1 THEN ConfSize ELSE 0]
  /\ fed = [i \in Plugin |-> FALSE]
  /\ stdout = [i \in Plugin |-> <<>>]
  /\ code = [i \in Plugin |-> "none"]
  /\ towrite = [i \in Plugin |-> 0]
  /\ buffer = [i \in Plugin |-> <<>>]
  /\ toprint = [i \in Plugin |-> <<>>]
  /\ then = [i \in Plugin |-> "exit_0"]
  /\ worked = [i \in Plugin |-> FALSE]

At(i, l) == pc[i] = l
GoTo(i, l) == pc' = [pc EXCEPT ![i] = l]
Alive(i) == pc[i] \notin {"unborn", "dead"}
Unread(i) == i > 1 /\ ~Alive(i - 1)

\* Chunks go to standard output and then it goes on to l.
PrintThen(i, chunks, l) ==
  /\ GoTo(i, "print")
  /\ toprint' = [toprint EXCEPT ![i] = chunks]
  /\ then' = [then EXCEPT ![i] = l]

----------------------------------------------------------------------------
(* The plugin's own side.                                                  *)

\* read_to_end on standard input; flannel reads its configuration from a
\* file and leaves standard input alone.
Read(i) ==
  /\ At(i, "read")
  /\ \/ /\ Chain[i] = "flannel"
        /\ PrintThen(i, Noise, "work")
        /\ UNCHANGED stdin
     \/ /\ Chain[i] # "flannel" /\ stdin[i] > 0
        /\ stdin' = [stdin EXCEPT ![i] = @ - 1]
        /\ UNCHANGED <<pc, toprint, then>>
     \/ /\ Chain[i] # "flannel" /\ stdin[i] = 0 /\ ~fed[i]
        /\ GoTo(i, "work")
        /\ UNCHANGED <<stdin, toprint, then>>
  /\ UNCHANGED <<fed, stdout, code, towrite, buffer, worked>>

\* A leaf answers; the others delegate, with three println! first.
Work(i) ==
  /\ At(i, "work")
  /\ worked' = [worked EXCEPT ![i] = Leaf(i)]
  /\ IF Leaf(i) THEN PrintThen(i, Result, "exit_0") ELSE PrintThen(i, Noise, "spawn")
  /\ UNCHANGED <<stdin, fed, stdout, code, towrite, buffer>>

\* The main of bridge drops the error, the others return it.
FailedCode(i) == IF Chain[i] = "bridge" THEN "exit_0" ELSE "exit_failed"

\* With an error, or a panic, which no main drops.
WorkFails(i) ==
  /\ Faults
  /\ At(i, "work") \/ At(i, "use")
  /\ GoTo(i, FailedCode(i)) \/ GoTo(i, "exit_failed")
  /\ UNCHANGED <<stdin, fed, stdout, code, towrite, buffer, toprint, then, worked>>

\* write() blocks on a full pipe.  When nobody reads, println! and expect()
\* panic; only bridge ignores that its result could not be written.
PrintChunk(i) ==
  /\ At(i, "print")
  /\ \/ /\ toprint[i] # <<>> /\ ~Unread(i)
        /\ i = 1 \/ Len(stdout[i]) < Cap
        /\ stdout' = [stdout EXCEPT ![i] = Append(@, Head(toprint[i]))]
        /\ toprint' = [toprint EXCEPT ![i] = Tail(@)]
        /\ UNCHANGED pc
     \/ /\ toprint[i] # <<>> /\ Unread(i)
        /\ toprint' = [toprint EXCEPT ![i] = <<>>]
        /\ GoTo(i, IF Chain[i] = "bridge" /\ toprint[i] # Noise THEN "exit_0" ELSE "exit_failed")
        /\ UNCHANGED stdout
     \/ /\ toprint[i] = <<>>
        /\ GoTo(i, then[i])
        /\ UNCHANGED <<stdout, toprint>>
  /\ UNCHANGED <<stdin, fed, code, towrite, buffer, then, worked>>

\* A process that ends drops the pipes it holds.
End(i, status) ==
  /\ GoTo(i, "dead")
  /\ code' = [code EXCEPT ![i] = status]
  /\ fed' = [j \in Plugin |-> fed[j] /\ j # i + 1]
  /\ toprint' = [toprint EXCEPT ![i] = <<>>]
  /\ towrite' = [towrite EXCEPT ![i] = 0]
  /\ UNCHANGED <<stdin, stdout, buffer, then, worked>>

Exit(i) ==
  \/ At(i, "exit_0") /\ End(i, "0")
  \/ At(i, "exit_failed") /\ End(i, "failed")

Kill(i) == Faults /\ Alive(i) /\ End(i, "killed")

----------------------------------------------------------------------------
(* exec_plugin_with_result and delegate_add.                               *)

\* Mutated form of Spawn: the configuration ends in one chunk more.
SpawnOneMore(i) ==
  /\ At(i, "spawn")
  /\ pc' = [pc EXCEPT ![i] = "write_all", ![i + 1] = "read"]
  /\ fed' = [fed EXCEPT ![i + 1] = TRUE]
  /\ towrite' = [towrite EXCEPT ![i] = ConfSize + 1]
  /\ UNCHANGED <<stdin, stdout, code, buffer, toprint, then, worked>>

Spawn(i) ==
  /\ At(i, "spawn")
  /\ pc' = [pc EXCEPT ![i] = "write_all", ![i + 1] = "read"]
  /\ fed' = [fed EXCEPT ![i + 1] = TRUE]
  /\ towrite' = [towrite EXCEPT ![i] = ConfSize]
  /\ UNCHANGED <<stdin, stdout, code, buffer, toprint, then, worked>>

\* All of the configuration before anything is read; EPIPE ends it.
WriteAll(i) ==
  /\ At(i, "write_all") /\ towrite[i] > 0
  /\ \/ /\ Alive(i + 1)
        /\ stdin[i + 1] < Cap
        /\ stdin' = [stdin EXCEPT ![i + 1] = @ + 1]
        /\ towrite' = [towrite EXCEPT ![i] = @ - 1]
        /\ UNCHANGED pc
     \/ /\ ~Alive(i + 1)
        /\ GoTo(i, FailedCode(i))
        /\ UNCHANGED <<stdin, towrite>>
  /\ UNCHANGED <<fed, stdout, code, buffer, toprint, then, worked>>

\* Mutated form of DropStdin: wait() comes before read_to_end().
DropStdinAndWait(i) ==
  /\ At(i, "write_all") /\ towrite[i] = 0
  /\ GoTo(i, "wait")
  /\ fed' = [fed EXCEPT ![i + 1] = FALSE]
  /\ UNCHANGED <<stdin, stdout, code, towrite, buffer, toprint, then, worked>>

DropStdin(i) ==
  /\ At(i, "write_all") /\ towrite[i] = 0
  /\ GoTo(i, "read_to_end")
  /\ fed' = [fed EXCEPT ![i + 1] = FALSE]
  /\ UNCHANGED <<stdin, stdout, code, towrite, buffer, toprint, then, worked>>

ReadToEnd(i) ==
  /\ At(i, "read_to_end")
  /\ \/ /\ stdout[i + 1] # <<>>
        /\ buffer' = [buffer EXCEPT ![i] = Append(@, Head(stdout[i + 1]))]
        /\ stdout' = [stdout EXCEPT ![i + 1] = Tail(@)]
        /\ UNCHANGED pc
     \/ /\ stdout[i + 1] = <<>> /\ ~Alive(i + 1)
        /\ GoTo(i, "wait")
        /\ UNCHANGED <<buffer, stdout>>
  /\ UNCHANGED <<stdin, fed, code, towrite, toprint, then, worked>>

\* Mutated form of Parses: no output at all counts as an empty result.
ParsesEmpty(text) == text \in {Result, <<>>}

\* serde_json::from_slice takes a result and nothing beside it.
Parses(text) == text = Result

\* A child that was killed has no exit code, which counts as success.
Wait(i) ==
  /\ At(i, "wait")
  /\ ~Alive(i + 1)
  /\ \/ /\ code[i + 1] = "failed"
        /\ PrintThen(i, Noise, FailedCode(i))
     \/ /\ code[i + 1] # "failed"
        /\ GoTo(i, IF Parses(buffer[i]) THEN "use" ELSE FailedCode(i))
        /\ UNCHANGED <<toprint, then>>
  /\ UNCHANGED <<stdin, fed, stdout, code, towrite, buffer, worked>>

\* The rest of cmd_add, and the plugin's own result.
Use(i) ==
  /\ At(i, "use")
  /\ worked' = [worked EXCEPT ![i] = TRUE]
  /\ PrintThen(i, Result, "exit_0")
  /\ UNCHANGED <<stdin, fed, stdout, code, towrite, buffer>>

Run(i) ==
  \/ Read(i) \/ Work(i) \/ WorkFails(i) \/ PrintChunk(i) \/ Exit(i)
  \/ Spawn(i) \/ WriteAll(i) \/ DropStdin(i) \/ ReadToEnd(i) \/ Wait(i) \/ Use(i)

Next == \E i \in Plugin : Run(i) \/ Kill(i)

\* Every process that can go on does.
Fairness == \A i \in Plugin : WF_vars(Run(i))

Spec == Init /\ [][Next]_vars /\ Fairness

----------------------------------------------------------------------------
(* Properties.                                                             *)

\* Every variable keeps the type of the state it models, and no pipe but the
\* runtime's holds more than fits.
ChainTypeOK ==
  /\ pc \in [Plugin -> {"unborn", "read", "work", "print", "spawn", "write_all",
                        "read_to_end", "wait", "use", "exit_0", "exit_failed", "dead"}]
  /\ stdin \in [Plugin -> 0 .. (Cap + ConfSize)]
  /\ fed \in [Plugin -> BOOLEAN]
  /\ \A i \in Plugin : stdout[i] \in Seq({"head", "tail", "noise"})
                       /\ (i > 1 => Len(stdout[i]) <= Cap /\ stdin[i] <= Cap)
  /\ code \in [Plugin -> {"none", "0", "failed", "killed"}]
  /\ towrite \in [Plugin -> 0 .. ConfSize]
  /\ \A i \in Plugin : {buffer[i], toprint[i]} \subseteq Seq({"head", "tail", "noise"})
  /\ worked \in [Plugin -> BOOLEAN]

\* A plugin goes on with a result only when its child did its work and
\* printed all of it, although a killed child and a failed bridge both count
\* as successes by their exit status (lib.rs:107-117, bridge main.rs:22-31).
\* So when the last line of any plugin is a result, all work below is done.
ResultMeansWorked ==
  \A i \in Plugin :
    At(i, "use") \/ "tail" \in {stdout[i][n] : n \in DOMAIN stdout[i]} =>
      \A j \in Plugin : j > i => worked[j]

\* No process of the chain hangs, although the parent writes everything
\* before it reads anything and either pipe may be too small for what goes
\* through it, and although any of them may die at any time
\* (lib.rs:94-105: the children read all their input before they print).
EveryPluginEnds == \A i \in Plugin : Alive(i) ~> ~Alive(i)

\* README.md:28: the roadmap lists flannel as done.  When nothing fails and
\* nobody is killed, flannel gets the result of the plugin it delegates to.
FlannelGetsResult ==
  \A i \in Plugin : Chain[i] = "flannel" /\ At(i, "dead") => worked[i]
=============================================================================
