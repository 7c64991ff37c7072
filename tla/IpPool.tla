------------------------------- MODULE IpPool -------------------------------
(***************************************************************************)
(* What the store promises to the runtimes of a host: an address belongs   *)
(* to at most one attachment, it is taken only while it is free, and an    *)
(* address that the runtime was given is not given back or lost before the *)
(* runtime has called DEL.                                                 *)
(***************************************************************************)
EXTENDS Naturals

CONSTANTS Addr, Att, Free, Stranded

VARIABLES
  owner,   \* address |-> the attachment it is reserved for, Free or Stranded
  lease    \* attachment |-> the addresses in use by it

pool == <<owner, lease>>

Init ==
  /\ owner = [x \in Addr |-> Free]
  /\ lease = [a \in Att |-> {}]

Take(a, x) ==
  /\ owner[x] = Free
  /\ owner' = [owner EXCEPT ![x] = a]
  /\ UNCHANGED lease

\* An attachment with addresses in use gives none back.
GiveBack(a, x) ==
  /\ owner[x] = a
  /\ lease[a] = {}
  /\ owner' = [owner EXCEPT ![x] = Free]
  /\ UNCHANGED lease

\* A reservation whose maker died before it was complete: nobody can give it
\* back.  The maker's DEL may be over with it.
Strand(a, x) ==
  /\ owner[x] = a
  /\ lease[a] = {}
  /\ owner' = [owner EXCEPT ![x] = Stranded]
  /\ UNCHANGED lease

Held(a) == {x \in Addr : owner[x] = a}

Grant(a, S) ==
  /\ lease[a] = {}
  /\ S # {}
  /\ lease' = [lease EXCEPT ![a] = S]
  /\ UNCHANGED owner

Drop(a) ==
  /\ lease' = [lease EXCEPT ![a] = {}]
  /\ UNCHANGED owner

Next ==
  \E a \in Att :
    \/ \E x \in Addr : Take(a, x) \/ GiveBack(a, x) \/ Strand(a, x)
    \/ \E S \in SUBSET Held(a) : Grant(a, S)
    \/ Drop(a)

Spec == Init /\ [][Next]_pool
=============================================================================
