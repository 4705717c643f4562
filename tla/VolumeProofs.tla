---------------------------- MODULE VolumeProofs ----------------------------
(* What follows from the promise of Volume, for any volumes and VMs. *)
EXTENDS Volume, TLAPS

\* Exclusive is not inductive: it needs that the CO has business with one VM of
\* a volume at a time.
Sole ==
  \A v \in Volumes, m1, m2 \in VMs :
    told[v][m1] # "out" /\ told[v][m2] # "out" => m1 = m2

Inv == TypeOK /\ Exclusive /\ Sole

\* Nothing is held and nothing was asked for.
LEMMA InitInv == Init => Inv
BY DEF Init, Inv, TypeOK, Exclusive, Sole, States

\* Whatever the CO notes of a VM, the types are kept.
LEMMA TellTypeOK ==
  ASSUME TypeOK, NEW v \in Volumes, NEW m \in VMs, NEW state \in States, Tell(v, m, state)
  PROVE  TypeOK'
BY DEF TypeOK, Tell

\* No question, step or answer of the promise lets two VMs have a volume, or
\* makes an answer that was given untrue.
LEMMA NextInv == Inv /\ [Next]_vars => Inv'
<1> SUFFICES ASSUME Inv, [Next]_vars PROVE Inv'
  OBVIOUS
<1>1. ASSUME NEW v \in Volumes, NEW m \in VMs, AskPublish(v, m) PROVE Inv'
  <2>1. TypeOK'  BY <1>1, TellTypeOK DEF Inv, AskPublish, States
  <2>2. Exclusive' /\ Sole'
    BY <1>1 DEF Inv, TypeOK, Exclusive, Sole, AskPublish, Tell
  <2> QED BY <2>1, <2>2 DEF Inv
<1>2. ASSUME NEW v \in Volumes, NEW m \in VMs, AskUnpublish(v, m) PROVE Inv'
  <2>1. TypeOK'  BY <1>2, TellTypeOK DEF Inv, AskUnpublish, States
  <2>2. Exclusive' /\ Sole'
    BY <1>2 DEF Inv, TypeOK, Exclusive, Sole, AskUnpublish, Tell
  <2> QED BY <2>1, <2>2 DEF Inv
<1>3. ASSUME NEW v \in Volumes, NEW m \in VMs, Take(v, m) PROVE Inv'
  BY <1>3 DEF Inv, TypeOK, Exclusive, Sole, Take
<1>4. ASSUME NEW v \in Volumes, NEW m \in VMs, LetGo(v, m) PROVE Inv'
  BY <1>4 DEF Inv, TypeOK, Exclusive, Sole, LetGo
<1>5. ASSUME NEW v \in Volumes, NEW m \in VMs, Published(v, m) PROVE Inv'
  <2>1. TypeOK'  BY <1>5, TellTypeOK DEF Inv, Published, States
  <2>2. Exclusive' /\ Sole'
    BY <1>5 DEF Inv, TypeOK, Exclusive, Sole, Published, Tell
  <2> QED BY <2>1, <2>2 DEF Inv
<1>6. ASSUME NEW v \in Volumes, NEW m \in VMs, Unpublished(v, m) PROVE Inv'
  <2>1. TypeOK'  BY <1>6, TellTypeOK DEF Inv, Unpublished, States
  <2>2. Exclusive' /\ Sole'
    BY <1>6 DEF Inv, TypeOK, Exclusive, Sole, Unpublished, Tell
  <2> QED BY <2>1, <2>2 DEF Inv
<1>7. ASSUME NEW v \in Volumes, Deleted(v) PROVE Inv'
  BY <1>7 DEF Inv, TypeOK, Exclusive, Sole, Deleted
<1>8. CASE UNCHANGED vars
  BY <1>8 DEF Inv, TypeOK, Exclusive, Sole, vars
<1> QED BY <1>1, <1>2, <1>3, <1>4, <1>5, <1>6, <1>7, <1>8 DEF Next

\* A volume is never with two VMs, is with the VM it is published to, and with
\* no VM that it is unpublished from.
THEOREM OneHolder == Spec => []Exclusive
<1>1. Inv => Exclusive  BY DEF Inv
<1> QED BY <1>1, InitInv, NextInv, PTL DEF Spec
=============================================================================
