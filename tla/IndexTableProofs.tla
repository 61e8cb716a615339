-------------------------- MODULE IndexTableProofs --------------------------
(***************************************************************************)
(* What no change can do to the index, whatever it says: the record table  *)
(* stays sound, node ids stay the nodes', and totals stay exact, for any   *)
(* number of records, nodes, names and sizes, and for trees of any depth.  *)
(* What one operation does is in IndexProofs.                              *)
(***************************************************************************)
EXTENDS IndexTable, IndexProofs

LEMMA ChangeIs == Change \subseteq AnyChange
  BY TableAssumption DEF Change, AnyChange

-----------------------------------------------------------------------------
\* Types and the record table are one inductive invariant: Good needs the
\* types, the flags need the table, and a fresh index has all of them by
\* TableAssumption.
IInv == TypeOK /\ TableSound

LEMMA InitInv == Init => IInv
  BY TableAssumption DEF Init, IInv, TypeOK, TableSound

LEMMA StepInv == IInv /\ [Next]_vars => IInv'
  <1> SUFFICES ASSUME IInv, [Next]_vars
               PROVE  IInv'
    OBVIOUS
  <1> USE DEF IInv, TypeOK, TableSound
  <1>1. CASE ApplyOne
    <2>1. PICK c \in AnyChange : index' = Apply(index, c)
      BY ChangeIs, <1>1 DEF ApplyOne
    <2>2. Good(index, index') /\ FlagsSound(index')
      BY <1>1, <2>1, ApplyGood, ApplyFlags DEF ApplyOne
    <2>3. turn' \in 0 .. MaxChanges
      BY <1>1, TableAssumption DEF ApplyOne
    <2> QED
      BY <2>2, <2>3 DEF Good
  <1>2. CASE Replace
    BY <1>2, TableAssumption DEF Replace
  <1>3. CASE UNCHANGED vars
    BY <1>3 DEF vars
  <1> QED
    BY <1>1, <1>2, <1>3 DEF Next

\* Every field of the index keeps its type, for any changes (Index::apply).
THEOREM TypeCorrect == Spec => []TypeOK
  <1>1. IInv => TypeOK
    BY DEF IInv
  <1> QED
    BY InitInv, StepInv, <1>1, PTL DEF Spec

\* The record table stays sound, for any changes: no live node is ever out of
\* reach of the journal records about it, and no record speaks for two nodes.
THEOREM RecordTable == Spec => []TableSound
  <1>1. IInv => TableSound
    BY DEF IInv
  <1> QED
    BY InitInv, StepInv, <1>1, PTL DEF Spec

\* What one change does to a sound index.
LEMMA ChangeStep ==
    ASSUME IInv, [Next]_vars, turn' = turn + 1
    PROVE  /\ Good(index, index')
           /\ Rooted(index) /\ Rooted(index') /\ PrunedStay(index, index')
                /\ Recounted(index) => Recounted(index')
  <1> USE DEF IInv, TypeOK, TableSound
  <1>1. turn \in Nat
    BY TableAssumption
  <1>2. CASE ApplyOne
    <2>1. PICK c \in AnyChange : index' = Apply(index, c)
      BY ChangeIs, <1>2 DEF ApplyOne
    <2> QED
      BY <1>2, <2>1, ApplyGood, ApplyKept DEF ApplyOne
  <1>3. CASE Replace
    BY <1>1, <1>3 DEF Replace
  <1>4. CASE UNCHANGED vars
    BY <1>1, <1>4 DEF vars
  <1> QED
    BY <1>2, <1>3, <1>4 DEF Next

\* Ids only grow, tombstones stay, a node keeps its generation and kind, and a
\* record is given to another node only over a tombstone.
THEOREM NodeIdsStable == Spec => IdsStable
  <1>1. IInv /\ [Next]_vars =>
          [turn' = turn + 1 =>
             /\ index.n <= index'.n
             /\ index.del \subseteq index'.del
             /\ \A m \in 0 .. index.n - 1 :
                  /\ index'.seq[m] = index.seq[m]
                  /\ m \in index'.dir <=> m \in index.dir
             /\ \A r \in Rec : index.rec[r] # NoNode /\ index'.rec[r] # index.rec[r]
                                    => index.rec[r] \in index'.del]_vars
    BY ChangeStep DEF Good
  <1> QED
    BY InitInv, StepInv, <1>1, PTL DEF Spec, IdsStable

\* Totals do not drift: one change between rooted trees that moves nothing pruned
\* leaves every total of every shown folder what a recount would give, whatever
\* the tree, the depth of it and the change (propagate, detach, attach).
THEOREM TotalsStay == Spec => TotalsKept
  <1>1. IInv /\ [Next]_vars =>
          [turn' = turn + 1 /\ Rooted(index) /\ Rooted(index') /\ PrunedStay(index, index')
             /\ Recounted(index) => Recounted(index')]_vars
    BY ChangeStep
  <1> QED
    BY InitInv, StepInv, <1>1, PTL DEF Spec, TotalsKept

\* So they are exact for as long as the tree is rooted, from a scan on whose
\* totals are.
THEOREM TotalsStayExact ==
    ASSUME \A ix \in Fresh : Recounted(ix)
    PROVE  Spec /\ []Rooted(index) /\ [][PrunedStay(index, index')]_vars
             => []Recounted(index)
  <1>1. Init => Recounted(index)
    BY DEF Init
  <1>2. IInv /\ [Next]_vars /\ Rooted(index) /\ Rooted(index)' /\ Recounted(index)
             /\ [PrunedStay(index, index')]_vars
          => Recounted(index)'
    <2> SUFFICES ASSUME IInv, [Next]_vars, Rooted(index), Rooted(index'), Recounted(index),
                        [PrunedStay(index, index')]_vars
                 PROVE  Recounted(index')
      OBVIOUS
    <2>1. CASE ApplyOne
      <3>1. turn' = turn + 1 /\ turn \in Nat
        BY <2>1, TableAssumption DEF ApplyOne, IInv, TypeOK
      <3>2. vars' # vars
        BY <3>1 DEF vars
      <3> QED
        BY <3>1, <3>2, ChangeStep
    <2>2. CASE Replace
      BY <2>2 DEF Replace
    <2>3. CASE UNCHANGED vars
      BY <2>3 DEF vars
    <2> QED
      BY <2>1, <2>2, <2>3 DEF Next
  <1> QED
    BY InitInv, StepInv, <1>1, <1>2, PTL DEF Spec

=============================================================================
