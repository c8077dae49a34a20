------------------------ MODULE FairSchedulerProofs ------------------------
(***************************************************************************)
(* Proofs about FairScheduler for any number of executions, teams and      *)
(* concurrent cleanups, and any limits.                                    *)
(***************************************************************************)
EXTENDS FairScheduler, FiniteSetTheorems, TLAPS

(***************************************************************************)
(* Every variable stays in its type, whatever the clients and the cleanups *)
(* do.                                                                     *)
(***************************************************************************)
THEOREM TypeCorrect == Spec => []TypeOK
<1>1. Init => TypeOK
  BY DEF Init, SlotInit, TypeOK, SlotTypeOK
<1>2. TypeOK /\ [Next]_vars => TypeOK'
  <2> SUFFICES ASSUME TypeOK, [Next]_vars PROVE TypeOK'
    OBVIOUS
  <2> USE OwnerAssumption
      DEF TypeOK, SlotTypeOK, clientVars, cleanerVars, slotVars, history, GiveBack
  <2>1. ASSUME NEW e \in Execs, ClientStep(e) \/ OtherStep(e) \/ GiveUp(e) \/ Expire(e)
        PROVE  TypeOK'
    <3>1. CASE Create(e) BY <3>1 DEF Create
    <3>2. CASE Acquire(e) BY <3>2 DEF Acquire, AcquireSlot
    <3>3. CASE Deny(e) BY <3>3 DEF Deny, AcquireDenied
    <3>4. CASE Finish(e) BY <3>4 DEF Finish
    <3>5. CASE Release(e) BY <3>5 DEF Release, ReleaseSlot, DecrClamped
    <3>6. CASE GiveUp(e) BY <3>6 DEF GiveUp
    <3>7. CASE Reap(e) BY <3>7 DEF Reap
    <3>9. CASE ReapRelease(e) BY <3>9 DEF ReapRelease, ReleaseSlot, DecrClamped
    <3>10. CASE DeleteRelease(e) BY <3>10 DEF DeleteRelease, ReleaseSlot, DecrClamped
    <3>11. CASE DeleteRow(e) BY <3>11 DEF DeleteRow
    <3>12. CASE DeleteFails(e) BY <3>12 DEF DeleteFails
    <3>8. CASE Expire(e) BY <3>8 DEF Expire, ExpireSlot
    <3> QED BY <2>1, <3>1, <3>2, <3>3, <3>4, <3>5, <3>6, <3>7, <3>8, <3>9, <3>10, <3>11, <3>12
      DEF ClientStep, OtherStep
  <2>2. ASSUME NEW c \in Cleaners, CleanupStep(c) PROVE TypeOK'
    <3>1. CASE CleanupScan(c) BY <3>1 DEF CleanupScan
    <3>2. CASE CleanupQuery(c) BY <3>2 DEF CleanupQuery
    <3>3. CASE CleanupDone(c) BY <3>3 DEF CleanupDone
    <3>4. ASSUME NEW e \in Execs, CleanupGet(c, e) PROVE TypeOK'
      BY <3>4 DEF CleanupGet
    <3>5. ASSUME NEW e \in Execs, CleanupRelease(c, e) PROVE TypeOK'
      BY <3>5 DEF CleanupRelease, NextMember, ReleaseSlot, DecrClamped
    <3>6. ASSUME NEW e \in Execs, CleanupForget(c, e) PROVE TypeOK'
      BY <3>6 DEF CleanupForget, NextMember, ForgetSlot
    <3> QED BY <2>2, <3>1, <3>2, <3>3, <3>4, <3>5, <3>6 DEF CleanupStep
  <2>3. CASE UNCHANGED vars BY <2>3 DEF vars
  <2> QED BY <2>1, <2>2, <2>3 DEF Next
<1> QED BY <1>1, <1>2, PTL DEF Spec

-----------------------------------------------------------------------------
(* Bookkeeping between a client, its row and what the cleanups remember.   *)

Took == {"held", "finished", "released", "gave_up"}
Over == {"finished", "released", "gave_up"}

RowFollowsClient == \A e \in Execs :
    /\ client[e] = "new" => row[e] = "absent"
    /\ client[e] \in {"created", "denied", "held"} => row[e] = "active" \/ other[e] # "none"
    /\ client[e] \in Over => IsStale(e)

OnlyTakenIsTracked == \A e \in active : client[e] \in Took

CleanersKnow == \A c \in Cleaners :
    /\ \A e \in members[c] : client[e] \in Took /\ (at[c] # "query" => IsStale(e))
    /\ at[c] \in Execs => at[c] \in members[c]
    /\ at[c] \in Execs /\ slotData[c] = NoTeam => slot[at[c]] = NoTeam

IInv ==
    /\ TypeOK
    /\ RowFollowsClient
    /\ OnlyTakenIsTracked
    /\ CleanersKnow
    /\ WithinLimits
    /\ SlotsAreTracked

(***************************************************************************)
(* IInv is inductive.  The interesting case is the cleanup's plain SREM:   *)
(* the key it found gone cannot have come back, because only an execution  *)
(* that never took a slot can take one.                                    *)
(***************************************************************************)
LEMMA Inductive == Spec => []IInv
<1>1. Init => IInv
  BY LimitAssumption, ExecsAssumption
  DEF Init, SlotInit, IInv, TypeOK, SlotTypeOK, RowFollowsClient, OnlyTakenIsTracked,
      CleanersKnow, WithinLimits, SlotsAreTracked, IsStale, Over
<1>2. IInv /\ TypeOK' /\ [Next]_vars => IInv'
  <2> SUFFICES ASSUME IInv, TypeOK', [Next]_vars PROVE IInv'
    OBVIOUS
  <2> USE OwnerAssumption, ExecsAssumption, LimitAssumption, NoTeamAssumption
      DEF TypeOK, SlotTypeOK, clientVars, cleanerVars, slotVars, history, GiveBack, IInv,
           IsStale, Took, Over
  <2> DEFINE Rest == RowFollowsClient /\ OnlyTakenIsTracked /\ CleanersKnow
                     /\ WithinLimits /\ SlotsAreTracked
  <2> SUFFICES Rest' OBVIOUS
  <2> USE DEF Rest, RowFollowsClient, OnlyTakenIsTracked, CleanersKnow, WithinLimits,
        SlotsAreTracked
  <2>1. ASSUME NEW e \in Execs, ClientStep(e) \/ OtherStep(e) \/ GiveUp(e) \/ Expire(e) PROVE Rest'
    <3>1. CASE Create(e) BY <3>1 DEF Create
    <3>2. CASE Acquire(e) BY <3>2 DEF Acquire, AcquireSlot, HasRoom
    <3>3. CASE Deny(e) BY <3>3 DEF Deny, AcquireDenied
    <3>4. CASE Finish(e) BY <3>4 DEF Finish
    <3>5. CASE Release(e) BY <3>5 DEF Release, ReleaseSlot, DecrClamped
    <3>6. CASE GiveUp(e) BY <3>6 DEF GiveUp
    <3>7. CASE Reap(e) BY <3>7 DEF Reap
    <3>9. CASE ReapRelease(e) BY <3>9 DEF ReapRelease, ReleaseSlot, DecrClamped
    <3>10. CASE DeleteRelease(e) BY <3>10 DEF DeleteRelease, ReleaseSlot, DecrClamped
    <3>11. CASE DeleteRow(e) BY <3>11 DEF DeleteRow
    <3>12. CASE DeleteFails(e) BY <3>12 DEF DeleteFails
    <3>8. CASE Expire(e) BY <3>8 DEF Expire, ExpireSlot
    <3> QED BY <2>1, <3>1, <3>2, <3>3, <3>4, <3>5, <3>6, <3>7, <3>8, <3>9, <3>10, <3>11, <3>12
      DEF ClientStep, OtherStep
  <2>2. ASSUME NEW c \in Cleaners, CleanupStep(c) PROVE Rest'
    <3>1. CASE CleanupScan(c) BY <3>1 DEF CleanupScan
    <3>2. CASE CleanupQuery(c) BY <3>2 DEF CleanupQuery
    <3>3. CASE CleanupDone(c) BY <3>3 DEF CleanupDone
    <3>4. ASSUME NEW e \in Execs, CleanupGet(c, e) PROVE Rest'
      BY <3>4 DEF CleanupGet
    <3>5. ASSUME NEW e \in Execs, CleanupRelease(c, e) PROVE Rest'
      BY <3>5 DEF CleanupRelease, NextMember, ReleaseSlot, DecrClamped
    <3>6. ASSUME NEW e \in Execs, CleanupForget(c, e) PROVE Rest'
      BY <3>6 DEF CleanupForget, NextMember, ForgetSlot
    <3> QED BY <2>2, <3>1, <3>2, <3>3, <3>4, <3>5, <3>6 DEF CleanupStep
  <2>3. CASE UNCHANGED vars BY <2>3 DEF vars
  <2> QED BY <2>1, <2>2, <2>3 DEF Next
<1> QED BY <1>1, <1>2, TypeCorrect, PTL DEF Spec

(***************************************************************************)
(* No interleaving of acquires, releases, expiries and cleanups takes a    *)
(* counter past its limit.                                                 *)
(***************************************************************************)
THEOREM LimitsHold == Spec => []WithinLimits
<1>1. IInv => WithinLimits BY DEF IInv
<1> QED BY <1>1, Inductive, PTL

(***************************************************************************)
(* Every slot key can be found by the cleanup.                             *)
(***************************************************************************)
THEOREM SlotsStayTracked == Spec => []SlotsAreTracked
<1>1. IInv => SlotsAreTracked BY DEF IInv
<1> QED BY <1>1, Inductive, PTL

(***************************************************************************)
(* What the cleanup takes is over, however old the status is that it acts  *)
(* on; and of what still runs, it takes only what somebody else has ended. *)
(***************************************************************************)
THEOREM CleanupIsSafe == Spec => CleanupSparesTheLiving
<1> DEFINE A == \A c \in Cleaners, e \in Execs :
                   CleanupRelease(c, e) \/ CleanupForget(c, e) =>
                      IsStale(e) /\ (client[e] = "held" => other[e] # "none")
<1>1. IInv /\ [Next]_vars => [A]_vars
  <2> SUFFICES ASSUME IInv, NEW c \in Cleaners, NEW e \in Execs,
                      CleanupRelease(c, e) \/ CleanupForget(c, e)
               PROVE  IsStale(e) /\ (client[e] = "held" => other[e] # "none")
    OBVIOUS
  <2>1. at[c] = e BY DEF CleanupRelease, CleanupForget
  <2>2. IsStale(e) BY <2>1, ExecsAssumption DEF IInv, CleanersKnow
  <2> QED BY <2>2 DEF IInv, RowFollowsClient, IsStale
<1> QED BY <1>1, Inductive, PTL DEF Spec, CleanupSparesTheLiving

-----------------------------------------------------------------------------
(* Counting.                                                               *)

(***************************************************************************)
(* One more, or one less, in a finite set and in the part of it that       *)
(* belongs to a team.                                                      *)
(***************************************************************************)
Share(S, t) == {x \in S : Owner[x] = t}

\* One execution more counts one more, for its own team alone.
LEMMA ChargeOne ==
  ASSUME NEW S \in SUBSET Execs, NEW e \in Execs, e \notin S, NEW t
  PROVE  /\ Cardinality(S \cup {e}) = Cardinality(S) + 1
         /\ Cardinality(Share(S \cup {e}, t))
              = Cardinality(Share(S, t)) + (IF Owner[e] = t THEN 1 ELSE 0)
<1> DEFINE Mine == Share(S, t)
           More == Share(S \cup {e}, t)
<1>1. IsFiniteSet(S) /\ IsFiniteSet(Mine) BY ExecsAssumption, FS_Subset DEF Share
<1>2. Cardinality(Mine) \in Nat BY <1>1, FS_CardinalityType
<1>3. Cardinality(S \cup {e}) = Cardinality(S) + 1 BY <1>1, FS_AddElement
<1>4. Owner[e] = t => More = Mine \cup {e} BY DEF Share
<1>5. Owner[e] # t => More = Mine BY DEF Share
<1>6. e \notin Mine BY DEF Share
<1> HIDE DEF Mine, More
<1>7. Cardinality(Mine \cup {e}) = Cardinality(Mine) + 1 BY <1>1, <1>6, FS_AddElement
<1>8. Cardinality(More) = Cardinality(Mine) + (IF Owner[e] = t THEN 1 ELSE 0)
  BY <1>2, <1>4, <1>5, <1>7
<1> QED BY <1>3, <1>8 DEF Mine, More

\* One execution less counts one less, for its own team alone.
LEMMA DischargeOne ==
  ASSUME NEW S \in SUBSET Execs, NEW e \in S, NEW t
  PROVE  /\ Cardinality(S \ {e}) = Cardinality(S) - 1
         /\ Cardinality(Share(S \ {e}, t))
              = Cardinality(Share(S, t)) - (IF Owner[e] = t THEN 1 ELSE 0)
<1> DEFINE Mine == Share(S, t)
           Left == Share(S \ {e}, t)
<1>1. IsFiniteSet(S) /\ IsFiniteSet(Mine) BY ExecsAssumption, FS_Subset DEF Share
<1>2. Cardinality(Mine) \in Nat BY <1>1, FS_CardinalityType
<1>3. Cardinality(S \ {e}) = Cardinality(S) - 1 BY <1>1, FS_RemoveElement
<1>4. Owner[e] = t => Left = Mine \ {e} /\ e \in Mine BY DEF Share
<1>5. Owner[e] # t => Left = Mine BY DEF Share
<1> HIDE DEF Mine, Left
<1>6. e \in Mine => Cardinality(Mine \ {e}) = Cardinality(Mine) - 1 BY <1>1, FS_RemoveElement
<1>7. Cardinality(Left) = Cardinality(Mine) - (IF Owner[e] = t THEN 1 ELSE 0)
  BY <1>2, <1>4, <1>5, <1>6
<1> QED BY <1>3, <1>7 DEF Mine, Left

\* A set of executions can be counted.
LEMMA SizeIsNatural ==
  ASSUME NEW S \in SUBSET Execs
  PROVE  IsFiniteSet(S) /\ Cardinality(S) \in Nat
BY ExecsAssumption, FS_Subset, FS_CardinalityType

-----------------------------------------------------------------------------
(* What is charged, with everybody at work.                                *)

\* A slot, and what a cleanup has read of it, belongs to the execution's own team, so
\* that every release takes from the counter its acquire added to.
ChargesKnown ==
    /\ charged \subseteq {e \in Execs : client[e] \in Took}
    /\ \A e \in Execs : slot[e] \in {NoTeam, Owner[e]}
    /\ \A c \in Cleaners : at[c] \in Execs => slotData[c] \in {NoTeam, Owner[at[c]]}

Books ==
    Balanced(global, charged) /\ \A t \in Teams : Balanced(team[t], Share(charged, t))

\* A release to the owner keeps the books.
LEMMA ReleaseKeepsBooks ==
  ASSUME TypeOK, Books, NEW e \in Execs, GiveBack(Owner[e], e)
  PROVE  Books'
<1>1. /\ charged \in SUBSET Execs /\ global \in Nat /\ team \in [Teams -> Nat]
      /\ Owner[e] \in Teams /\ surplus \in Nat
  BY OwnerAssumption DEF TypeOK, SlotTypeOK
<1>2. /\ global' = DecrClamped(global) /\ charged' = charged \ {e}
      /\ \A t \in Teams : team'[t] = IF t = Owner[e] THEN DecrClamped(team[t]) ELSE team[t]
  BY <1>1 DEF GiveBack, ReleaseSlot
<1>3. Cardinality(charged) \in Nat /\ Cardinality(charged') \in Nat BY <1>1, <1>2, SizeIsNatural
<1>4. ASSUME NEW t \in Teams
      PROVE  Cardinality(Share(charged, t)) \in Nat /\ Cardinality(Share(charged', t)) \in Nat
  <2>1. Share(charged, t) \in SUBSET Execs /\ Share(charged', t) \in SUBSET Execs
    BY <1>1, <1>2 DEF Share
  <2> QED BY <2>1, SizeIsNatural
<1>5. CASE e \notin charged
  <2>1. charged' = charged /\ surplus' = surplus + 1 BY <1>2, <1>5 DEF GiveBack
  <2>2. \A n, m \in Nat : n <= m /\ m <= n + surplus =>
                            DecrClamped(n) <= m /\ m <= DecrClamped(n) + (surplus + 1)
    BY <1>1 DEF DecrClamped
  <2>3. Balanced(global, charged)' BY <1>1, <1>2, <1>3, <2>1, <2>2 DEF Books, Balanced
  <2>4. ASSUME NEW t \in Teams PROVE Balanced(team[t], Share(charged, t))'
    <3>1. /\ team[t] <= Cardinality(Share(charged, t)) /\ team[t] \in Nat
          /\ Cardinality(Share(charged, t)) <= team[t] + surplus
      BY <1>1 DEF Books, Balanced
    <3>2. /\ team'[t] <= Cardinality(Share(charged, t))
          /\ Cardinality(Share(charged, t)) <= team'[t] + (surplus + 1)
      <4>1. CASE t = Owner[e] BY <1>2, <1>4, <2>2, <3>1, <4>1
      <4>2. CASE t # Owner[e] BY <1>1, <1>2, <1>4, <3>1, <4>2
      <4> QED BY <4>1, <4>2
    <3> QED BY <2>1, <3>2 DEF Balanced
  <2> QED BY <2>3, <2>4 DEF Books
<1>6. CASE e \in charged
  <2>1. Cardinality(charged') = Cardinality(charged) - 1 BY <1>1, <1>2, <1>6, DischargeOne
  <2>2. \A t \in Teams : Cardinality(Share(charged', t)) =
                          Cardinality(Share(charged, t)) - (IF Owner[e] = t THEN 1 ELSE 0)
    <3>1. \A t \in Teams : Cardinality(Share(charged \ {e}, t)) =
                            Cardinality(Share(charged, t)) - (IF Owner[e] = t THEN 1 ELSE 0)
      BY <1>1, <1>6, DischargeOne
    <3>2. charged' = charged \ {e} BY <1>2
    <3> HIDE DEF Share
    <3> QED BY <3>1, <3>2
  <2>3. surplus' = surplus BY <1>6 DEF GiveBack
  <2>4. \A n, m \in Nat : n <= m /\ m <= n + surplus /\ m - 1 \in Nat =>
                            DecrClamped(n) <= m - 1 /\ m - 1 <= DecrClamped(n) + surplus
    BY <1>1 DEF DecrClamped
  <2>5. Balanced(global, charged)'
    BY <1>1, <1>2, <1>3, <2>1, <2>3, <2>4 DEF Books, Balanced
  <2>6. ASSUME NEW t \in Teams PROVE Balanced(team[t], Share(charged, t))'
    <3>1. /\ team[t] <= Cardinality(Share(charged, t)) /\ team[t] \in Nat
          /\ Cardinality(Share(charged, t)) <= team[t] + surplus
      BY <1>1 DEF Books, Balanced
    <3>2. CASE t = Owner[e]
      <4>1. team'[t] = DecrClamped(team[t]) BY <1>2, <3>2
      <4>2. Cardinality(Share(charged', t)) = Cardinality(Share(charged, t)) - 1 BY <2>2, <3>2
      <4>3. /\ team'[t] <= Cardinality(Share(charged', t))
            /\ Cardinality(Share(charged', t)) <= team'[t] + surplus
        BY <1>4, <2>4, <3>1, <4>1, <4>2
      <4> QED BY <2>3, <4>3 DEF Balanced
    <3>3. CASE t # Owner[e]
      <4>1. team'[t] = team[t] BY <1>2, <3>3
      <4>2. Cardinality(Share(charged', t)) = Cardinality(Share(charged, t)) BY <1>4, <2>2, <3>3
      <4> QED BY <2>3, <3>1, <4>1, <4>2 DEF Balanced
    <3> QED BY <3>2, <3>3
  <2> QED BY <2>5, <2>6 DEF Books
<1> QED BY <1>5, <1>6

\* An acquire keeps the books.
LEMMA AcquireKeepsBooks ==
  ASSUME TypeOK, ChargesKnown, Books, NEW e \in Execs, Acquire(e)
  PROVE  Books'
<1>1. /\ charged \in SUBSET Execs /\ global \in Nat /\ team \in [Teams -> Nat]
      /\ Owner[e] \in Teams /\ surplus \in Nat /\ surplus' = surplus
  BY OwnerAssumption DEF TypeOK, SlotTypeOK, Acquire
<1>2. e \notin charged BY DEF Acquire, ChargesKnown, Took
<1>3. charged' = charged \cup {e} BY DEF Acquire
<1>4. /\ global' = global + 1
      /\ \A t \in Teams : team'[t] = team[t] + (IF Owner[e] = t THEN 1 ELSE 0)
  BY <1>1 DEF Acquire, AcquireSlot
<1>5. Cardinality(charged') = Cardinality(charged) + 1 BY <1>1, <1>2, <1>3, ChargeOne
<1>6. \A t \in Teams : Cardinality(Share(charged', t)) =
                        Cardinality(Share(charged, t)) + (IF Owner[e] = t THEN 1 ELSE 0)
  <2>1. \A t \in Teams : Cardinality(Share(charged \cup {e}, t)) =
                          Cardinality(Share(charged, t)) + (IF Owner[e] = t THEN 1 ELSE 0)
    BY <1>1, <1>2, ChargeOne
  <2> QED BY <1>3, <2>1
<1>7. Cardinality(charged) \in Nat BY <1>1, SizeIsNatural
<1>8. ASSUME NEW t \in Teams PROVE Cardinality(Share(charged, t)) \in Nat
  <2>1. Share(charged, t) \in SUBSET Execs BY <1>1 DEF Share
  <2> QED BY <2>1, SizeIsNatural
<1>9. Balanced(global, charged)' BY <1>1, <1>4, <1>5, <1>7 DEF Books, Balanced
<1>10. ASSUME NEW t \in Teams PROVE Balanced(team[t], Share(charged, t))'
  BY <1>1, <1>4, <1>6, <1>8 DEF Books, Balanced
<1> QED BY <1>9, <1>10 DEF Books

\* Every counter agrees with what is charged to it, up to the surplus.
LEMMA ChargesAreKnown == Spec => [](ChargesKnown /\ Books)
<1>1. Init => ChargesKnown /\ Books
  BY FS_EmptySet, ExecsAssumption
  DEF Init, SlotInit, ChargesKnown, Books, Balanced, Share
<1>2. TypeOK /\ ChargesKnown /\ Books /\ [Next]_vars => (ChargesKnown /\ Books)'
  <2> SUFFICES ASSUME TypeOK, ChargesKnown, Books, [Next]_vars
               PROVE  ChargesKnown' /\ Books'
    OBVIOUS
  <2> USE OwnerAssumption, ExecsAssumption
      DEF clientVars, cleanerVars, slotVars, history
  <2> DEFINE Kept == UNCHANGED <<global, team, charged, surplus>>
  <2>1. ASSUME Kept PROVE Books' BY <2>1 DEF Books, Balanced, Share
  <2>2. ASSUME NEW e \in Execs, ClientStep(e) \/ OtherStep(e) \/ GiveUp(e) \/ Expire(e)
        PROVE  ChargesKnown' /\ Books'
    <3> USE DEF ChargesKnown, Took, TypeOK, SlotTypeOK
    <3>1. CASE Acquire(e)
      <4>1. Books' BY <3>1, AcquireKeepsBooks
      <4> QED BY <3>1, <4>1 DEF Acquire, AcquireSlot
    <3>2. CASE Release(e)
      <4>1. Books' BY <3>2, ReleaseKeepsBooks DEF Release
      <4> QED BY <3>2, <4>1 DEF Release, GiveBack, ReleaseSlot
    <3>3. CASE Create(e) BY <2>1, <3>3 DEF Create
    <3>4. CASE Deny(e) BY <2>1, <3>4 DEF Deny, AcquireDenied
    <3>5. CASE Finish(e) BY <2>1, <3>5 DEF Finish
    <3>6. CASE GiveUp(e) BY <2>1, <3>6 DEF GiveUp
    <3>7. CASE Reap(e) \/ DeleteRow(e) \/ DeleteFails(e)
      BY <2>1, <3>7 DEF Reap, DeleteRow, DeleteFails
    <3>9. CASE ReapRelease(e) \/ DeleteRelease(e)
      <4>1. UNCHANGED <<client, cleanerVars>> BY <3>9 DEF ReapRelease, DeleteRelease
      <4>2. CASE GiveBack(Owner[e], e)
        <5>1. Books' BY <4>2, ReleaseKeepsBooks
        <5> QED BY <4>1, <4>2, <5>1 DEF GiveBack, ReleaseSlot
      <4>3. CASE UNCHANGED <<slotVars, history>> BY <2>1, <4>1, <4>3
      <4> QED BY <3>9, <4>2, <4>3 DEF ReapRelease, DeleteRelease
    <3>8. CASE Expire(e) BY <2>1, <3>8 DEF Expire, ExpireSlot
    <3> QED BY <2>2, <3>1, <3>2, <3>3, <3>4, <3>5, <3>6, <3>7, <3>8, <3>9
      DEF ClientStep, OtherStep
  <2>3. ASSUME NEW c \in Cleaners, CleanupStep(c) PROVE ChargesKnown' /\ Books'
    <3> USE DEF ChargesKnown, TypeOK, SlotTypeOK
    <3>1. CASE CleanupScan(c) \/ CleanupQuery(c) \/ CleanupDone(c)
      BY <2>1, <3>1 DEF CleanupScan, CleanupQuery, CleanupDone
    <3>2. ASSUME NEW e \in Execs, CleanupGet(c, e) PROVE ChargesKnown' /\ Books'
      BY <2>1, <3>2 DEF CleanupGet
    <3>3. ASSUME NEW e \in Execs, CleanupRelease(c, e) PROVE ChargesKnown' /\ Books'
      <4>1. slotData[c] = Owner[e] BY <3>3 DEF CleanupRelease
      <4>2. Books' BY <3>3, <4>1, ReleaseKeepsBooks DEF CleanupRelease
      <4> QED BY <3>3, <4>1, <4>2 DEF CleanupRelease, GiveBack, NextMember, ReleaseSlot
    <3>4. ASSUME NEW e \in Execs, CleanupForget(c, e) PROVE ChargesKnown' /\ Books'
      BY <2>1, <3>4 DEF CleanupForget, NextMember, ForgetSlot
    <3> QED BY <2>3, <3>1, <3>2, <3>3, <3>4 DEF CleanupStep
  <2>4. CASE UNCHANGED vars BY <2>1, <2>4 DEF vars, ChargesKnown
  <2> QED BY <2>2, <2>3, <2>4 DEF Next
<1> QED BY <1>1, <1>2, TypeCorrect, PTL DEF Spec

(***************************************************************************)
(* With any number of cleanups, reapers and deletions at work, and keys    *)
(* that expire, the counters never charge for more than the executions     *)
(* that have a slot to return, and for fewer only on account of releases   *)
(* of what held none.                                                      *)
(***************************************************************************)
THEOREM ChargesBalance == Spec => []CountersBalance
<1>1. Books => CountersBalance BY DEF Books, CountersBalance, Share, ChargedTo
<1> QED BY <1>1, ChargesAreKnown, PTL

-----------------------------------------------------------------------------
(***************************************************************************)
(* With the clients alone the counters are exact: scheduler:global is the  *)
(* number of executions charged, scheduler:team:{t} the number of t's.     *)
(***************************************************************************)
Exact ==
    /\ global = Cardinality(charged)
    /\ \A t \in Teams : team[t] = Cardinality(Share(charged, t))

ClientInv ==
    /\ TypeOK
    /\ charged = {e \in Execs : client[e] \in {"held", "finished"}}
    /\ Exact
    /\ WithinLimits

\* While nothing crashes and nothing is cleaned, every step is one of the semaphore.
LEMMA ClientStepIsExact == ClientInv /\ [ClientNext]_vars => ClientInv' /\ [Semaphore!Next]_charged
<1> SUFFICES ASSUME ClientInv, [ClientNext]_vars PROVE ClientInv' /\ [Semaphore!Next]_charged
  OBVIOUS
<1>a. charged \in SUBSET Execs BY DEF ClientInv, TypeOK
<1>b. ASSUME NEW e \in Execs \ charged, NEW t
      PROVE  Cardinality(Share(charged \cup {e}, t)) =
                Cardinality(Share(charged, t)) + (IF Owner[e] = t THEN 1 ELSE 0)
  <2>1. e \in Execs /\ e \notin charged OBVIOUS
  <2> QED BY ONLY <1>a, <2>1, ChargeOne
<1>c. ASSUME NEW e \in charged, NEW t
      PROVE  Cardinality(Share(charged \ {e}, t)) =
                Cardinality(Share(charged, t)) - (IF Owner[e] = t THEN 1 ELSE 0)
  BY ONLY <1>a, <1>c, DischargeOne
<1> USE OwnerAssumption
    DEF TypeOK, SlotTypeOK, clientVars, cleanerVars, slotVars, history, GiveBack,
      ClientInv
<1>1. ASSUME NEW e \in Execs, Create(e) \/ Deny(e) \/ Finish(e)
      PROVE  ClientInv' /\ UNCHANGED charged
  <2>1. UNCHANGED <<slotVars, charged>>
    BY <1>1 DEF Create, Deny, AcquireDenied, Finish
  <2>2. Exact' /\ WithinLimits' BY <2>1 DEF Exact, WithinLimits
  <2>3. TypeOK' BY <1>1 DEF Create, Deny, AcquireDenied, Finish
  <2>4. charged' = {x \in Execs : client'[x] \in {"held", "finished"}}
    BY <1>1 DEF Create, Deny, AcquireDenied, Finish
  <2> QED BY <2>1, <2>2, <2>3, <2>4
<1>2. ASSUME NEW e \in Execs, Acquire(e) PROVE ClientInv' /\ Semaphore!Grant(e)
  <2>1. e \notin charged /\ charged' = charged \cup {e} BY <1>2 DEF Acquire
  <2>2. charged \in SUBSET Execs OBVIOUS
  <2>3. Exact'
    <3>1. Cardinality(charged \cup {e}) = Cardinality(charged) + 1
      BY <2>1, <2>2, ChargeOne
    <3>2. global' = Cardinality(charged')
      <4>1. global' = global + 1 BY <1>2 DEF Acquire, AcquireSlot
      <4> QED BY <2>1, <3>1, <4>1 DEF Exact
    <3>3. ASSUME NEW t \in Teams PROVE team'[t] = Cardinality(Share(charged', t))
      <4>1. Cardinality(Share(charged \cup {e}, t)) =
              Cardinality(Share(charged, t)) + (IF Owner[e] = t THEN 1 ELSE 0)
        BY <2>1, <1>b
      <4>2. team'[t] = team[t] + (IF Owner[e] = t THEN 1 ELSE 0)
        BY <1>2 DEF Acquire, AcquireSlot
      <4> QED BY <2>1, <4>1, <4>2 DEF Exact
    <3> QED BY <3>2, <3>3 DEF Exact
  <2>4. WithinLimits' BY <1>2 DEF Acquire, AcquireSlot, HasRoom, WithinLimits
  <2>5. TypeOK' BY <1>2 DEF Acquire, AcquireSlot
  <2>6. charged' = {x \in Execs : client'[x] \in {"held", "finished"}}
    BY <1>2 DEF Acquire
  <2>7. Semaphore!Grant(e)
    <3>1. global < GlobalMax /\ team[Owner[e]] < TeamMax
      BY <1>2, LimitAssumption DEF Acquire, AcquireSlot, HasRoom
    <3>2. Owner[e] \in Teams OBVIOUS
    <3>3. Cardinality(charged) < GlobalMax BY <3>1 DEF Exact
    <3>4. Cardinality(Share(charged, Owner[e])) < TeamMax BY <3>1, <3>2 DEF Exact
    <3>5. Semaphore!HoldersOf(Owner[e]) = Share(charged, Owner[e])
      BY DEF Semaphore!HoldersOf, Share
    <3>6. Cardinality(Semaphore!HoldersOf(Owner[e])) < TeamMax BY <3>4, <3>5
    <3>7. \A S : Semaphore!Cardinality(S) = Cardinality(S)
      BY DEF Semaphore!Cardinality, Cardinality
    <3> QED BY <2>1, <3>3, <3>6, <3>7 DEF Semaphore!Grant
  <2> QED BY <2>3, <2>4, <2>5, <2>6, <2>7
<1>3. ASSUME NEW e \in Execs, Release(e) PROVE ClientInv' /\ Semaphore!GiveBack(e)
  <2>1. e \in charged /\ charged' = charged \ {e} BY <1>3 DEF Release
  <2>2. charged \in SUBSET Execs OBVIOUS
  <2>3. Exact'
    <3>1. Cardinality(charged \ {e}) = Cardinality(charged) - 1
      BY <2>1, <2>2, DischargeOne
    <3>2. global' = Cardinality(charged')
      <4>1. Cardinality(charged \ {e}) \in Nat BY <2>2, SizeIsNatural
      <4>2. global' = DecrClamped(global) BY <1>3 DEF Release, ReleaseSlot
      <4> QED BY <2>1, <3>1, <4>1, <4>2 DEF DecrClamped, Exact
    <3>3. ASSUME NEW t \in Teams PROVE team'[t] = Cardinality(Share(charged', t))
      <4>1. Cardinality(Share(charged \ {e}, t)) =
              Cardinality(Share(charged, t)) - (IF Owner[e] = t THEN 1 ELSE 0)
        BY <2>1, <1>c
      <4>2. Cardinality(Share(charged \ {e}, t)) \in Nat
        <5>1. Share(charged \ {e}, t) \in SUBSET Execs BY <2>2 DEF Share
        <5> QED BY <5>1, SizeIsNatural
      <4>3. team'[t] = IF Owner[e] = t THEN DecrClamped(team[t]) ELSE team[t]
        BY <1>3 DEF Release, ReleaseSlot
      <4> QED BY <2>1, <4>1, <4>2, <4>3 DEF DecrClamped, Exact
    <3> QED BY <3>2, <3>3 DEF Exact
  <2>4. WithinLimits' BY <1>3, LimitAssumption DEF Release, ReleaseSlot, DecrClamped, WithinLimits
  <2>5. TypeOK' BY <1>3 DEF Release, ReleaseSlot, DecrClamped
  <2>6. charged' = {x \in Execs : client'[x] \in {"held", "finished"}}
    BY <1>3 DEF Release
  <2> QED BY <2>1, <2>3, <2>4, <2>5, <2>6 DEF Semaphore!GiveBack
<1>4. CASE UNCHANGED vars
  BY <1>4 DEF vars, Exact, WithinLimits
<1> QED BY <1>1, <1>2, <1>3, <1>4 DEF ClientNext, ClientStep, Semaphore!Next

\* ClientInv is inductive.
LEMMA ClientInductive == ClientSpec => []ClientInv
<1>1. Init => ClientInv
  <2> SUFFICES ASSUME Init PROVE ClientInv OBVIOUS
  <2>1. TypeOK BY DEF Init, SlotInit, TypeOK, SlotTypeOK
  <2>2. Exact
    BY FS_EmptySet DEF Init, SlotInit, Exact, Share
  <2>3. WithinLimits BY LimitAssumption DEF Init, SlotInit, WithinLimits
  <2> QED BY <2>1, <2>2, <2>3 DEF ClientInv, Init
<1> QED BY <1>1, ClientStepIsExact, PTL DEF ClientSpec

(***************************************************************************)
(* While every slot is given back once, by its holder, the scheduler is    *)
(* the semaphore it promises to be.                                        *)
(***************************************************************************)
THEOREM ClientsGetASemaphore == ClientSpec => ImplementsSemaphore
<1>1. Init => Semaphore!Init BY DEF Init, Semaphore!Init
<1>2. ClientInv /\ [ClientNext]_vars => [Semaphore!Next]_charged BY ClientStepIsExact
<1> QED BY <1>1, <1>2, ClientInductive, PTL DEF ClientSpec, ImplementsSemaphore, Semaphore!Spec

(***************************************************************************)
(* And then no team runs more executions at a time than its share.         *)
(***************************************************************************)
THEOREM ClientsShareFairly == ClientSpec => []NoTeamMonopolizes
<1>1. ClientInv => NoTeamMonopolizes
  <2> SUFFICES ASSUME ClientInv, NEW t \in Teams PROVE Cardinality(HeldBy(t)) <= TeamMax
    BY DEF NoTeamMonopolizes
  <2>1. HeldBy(t) \subseteq Share(charged, t) BY DEF ClientInv, HeldBy, Share
  <2>2. Share(charged, t) \subseteq Execs BY DEF ClientInv, Share
  <2>3. Cardinality(HeldBy(t)) <= Cardinality(Share(charged, t))
    BY <2>1, <2>2, SizeIsNatural, FS_Subset
  <2>4. Cardinality(HeldBy(t)) \in Nat /\ Cardinality(Share(charged, t)) \in Nat
    BY <2>1, <2>2, SizeIsNatural
  <2>5. Cardinality(Share(charged, t)) <= TeamMax BY DEF ClientInv, Exact, WithinLimits
  <2> QED BY <2>3, <2>4, <2>5, LimitAssumption
<1> QED BY <1>1, ClientInductive, PTL
=============================================================================
