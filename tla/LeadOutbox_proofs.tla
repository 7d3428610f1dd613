-------------------------- MODULE LeadOutbox_proofs --------------------------
(***************************************************************************)
(* Theorems about LeadOutbox, for every number of leads, batch size and    *)
(* number of attempts.                                                     *)
(***************************************************************************)
EXTENDS LeadOutbox, FiniteSetTheorems, TLAPS

(* The inductive invariant without the order of the queue. *)
Accounted == TypeOK /\ InFlight /\ Counted /\ NothingVanishes /\ GivenUpWasRetried

(* Nothing is found, on its way or given up at the start. *)
LEMMA InitAccounted ==
  Init => Accounted /\ Ordered /\ OneFails /\ IsFiniteSet(outbox)
<1> SUFFICES ASSUME Init PROVE Accounted /\ Ordered /\ OneFails /\ IsFiniteSet(outbox)
  OBVIOUS
<1> USE OutboxAssumption DEF Init
<1>1. attempts \in [Leads -> 0 .. MaxAttempts - 1] /\ failures \in [Leads -> Nat]
  OBVIOUS
<1>2. crashes \in 0 .. MaxCrashes
  OBVIOUS
<1>3. TypeOK
  BY <1>1, <1>2 DEF TypeOK, Flushers
<1>4. InFlight /\ Counted /\ NothingVanishes /\ GivenUpWasRetried /\ Ordered
        /\ OneFails
  BY DEF InFlight, Counted, NothingVanishes, GivenUpWasRetried, Ordered, OneFails
<1> QED
  BY <1>3, <1>4, FS_EmptySet DEF Accounted

(* A batch is a part of the outbox. *)
LEMMA BatchInOutbox == PendingBatch \subseteq outbox
  BY DEF PendingBatch

-----------------------------------------------------------------------------
(* Every step keeps the account of leads: what leaves the outbox was dealt *)
(* with by the cloud or is a dead letter with MaxAttempts failures.        *)
LEMMA AccountedStep == Accounted /\ [Next]_vars => Accounted'
<1> SUFFICES ASSUME Accounted, [Next]_vars PROVE Accounted'
  OBVIOUS
<1> USE OutboxAssumption
<1>0. /\ outbox \subseteq Leads /\ dead \subseteq Leads
      /\ stored \subseteq Leads /\ rejected \subseteq Leads /\ found \subseteq Leads
      /\ attempts \in [Leads -> 0 .. MaxAttempts - 1]
      /\ failures \in [Leads -> Nat]
      /\ pc \in [Flushers -> {"idle", "posting", "failing", "asleep"}]
      /\ batch \in [Flushers -> SUBSET Leads]
      /\ served \in [Flushers -> BOOLEAN]
      /\ wire \subseteq SUBSET Leads
  BY DEF Accounted, TypeOK
<1> USE DEF Accounted, InFlight, Counted, NothingVanishes, GivenUpWasRetried
<1>1. ASSUME NEW l \in Leads, Enqueue(l) PROVE Accounted'
  <2>1. TypeOK'
    BY <1>0, <1>1 DEF Enqueue, netVars, cloudVars, TypeOK
  <2>2. InFlight'
    BY <1>0, <1>1 DEF Enqueue, netVars, cloudVars
  <2>3. Counted'
    BY <1>0, <1>1 DEF Enqueue, netVars, cloudVars
  <2>4. NothingVanishes' /\ GivenUpWasRetried'
    BY <1>0, <1>1 DEF Enqueue, netVars, cloudVars
  <2> QED
    BY <2>1, <2>2, <2>3, <2>4
<1>2. ASSUME NEW f \in Flushers, Post(f) PROVE Accounted'
  <2>1. TypeOK'
    BY <1>0, <1>2, BatchInOutbox DEF Post, diskVars, cloudVars, TypeOK
  <2>2. InFlight'
    BY <1>0, <1>2, BatchInOutbox DEF Post, diskVars, cloudVars
  <2>3. Counted' /\ NothingVanishes' /\ GivenUpWasRetried'
    BY <1>2 DEF Post, diskVars, cloudVars
  <2> QED
    BY <2>1, <2>2, <2>3
<1>3. ASSUME NEW f \in Flushers, CloudSaves(f) PROVE Accounted'
  <2>1. TypeOK'
    BY <1>0, <1>3 DEF CloudSaves, Save, diskVars, TypeOK
  <2>2. InFlight'
    BY <1>0, <1>3 DEF CloudSaves, Save, diskVars
  <2>3. Counted' /\ NothingVanishes' /\ GivenUpWasRetried'
    BY <1>0, <1>3 DEF CloudSaves, Save, diskVars
  <2> QED
    BY <2>1, <2>2, <2>3
<1>4. CASE CloudSavesLate
  <2>1. PICK rows \in wire : Save(rows) /\ wire' = wire \ {rows}
    BY <1>4 DEF CloudSavesLate
  <2>2. TypeOK'
    BY <1>0, <1>4, <2>1 DEF CloudSavesLate, Save, diskVars, TypeOK
  <2>3. InFlight'
    BY <1>0, <1>4, <2>1 DEF CloudSavesLate, Save, diskVars
  <2>4. Counted' /\ NothingVanishes' /\ GivenUpWasRetried'
    BY <1>0, <1>4, <2>1 DEF CloudSavesLate, Save, diskVars
  <2> QED
    BY <2>2, <2>3, <2>4
<1>5. ASSUME NEW f \in Flushers, Ack(f) PROVE Accounted'
  <2>1. TypeOK'
    BY <1>0, <1>5 DEF Ack, cloudVars, TypeOK
  <2>2. InFlight'
    BY <1>0, <1>5 DEF Ack, cloudVars
  <2>3. Counted' /\ NothingVanishes' /\ GivenUpWasRetried'
    BY <1>0, <1>5 DEF Ack, cloudVars
  <2> QED
    BY <2>1, <2>2, <2>3
<1>6. ASSUME NEW f \in Flushers, PostFails(f) PROVE Accounted'
  <2>1. wire' \subseteq wire \cup {batch[g] : g \in Flushers}
    BY <1>6 DEF PostFails, Abandoned
  <2>2. TypeOK'
    BY <1>0, <1>6, <2>1 DEF PostFails, diskVars, cloudVars, TypeOK
  <2>3. InFlight'
    BY <1>0, <1>6, <2>1 DEF PostFails, diskVars, cloudVars
  <2>4. Counted' /\ NothingVanishes' /\ GivenUpWasRetried'
    BY <1>6 DEF PostFails, diskVars, cloudVars
  <2> QED
    BY <2>2, <2>3, <2>4
<1>7. ASSUME NEW f \in Flushers, FailRow(f) PROVE Accounted'
  <2>1. PICK l \in batch[f] :
          /\ failures' = [failures EXCEPT ![l] = @ + 1]
          /\ batch' = [batch EXCEPT ![f] = @ \ {l}]
          /\ \/ l \notin outbox /\ UNCHANGED diskVars
             \/ /\ l \in outbox /\ ~GivesUp(l)
                /\ attempts' = [attempts EXCEPT ![l] = @ + 1]
                /\ UNCHANGED <<outbox, dead>>
             \/ /\ l \in outbox /\ GivesUp(l)
                /\ dead' = dead \cup {l}
                /\ outbox' = outbox \ {l}
                /\ UNCHANGED attempts
    BY <1>7 DEF FailRow
  <2>2. l \in Leads /\ failures[l] \in Nat /\ attempts[l] \in 0 .. MaxAttempts - 1
    BY <1>0
  <2>3. failures' \in [Leads -> Nat] /\ failures'[l] = failures[l] + 1
        /\ \A m \in Leads : failures'[m] >= failures[m]
    BY <1>0, <2>1, <2>2
  <2>4. attempts' \in [Leads -> 0 .. MaxAttempts - 1]
    BY <1>0, <2>1, <2>2 DEF GivesUp, diskVars
  <2>5. TypeOK'
    BY <1>0, <1>7, <2>1, <2>2, <2>3, <2>4 DEF FailRow, cloudVars, diskVars, TypeOK
  <2>6. InFlight'
    BY <1>0, <1>7, <2>1 DEF FailRow, cloudVars
  <2>7. Counted'
    <3>1. \A m \in outbox' : attempts'[m] <= failures'[m]
      <4>1. \A m \in outbox : attempts[m] <= failures[m] /\ m \in Leads
        BY <1>0
      <4>2. outbox' \subseteq outbox
        BY <2>1 DEF diskVars
      <4>3. CASE attempts' = attempts
        BY <1>0, <2>3, <4>1, <4>2, <4>3
      <4>4. CASE l \in outbox /\ attempts' = [attempts EXCEPT ![l] = @ + 1]
        BY <1>0, <2>2, <2>3, <4>1, <4>2, <4>4
      <4> QED
        BY <2>1, <4>3, <4>4 DEF diskVars
    <3>2. outbox' \subseteq outbox /\ dead' \subseteq dead \cup {l} /\ l \in found
      BY <2>1 DEF diskVars
    <3>3. UNCHANGED <<stored, rejected, found>>
      BY <1>7 DEF FailRow, cloudVars
    <3> QED
      BY <3>1, <3>2, <3>3
  <2>8. NothingVanishes'
    BY <1>7, <2>1 DEF FailRow, cloudVars, diskVars
  <2>9. GivenUpWasRetried'
    <3>1. ASSUME GivesUp(l), l \in outbox PROVE failures'[l] >= MaxAttempts
      BY <1>0, <2>2, <2>3, <3>1 DEF GivesUp
    <3>2. \A m \in dead : failures'[m] >= MaxAttempts
      BY <1>0, <2>3
    <3> QED
      BY <2>1, <3>1, <3>2 DEF diskVars
  <2> QED
    BY <2>5, <2>6, <2>7, <2>8, <2>9
<1>8. ASSUME NEW f \in Flushers, Backoff(f) \/ Wake(f) PROVE Accounted'
  BY <1>0, <1>8 DEF Backoff, Wake, diskVars, cloudVars, TypeOK
<1>9. CASE StartDrain \/ DeadlinePasses \/ Resume
  BY <1>0, <1>9 DEF StartDrain, DeadlinePasses, Resume, diskVars, netVars, cloudVars,
                   TypeOK
<1>10. CASE Finish \/ Crash
  <2>1. wire' \subseteq wire \cup {batch[g] : g \in Flushers}
    BY <1>10 DEF Finish, Crash, Abandoned, Flushers
  <2>2. /\ \A g \in Flushers : batch'[g] = batch[g] \/ batch'[g] = {}
        /\ \A g \in Flushers : pc'[g] = "posting" => pc[g] = "posting"
        /\ batch' \in [Flushers -> SUBSET Leads]
        /\ pc' \in [Flushers -> {"idle", "posting", "failing", "asleep"}]
    BY <1>0, <1>10 DEF Finish, Crash
  <2>3. UNCHANGED <<outbox, attempts, dead, served, stored, rejected, found, failures>>
    BY <1>10 DEF Finish, Crash, diskVars, cloudVars
  <2>4. crashes' \in 0 .. MaxCrashes /\ expired' = expired
        /\ phase' \in {"crawling", "draining", "closed", "down"}
    BY <1>10 DEF Finish, Crash, TypeOK
  <2>5. TypeOK'
    BY <1>0, <2>1, <2>2, <2>3, <2>4 DEF TypeOK
  <2>6. InFlight'
    BY <1>0, <2>1, <2>2, <2>3
  <2>7. Counted' /\ NothingVanishes' /\ GivenUpWasRetried'
    BY <2>3
  <2> QED
    BY <2>5, <2>6, <2>7
<1>11. CASE UNCHANGED vars
  BY <1>0, <1>11 DEF vars, diskVars, netVars, cloudVars, TypeOK
<1> QED
  BY <1>1, <1>2, <1>3, <1>4, <1>5, <1>6, <1>7, <1>8, <1>9, <1>10, <1>11
  DEF Next, FlusherStep

-----------------------------------------------------------------------------
(* A batch is cut off the head of the queue: with a row it holds all older *)
(* rows (ORDER BY id LIMIT n).                                             *)
LEMMA BatchIsHead ==
  ASSUME outbox \subseteq Nat, IsFiniteSet(outbox),
         NEW l \in PendingBatch, NEW m \in outbox, m < l
  PROVE  m \in PendingBatch
<1> DEFINE Older(x) == {k \in outbox : k < x}
<1>1. l \in outbox /\ Cardinality(Older(l)) < BatchSize
  BY DEF PendingBatch
<1>2. Older(m) \subseteq Older(l) /\ Older(l) \subseteq outbox
  <2>1. ASSUME NEW k \in outbox, k < m PROVE k < l
    <3>1. k \in Nat /\ m \in Nat /\ l \in Nat
      BY <1>1
    <3> QED
      BY <2>1, <3>1
  <2> QED
    BY <2>1
<1>3. IsFiniteSet(Older(l))
  BY <1>2, FS_Subset
<1>4. Cardinality(Older(m)) <= Cardinality(Older(l))
  BY <1>2, <1>3, FS_Subset
<1>5. Cardinality(Older(m)) \in Nat /\ Cardinality(Older(l)) \in Nat
  BY <1>2, <1>3, FS_Subset, FS_CardinalityType
<1>6. Cardinality(Older(m)) < BatchSize
  BY <1>1, <1>4, <1>5, OutboxAssumption
<1> QED
  BY <1>6 DEF PendingBatch

(* The outbox stays finite: it grows one row at a time. *)
LEMMA FiniteStep == IsFiniteSet(outbox) /\ [Next]_vars => IsFiniteSet(outbox')
<1> SUFFICES ASSUME IsFiniteSet(outbox), [Next]_vars PROVE IsFiniteSet(outbox')
  OBVIOUS
<1>1. (\E l \in Leads : outbox' = outbox \cup {l}) \/ outbox' \subseteq outbox
  BY DEF Next, FlusherStep, Enqueue, Post, CloudSaves, CloudSavesLate, Ack, PostFails,
         FailRow, Backoff, Wake, StartDrain, DeadlinePasses, Finish, Crash, Resume,
         diskVars, vars
<1> QED
  BY <1>1, FS_AddElement, FS_Subset

(* A step that neither adds rows nor changes attempts nor the flushers'    *)
(* batches, except by emptying them, keeps the order.                      *)
LEMMA OrderedFrame ==
  ASSUME Ordered, outbox' \subseteq outbox, attempts' = attempts,
         \A f \in Flushers : batch'[f] = {} \/ (batch'[f] = batch[f] /\ pc'[f] = pc[f])
  PROVE  Ordered'
  BY DEF Ordered

(* Only one flusher at a time runs the loop over fail().                   *)
LEMMA OneFailsStep == TypeOK /\ OneFails /\ [Next]_vars => OneFails'
<1> SUFFICES ASSUME TypeOK, OneFails, [Next]_vars PROVE OneFails'
  OBVIOUS
<1>0. pc \in [Flushers -> {"idle", "posting", "failing", "asleep"}]
  BY DEF TypeOK
<1>1. CASE \A f \in Flushers : pc'[f] = "failing" => pc[f] = "failing"
  BY <1>1 DEF OneFails
<1>2. ASSUME NEW f \in Flushers, PostFails(f) PROVE OneFails'
  BY <1>0, <1>2 DEF PostFails, Turn, OneFails
<1>3. ASSUME NEW f \in Flushers, Post(f) \/ Ack(f) \/ Backoff(f) \/ Wake(f)
      PROVE  \A g \in Flushers : pc'[g] = "failing" => pc[g] = "failing"
  BY <1>0, <1>3 DEF Post, Ack, Backoff, Wake
<1>4. CASE UNCHANGED pc
  BY <1>1, <1>4
<1>5. CASE Finish \/ Crash
  BY <1>0, <1>1, <1>5 DEF Finish, Crash
<1> QED
  BY <1>1, <1>2, <1>3, <1>4, <1>5
  DEF Next, FlusherStep, Enqueue, CloudSaves, CloudSavesLate, FailRow, StartDrain,
      DeadlinePasses, Resume, netVars, vars

(* Older rows have failed at least as often as younger ones, in spite of   *)
(* two flushers, of batches partly failed at a crash and of resumptions.   *)
LEMMA OrderedStep ==
  Accounted /\ Ordered /\ OneFails /\ IsFiniteSet(outbox) /\ [Next]_vars => Ordered'
<1> SUFFICES ASSUME Accounted, Ordered, OneFails, IsFiniteSet(outbox), [Next]_vars
             PROVE  Ordered'
  OBVIOUS
<1>0. /\ outbox \subseteq Leads /\ Leads \subseteq Nat /\ found \subseteq Leads
      /\ attempts \in [Leads -> 0 .. MaxAttempts - 1]
      /\ pc \in [Flushers -> {"idle", "posting", "failing", "asleep"}]
      /\ batch \in [Flushers -> SUBSET Leads]
      /\ outbox \subseteq found
      /\ \A f \in Flushers : batch[f] \subseteq found
      /\ MaxAttempts \in Nat
  BY OutboxAssumption DEF Accounted, TypeOK, Counted, InFlight
<1>1. ASSUME NEW l \in Leads, Enqueue(l) PROVE Ordered'
  <2>1. /\ outbox' = outbox \cup {l} /\ \A m \in found : m < l
        /\ attempts' = [attempts EXCEPT ![l] = 0] /\ UNCHANGED <<pc, batch>>
    BY <1>1 DEF Enqueue, netVars
  <2>2. l \notin found
    BY <1>0, <2>1
  <2>3. \A k \in outbox : attempts'[k] = attempts[k] /\ attempts[k] \in Nat
    BY <1>0, <2>1, <2>2
  <2>4. attempts'[l] = 0
    BY <1>0, <2>1
  <2>5. \A k, m \in outbox' : m < k => attempts'[m] >= attempts'[k]
    BY <1>0, <2>1, <2>3, <2>4 DEF Ordered
  <2>6. \A f \in Flushers : \A k \in batch[f] \cap outbox', m \in outbox' \ batch[f] :
          m < k => pc[f] = "failing" /\ attempts'[m] > attempts'[k]
    BY <1>0, <2>1, <2>2, <2>3 DEF Ordered
  <2> QED
    BY <2>1, <2>5, <2>6 DEF Ordered
<1>2. ASSUME NEW f \in Flushers, Post(f) PROVE Ordered'
  <2>1. /\ batch' = [batch EXCEPT ![f] = PendingBatch]
        /\ pc' = [pc EXCEPT ![f] = "posting"]
        /\ UNCHANGED <<outbox, attempts>>
    BY <1>2 DEF Post, diskVars
  <2>2. \A l \in PendingBatch, m \in outbox \ PendingBatch : ~(m < l)
    BY <1>0, BatchIsHead
  <2> QED
    BY <1>0, <2>1, <2>2 DEF Ordered
<1>3. ASSUME NEW f \in Flushers, CloudSaves(f) \/ Ack(f) PROVE Ordered'
  <2>1. CASE CloudSaves(f)
    BY <2>1 DEF CloudSaves, diskVars, Ordered
  <2>2. CASE Ack(f)
    <3>1. /\ outbox' \subseteq outbox /\ attempts' = attempts
          /\ \A g \in Flushers : batch'[g] = {} \/ (batch'[g] = batch[g] /\ pc'[g] = pc[g])
      BY <1>0, <2>2 DEF Ack
    <3> QED
      BY <3>1, OrderedFrame
  <2> QED
    BY <1>3, <2>1, <2>2
<1>4. ASSUME NEW f \in Flushers, PostFails(f) PROVE Ordered'
  BY <1>0, <1>4 DEF PostFails, diskVars, Ordered
<1>5. ASSUME NEW f \in Flushers, FailRow(f) PROVE Ordered'
  <2>1. PICK l \in batch[f] :
          /\ \A m \in batch[f] : l <= m
          /\ batch' = [batch EXCEPT ![f] = @ \ {l}]
          /\ \/ l \notin outbox /\ UNCHANGED diskVars
             \/ /\ l \in outbox /\ ~GivesUp(l)
                /\ attempts' = [attempts EXCEPT ![l] = @ + 1]
                /\ UNCHANGED <<outbox, dead>>
             \/ /\ l \in outbox /\ GivesUp(l)
                /\ dead' = dead \cup {l}
                /\ outbox' = outbox \ {l}
                /\ UNCHANGED attempts
    BY <1>5 DEF FailRow
  <2>2. pc[f] = "failing" /\ pc' = pc /\ l \in Leads
    BY <1>0, <1>5 DEF FailRow
  <2>3. batch'[f] = batch[f] \ {l} /\ \A g \in Flushers \ {f} : batch'[g] = batch[g]
    BY <1>0, <2>1
  <2>4. CASE l \notin outbox /\ UNCHANGED diskVars
    BY <1>0, <2>2, <2>3, <2>4 DEF Ordered, diskVars
  <2>5. CASE l \in outbox /\ outbox' = outbox \ {l} /\ UNCHANGED attempts
    BY <1>0, <2>2, <2>3, <2>5 DEF Ordered
  <2>6. CASE /\ l \in outbox /\ outbox' = outbox
             /\ attempts' = [attempts EXCEPT ![l] = @ + 1]
    <3>1. attempts'[l] = attempts[l] + 1
          /\ \A k \in outbox \ {l} : attempts'[k] = attempts[k]
      BY <1>0, <2>6
    <3>2. \A k \in outbox : attempts[k] \in Nat /\ k \in Nat
      BY <1>0
    <3>3. \A m \in outbox : m < l => attempts[m] > attempts[l]
      BY <1>0, <2>1, <2>2, <2>6 DEF Ordered
    <3>4. \A k, m \in outbox : m < k => attempts'[m] >= attempts'[k]
      BY <2>6, <3>1, <3>2, <3>3 DEF Ordered
    <3>5. ASSUME NEW g \in Flushers, NEW k \in batch'[g] \cap outbox,
                 NEW m \in outbox \ batch'[g], m < k
          PROVE  pc[g] = "failing" /\ attempts'[m] > attempts'[k]
      <4>1. CASE g = f /\ m = l
        <5>1. k # l /\ attempts[l] >= attempts[k]
          BY <1>0, <2>3, <2>6, <3>5, <4>1 DEF Ordered
        <5> QED
          BY <2>2, <3>1, <3>2, <4>1, <5>1
      <4>2. CASE g = f /\ m # l
        <5>1. k \in batch[f] /\ k # l /\ m \notin batch[f]
          BY <2>3, <3>5, <4>2
        <5>2. attempts[m] > attempts[k]
          BY <3>5, <4>2, <5>1 DEF Ordered
        <5> QED
          BY <2>2, <3>1, <4>2, <5>1, <5>2
      <4>3. CASE g # f
        <5>1. k \in batch[g] /\ m \notin batch[g]
          BY <2>3, <3>5, <4>3
        <5>2. pc[g] = "failing"
          BY <3>5, <5>1 DEF Ordered
        <5>3. attempts[m] > attempts[k]
          BY <3>5, <5>1 DEF Ordered
        <5> QED
          BY <2>2, <4>3, <5>2 DEF OneFails
      <4> QED
        BY <4>1, <4>2, <4>3
    <3> QED
      BY <2>2, <2>6, <3>4, <3>5 DEF Ordered
  <2> QED
    BY <2>1, <2>4, <2>5, <2>6
<1>6. ASSUME NEW f \in Flushers, Backoff(f) \/ Wake(f) PROVE Ordered'
  BY <1>0, <1>6 DEF Backoff, Wake, diskVars, Ordered
<1>7. CASE CloudSavesLate \/ StartDrain \/ DeadlinePasses \/ Resume \/ UNCHANGED vars
  BY <1>7 DEF CloudSavesLate, StartDrain, DeadlinePasses, Resume, vars, diskVars,
              netVars, Ordered
<1>8. CASE Finish \/ Crash
  BY <1>0, <1>8 DEF Finish, Crash, diskVars, Ordered
<1> QED
  BY <1>1, <1>2, <1>3, <1>4, <1>5, <1>6, <1>7, <1>8 DEF Next, FlusherStep

-----------------------------------------------------------------------------
(* The inductive invariant as a whole. *)
Safe == Accounted /\ Ordered /\ OneFails /\ IsFiniteSet(outbox)

(* It holds in every reachable state. *)
LEMMA AlwaysSafe == Spec => []Safe
<1>1. Init => Safe
  BY InitAccounted DEF Safe
<1>2. Safe /\ [Next]_vars => Safe'
  BY AccountedStep, OrderedStep, OneFailsStep, FiniteStep DEF Safe, Accounted
<1> QED
  BY <1>1, <1>2, PTL DEF Spec

(* A row leaves the outbox only with or after all older ones.              *)
LEMMA OldestStep ==
  ASSUME Safe, [Next]_vars, NEW l \in outbox \ outbox', NEW m \in outbox \cap outbox'
  PROVE  l < m
<1>0. /\ l \in Nat /\ m \in Nat /\ l # m /\ MaxAttempts \in Nat
      /\ attempts[l] \in 0 .. MaxAttempts - 1 /\ attempts[m] \in 0 .. MaxAttempts - 1
  BY OutboxAssumption DEF Safe, Accounted, TypeOK
<1>1. ASSUME NEW f \in Flushers, l \in batch[f], m \notin batch[f], m < l
      PROVE  pc[f] = "failing" /\ attempts[m] > attempts[l]
  BY <1>1 DEF Safe, Ordered
<1>2. ASSUME NEW f \in Flushers, Ack(f) PROVE l < m
  BY <1>0, <1>1, <1>2 DEF Ack
<1>3. ASSUME NEW f \in Flushers, FailRow(f) PROVE l < m
  <2>1. /\ l \in batch[f] /\ GivesUp(l)
        /\ \A k \in batch[f] : l <= k
    BY <1>3 DEF FailRow, diskVars
  <2>2. CASE m \in batch[f]
    BY <1>0, <2>1, <2>2
  <2>3. CASE m \notin batch[f]
    BY <1>0, <1>1, <2>1, <2>3 DEF GivesUp
  <2> QED
    BY <2>2, <2>3
<1>4. outbox' # outbox
  OBVIOUS
<1> QED
  BY <1>2, <1>3, <1>4
  DEF Next, FlusherStep, Enqueue, Post, CloudSaves, CloudSavesLate, PostFails, Backoff,
      Wake, StartDrain, DeadlinePasses, Finish, Crash, Resume, diskVars, vars

(* Every step is a step of the abstract account of leads.                  *)
LEMMA MoveStep == Safe /\ [Next]_vars => [Delivery!Move]_(Delivery!vars)
<1> SUFFICES ASSUME Safe, [Next]_vars PROVE Delivery!Move
  OBVIOUS
<1>1. Accounted /\ Accounted'
  BY AccountedStep DEF Safe
<1>2. /\ found \subseteq found' /\ dead \subseteq dead' /\ dead' \subseteq dead \cup outbox
      /\ stored \cup rejected \subseteq stored' \cup rejected'
      /\ outbox' \ outbox = found' \ found
  <2>1. outbox \subseteq found /\ found \subseteq Nat
    BY <1>1, OutboxAssumption DEF Accounted, Counted, TypeOK
  <2>2. ASSUME NEW l \in Leads, Enqueue(l)
        PROVE  l \notin found /\ outbox' = outbox \cup {l} /\ found' = found \cup {l}
               /\ UNCHANGED <<dead, stored, rejected>>
    <3>1. (\A k \in found : k < l) /\ l \in Nat
      BY <2>2, OutboxAssumption DEF Enqueue
    <3>2. l \notin found
      BY <2>1, <3>1
    <3> QED
      BY <2>2, <3>2 DEF Enqueue, cloudVars
  <2>3. ASSUME NEW f \in Flushers, FailRow(f)
        PROVE  outbox' \subseteq outbox /\ UNCHANGED <<found, stored, rejected>>
               /\ dead \subseteq dead' /\ dead' \subseteq dead \cup outbox
    BY <2>3 DEF FailRow, diskVars, cloudVars
  <2>4. ASSUME NEW f \in Flushers, CloudSaves(f) \/ Ack(f)
        PROVE  /\ outbox' \subseteq outbox /\ UNCHANGED <<found, dead>>
               /\ stored \subseteq stored' /\ rejected \subseteq rejected'
    BY <2>4 DEF CloudSaves, Ack, Save, diskVars, cloudVars
  <2>5. CASE CloudSavesLate
    BY <2>5 DEF CloudSavesLate, Save, diskVars
  <2>6. CASE UNCHANGED <<outbox, dead, stored, rejected, found>>
    BY <2>6
  <2> QED
    BY <2>1, <2>2, <2>3, <2>4, <2>5, <2>6
    DEF Next, FlusherStep, Post, PostFails, Backoff, Wake, StartDrain, DeadlinePasses,
        Finish, Crash, Resume, diskVars, cloudVars, vars
<1>3. stored' \cup rejected' \subseteq found'
  BY <1>1 DEF Accounted, Counted
<1>4. outbox \ outbox' \subseteq dead' \cup (stored' \cup rejected')
  BY <1>1, <1>2 DEF Accounted, Counted, NothingVanishes
<1> QED
  BY <1>2, <1>3, <1>4 DEF Delivery!Move

-----------------------------------------------------------------------------
(* Every variable keeps its type; in particular the column attempts stays  *)
(* below MAX_ATTEMPTS although two flushers may fail the same row.         *)
THEOREM TypeCorrect == Spec => []TypeOK
  BY AlwaysSafe, PTL DEF Safe, Accounted

(* No lead leaves the outbox but to the cloud or to the dead letters       *)
(* (_flush_kind deletes only on an acknowledgement).                       *)
THEOREM NoLeadVanishes == Spec => []NothingVanishes
  BY AlwaysSafe, PTL DEF Safe, Accounted

(* Only rows that failed MAX_ATTEMPTS times become dead letters (fail).    *)
THEOREM DeadWereRetried == Spec => []GivenUpWasRetried
  BY AlwaysSafe, PTL DEF Safe, Accounted

(* The queue drains oldest-first (pending_batch with two flushers).        *)
THEOREM DrainsInOrder == Spec => OldestFirst
<1>1. Safe /\ [Next]_vars =>
        [\A l \in outbox \ outbox' : \A m \in outbox \cap outbox' : l < m]_vars
  BY OldestStep
<1> QED
  BY <1>1, AlwaysSafe, PTL DEF Spec, OldestFirst

(* The outbox with its flushers implements the account of leads.           *)
THEOREM Implementation == Spec => ImplementsDelivery
<1>1. Init => Delivery!Init
  BY DEF Init, Delivery!Init
<1> QED
  BY <1>1, MoveStep, AlwaysSafe, PTL DEF Spec, ImplementsDelivery, Delivery!Spec
=============================================================================
