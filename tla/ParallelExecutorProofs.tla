----------------------- MODULE ParallelExecutorProofs -----------------------
(***************************************************************************)
(* Schedules keep conflicting effects in order and apart, for any list of  *)
(* effects, and so ExecuteParallel computes what Execute does.  Batches    *)
(* are executed as Schedule made them (MaxBatchSize = 0): after            *)
(* OptimizeBatches none of this holds.                                     *)
(***************************************************************************)
EXTENDS ParallelExecutor, WellFoundedInduction, TLAPS

USE Zenon

Unmerged == MaxBatchSize = 0

IInv == TypeOK /\ Layered /\ Checked /\ ConflictsInOrder /\ NoLostUpdate

-----------------------------------------------------------------------------
(* Effects and conflicts *)

\* The fields of an effect are those of its kind.
LEMMA EffectFields ==
    ASSUME TypeOK, NEW i \in Nodes
    PROVE  /\ effects[i].kind \in {"transfer", "write", "read", "delete", "event"}
           /\ effects[i].kind = "transfer" =>
                /\ effects[i].from \in Accounts /\ effects[i].to \in Accounts
                /\ effects[i].amount \in 1 .. MaxAmount
           /\ effects[i].kind \in {"write", "read", "delete"} => effects[i].key \in RawKeys
  <1>1. effects[i] \in Effects
    BY SMT DEF TypeOK, Nodes
  <1>2. CASE effects[i] \in Transfers
    BY <1>2 DEF Transfers
  <1>3. CASE effects[i] \in KeyEffects
    BY <1>3 DEF KeyEffects
  <1>4. CASE effects[i] \in Events
    BY <1>4 DEF Events
  <1> QED
    BY <1>1, <1>2, <1>3, <1>4 DEF Effects

\* Conflict is symmetric.
LEMMA ConflictsSymmetric ==
    ASSUME NEW e, NEW f, Conflicts(e, f)
    PROVE  Conflicts(f, e)
  BY DEF Conflicts

\* Of two transfers without a conflict neither touches an account of the other.
LEMMA ApartTransfers ==
    ASSUME NEW e, NEW f, e.kind = "transfer", f.kind = "transfer", ~Conflicts(e, f)
    PROVE  e.from # f.from /\ e.from # f.to /\ e.to # f.from /\ e.to # f.to
  BY DEF Conflicts, WriteKeys

\* findReadyNodes never returns two effects that conflict: the later one depends on
\* the earlier one, which is not scheduled.
LEMMA ReadyIndependent ==
    ASSUME TypeOK
    PROVE  Independent(findReadyNodes)
  <1> SUFFICES ASSUME NEW i \in findReadyNodes, NEW j \in findReadyNodes, i # j,
                      Conflicts(effects[i], effects[j])
               PROVE  FALSE
    BY DEF Independent
  <1>1. i \in Nodes /\ j \in Nodes /\ i \in Nat /\ j \in Nat
    BY SMT DEF findReadyNodes, Nodes, TypeOK
  <1>2. Conflicts(effects[j], effects[i])
    BY ConflictsSymmetric
  <1>3. CASE i < j
    BY <1>1, <1>3 DEF findReadyNodes, Dependencies
  <1>4. CASE j < i
    BY <1>1, <1>2, <1>4 DEF findReadyNodes, Dependencies
  <1> QED
    BY SMT, <1>1, <1>3, <1>4

-----------------------------------------------------------------------------
(* Scheduling *)

LEMMA InitInv == Init => IInv
  <1> SUFFICES ASSUME Init PROVE IInv
    OBVIOUS
  <1>1. effects \in Seq(Effects) /\ bal \in [Accounts -> 0 .. MaxAmount]
    BY ListAssumption, AmountAssumption DEF Init
  <1>2. batches \in Seq(SUBSET Nodes) /\ Len(batches) = 0
    BY SMT DEF Init
  <1>3. TypeOK
    BY SMT, <1>1, <1>2, AmountAssumption DEF Init, TypeOK, Steps, Nodes
  <1>4. Layered
    BY SMT, <1>2 DEF Init, Layered, Independent
  <1> QED
    BY <1>3, <1>4 DEF Init, IInv, Checked, ConflictsInOrder, NoLostUpdate

\* A turn of the scheduling loop adds a layer.
LEMMA ScheduleInv ==
    ASSUME IInv, Schedule
    PROVE  IInv'
  <1> USE DEF IInv
  <1>0. UNCHANGED <<effects, running, step, got, bal, raw, start>> /\ Nodes' = Nodes
    BY DEF Schedule, storeVars, Nodes
  <1>1. CASE findReadyNodes = {}
    <2>1. UNCHANGED batches /\ phase' \in {"optimize", "stuck"} /\ phase = "schedule"
      BY <1>1 DEF Schedule
    <2>2. TypeOK'
      BY <1>0, <2>1 DEF TypeOK
    <2>3. Layered'
      BY SMT, <1>0, <2>1 DEF Layered, Independent, Dependencies, Earlier
    <2> QED
      BY <1>0, <2>2, <2>3 DEF Checked, ConflictsInOrder, NoLostUpdate
  <1>2. CASE findReadyNodes # {}
    <2>1. PICK r : r = findReadyNodes
      OBVIOUS
    <2>2. batches' = Append(batches, r) /\ UNCHANGED phase /\ phase = "schedule"
      BY <1>2, <2>1 DEF Schedule
    <2>3. r \in SUBSET Nodes /\ batches \in Seq(SUBSET Nodes)
      BY <2>1 DEF findReadyNodes, TypeOK
    <2>4. PICK k \in Nat : k = Len(batches)
      BY SMT, <2>3
    <2>5. /\ batches' \in Seq(SUBSET Nodes)
          /\ Len(batches') = k + 1
          /\ \A n \in 1 .. k : batches'[n] = batches[n]
          /\ batches'[k + 1] = r
      BY SMT, <2>2, <2>3, <2>4
    <2>6. TypeOK'
      BY <1>0, <2>2, <2>5 DEF TypeOK
    <2>7. running = {} /\ \A i \in Nodes : step[i] = "waiting"
      BY <2>2 DEF Layered
    <2>8. Independent(r)
      BY <2>1, ReadyIndependent
    <2>9. \A i \in r : \A n \in 1 .. k : i \notin batches[n]
      BY <2>1, <2>4 DEF findReadyNodes, Scheduled
    <2>10. \A i \in r : \A j \in Dependencies(i) : \E n \in 1 .. k : j \in batches[n]
      BY SMT, <2>1, <2>4 DEF findReadyNodes, Scheduled
    <2>11. \A n \in 1 .. k : Earlier(n)' = Earlier(n)
      BY SMT, <2>5 DEF Earlier
    <2>12. \A i \in r : \A j \in Dependencies(i) : j \in Earlier(k + 1)'
      BY SMT, <2>5, <2>10 DEF Earlier
    <2>13. \A n \in 1 .. (k + 1) :
              /\ Independent(batches'[n])
              /\ \A i \in batches'[n] :
                   /\ step[i] = "waiting" /\ i \notin running
                   /\ \A m \in 1 .. (k + 1) : i \in batches'[m] => m = n
                   /\ \A j \in Dependencies(i) :
                        j \in Earlier(n)' \/ j \in running \/ step[j] = "done"
      <3> SUFFICES ASSUME NEW n \in 1 .. (k + 1)
                   PROVE  /\ Independent(batches'[n])
                          /\ \A i \in batches'[n] :
                               /\ step[i] = "waiting" /\ i \notin running
                               /\ \A m \in 1 .. (k + 1) : i \in batches'[m] => m = n
                               /\ \A j \in Dependencies(i) :
                                    j \in Earlier(n)' \/ j \in running \/ step[j] = "done"
        OBVIOUS
      <3>1. CASE n = k + 1
        BY SMT, <3>1, <2>3, <2>5, <2>7, <2>8, <2>9, <2>12
      <3>2. CASE n \in 1 .. k
        BY SMT, <3>2, <2>4, <2>5, <2>7, <2>9, <2>11 DEF Layered
      <3> QED
        BY SMT, <3>1, <3>2
    <2>14. Layered'
      BY SMT, <1>0, <2>2, <2>5, <2>7, <2>13 DEF Layered, Independent, Dependencies
    <2> QED
      BY <1>0, <2>6, <2>14 DEF Checked, ConflictsInOrder, NoLostUpdate
  <1> QED
    BY <1>1, <1>2

\* OptimizeBatches with maxBatchSize 0 returns the batches it is given.
LEMMA OptimizeInv ==
    ASSUME IInv, Optimize, Unmerged
    PROVE  IInv'
  <1>1. UNCHANGED <<effects, batches, running, step, got, bal, raw, start>> /\ phase' = "execute"
    BY DEF Optimize, OptimizeBatches, Unmerged, storeVars
  <1>2. Nodes' = Nodes /\ \A n : Earlier(n)' = Earlier(n)
    BY <1>1 DEF Nodes, Earlier
  <1>3. TypeOK'
    BY <1>1, <1>2 DEF IInv, TypeOK
  <1>4. Layered'
    BY SMT, <1>1, <1>2 DEF IInv, Layered, Independent, Dependencies
  <1> QED
    BY <1>1, <1>2, <1>3, <1>4 DEF IInv, Checked, ConflictsInOrder, NoLostUpdate

-----------------------------------------------------------------------------
(* Execution *)

\* The first batch starts: all it depends on is done.
LEMMA StartBatchInv ==
    ASSUME IInv, StartBatch
    PROVE  IInv'
  <1> USE DEF IInv
  <1>0. UNCHANGED <<effects, phase, got, bal, raw, start>> /\ Nodes' = Nodes /\ phase = "execute"
    BY DEF StartBatch, storeVars, Nodes
  <1>1. batches \in Seq(SUBSET Nodes) /\ batches # <<>>
    BY DEF TypeOK, StartBatch
  <1>2. PICK k \in Nat : Len(batches) = k + 1
    <2>1. Len(batches) \in Nat /\ Len(batches) # 0
      BY SMT, <1>1
    <2>2. Len(batches) - 1 \in Nat /\ Len(batches) = (Len(batches) - 1) + 1
      BY SMT, <2>1
    <2> QED
      BY <2>2
  <1>3. /\ batches' \in Seq(SUBSET Nodes)
        /\ Len(batches') = k
        /\ \A n \in 1 .. k : batches'[n] = batches[n + 1]
    BY SMT, <1>1, <1>2 DEF StartBatch
  <1>4. PICK h : h = batches[1]
    OBVIOUS
  <1>5. h \subseteq Nodes /\ running' = h
    BY SMT, <1>1, <1>2, <1>4 DEF StartBatch
  <1>6. step' = [i \in Nodes |-> IF i \in h THEN "start" ELSE step[i]]
    BY SMT, <1>1, <1>4 DEF StartBatch
  <1>7. TypeOK'
    BY <1>0, <1>3, <1>5, <1>6 DEF TypeOK, Steps
  <1>8. \A i \in running : step[i] = "done"
    BY DEF StartBatch
  <1>9. \A i \in Nodes : step[i] \in {"waiting", "done"}
    BY <1>8 DEF Layered
  <1>10. \A i \in h : step[i] = "waiting" /\ \A n \in 1 .. k : i \notin batches[n + 1]
    <2>1. 1 \in 1 .. Len(batches)
      BY SMT, <1>2
    <2>2. \A n \in 1 .. k : n + 1 \in 1 .. Len(batches) /\ n + 1 # 1
      BY SMT, <1>2
    <2> QED
      BY <1>4, <2>1, <2>2 DEF Layered
  <1>11. \A i \in h : \A j \in Dependencies(i) : step[j] = "done"
    <2>1. 1 \in 1 .. Len(batches) /\ Earlier(1) = {}
      BY SMT, <1>2 DEF Earlier
    <2> QED
      BY <1>4, <1>8, <2>1 DEF Layered
  <1>12. \A j \in Nodes : step[j] = "done" => step'[j] = "done"
    BY <1>6, <1>10
  <1>13. \A n \in 1 .. k : \A j : j \in Earlier(n + 1) => j \in h \/ j \in Earlier(n)'
    <2> SUFFICES ASSUME NEW n \in 1 .. k, NEW j, NEW m \in 1 .. n, j \in batches[m], j \notin h
                 PROVE  j \in Earlier(n)'
      BY SMT DEF Earlier
    <2>1. m # 1
      BY <1>4
    <2>2. PICK l \in 1 .. (n - 1) : m = l + 1
      <3>1. m - 1 \in 1 .. (n - 1) /\ m = (m - 1) + 1
        BY SMT, <2>1
      <3> QED
        BY <3>1
    <2>3. l \in 1 .. k /\ batches'[l] = batches[m]
      BY SMT, <1>3, <2>2
    <2> QED
      BY <2>2, <2>3 DEF Earlier
  <1>14. Layered'
    <2>1. Independent(running')
      <3>1. 1 \in 1 .. Len(batches)
        BY SMT, <1>2
      <3> QED
        BY <1>4, <1>5, <3>1 DEF Layered
    <2>2. \A i \in Nodes \ running' : step'[i] \in {"waiting", "done"}
      BY <1>5, <1>6, <1>9
    <2>3. \A n \in 1 .. k :
             /\ Independent(batches'[n])
             /\ \A i \in batches'[n] :
                  /\ step'[i] = "waiting" /\ i \notin running'
                  /\ \A m \in 1 .. k : i \in batches'[m] => m = n
                  /\ \A j \in Dependencies(i) :
                       j \in Earlier(n)' \/ j \in running' \/ step'[j] = "done"
      <3> SUFFICES ASSUME NEW n \in 1 .. k
                   PROVE  /\ Independent(batches'[n])
                          /\ \A i \in batches'[n] :
                               /\ step'[i] = "waiting" /\ i \notin running'
                               /\ \A m \in 1 .. k : i \in batches'[m] => m = n
                               /\ \A j \in Dependencies(i) :
                                    j \in Earlier(n)' \/ j \in running' \/ step'[j] = "done"
        OBVIOUS
      <3>1. n + 1 \in 1 .. Len(batches) /\ batches'[n] = batches[n + 1]
        BY SMT, <1>2, <1>3
      <3>2. Independent(batches'[n])
        BY <3>1 DEF Layered
      <3>3. ASSUME NEW i \in batches'[n]
            PROVE  /\ step'[i] = "waiting" /\ i \notin running'
                   /\ \A m \in 1 .. k : i \in batches'[m] => m = n
        <4>1. i \in Nodes /\ i \notin h /\ step[i] = "waiting"
          BY SMT, <1>1, <1>10, <3>1, <3>3 DEF Layered
        <4>2. \A m \in 1 .. k : m + 1 \in 1 .. Len(batches) /\ batches'[m] = batches[m + 1]
          BY SMT, <1>2, <1>3
        <4>3. \A m \in 1 .. k : i \in batches[m + 1] => m + 1 = n + 1
          BY <3>1, <3>3, <4>2 DEF Layered
        <4> QED
          BY SMT, <1>5, <1>6, <4>1, <4>2, <4>3
      <3>4. ASSUME NEW i \in batches'[n], NEW j \in Dependencies(i)
            PROVE  j \in Earlier(n)' \/ j \in running' \/ step'[j] = "done"
        <4>1. j \in Nodes
          BY DEF Dependencies
        <4>2. j \in Earlier(n + 1) \/ j \in running \/ step[j] = "done"
          BY <3>1, <3>4 DEF Layered
        <4> QED
          BY <1>5, <1>8, <1>12, <1>13, <4>1, <4>2
      <3> QED
        BY <3>2, <3>3, <3>4
    <2>4. \A i : Dependencies(i)' = Dependencies(i)
      BY <1>0 DEF Dependencies
    <2> QED
      BY <1>0, <1>3, <2>1, <2>2, <2>3, <2>4 DEF Layered, Independent
  <1>15. ConflictsInOrder'
    <2> SUFFICES ASSUME NEW i \in Nodes, NEW j \in Nodes, j < i,
                        Conflicts(effects[j], effects[i]), step'[i] # "waiting"
                 PROVE  step'[j] = "done"
      BY <1>0 DEF ConflictsInOrder
    <2>1. CASE i \in h
      BY <1>11, <1>12, <2>1 DEF Dependencies
    <2>2. CASE i \notin h
      BY <1>6, <1>12, <2>2 DEF ConflictsInOrder
    <2> QED
      BY <2>1, <2>2
  <1>16. Checked' /\ NoLostUpdate'
    BY <1>0, <1>6, <1>9 DEF Checked, NoLostUpdate
  <1> QED
    BY <1>7, <1>14, <1>15, <1>16

\* A step of one goroutine leaves the layers and the order alone.
LEMMA Advance ==
    ASSUME IInv, NEW i \in running, NEW s \in Steps \ {"waiting"},
           UNCHANGED <<effects, phase, batches, running>>,
           step[i] \notin {"waiting", "done"}, step' = [step EXCEPT ![i] = s]
    PROVE  Layered' /\ ConflictsInOrder' /\ step' \in [Nodes -> Steps] /\ Nodes' = Nodes
  <1> USE DEF IInv
  <1>1. i \in Nodes /\ Nodes' = Nodes /\ step \in [Nodes -> Steps]
    BY DEF TypeOK, Nodes
  <1>2. /\ step' \in [Nodes -> Steps]
        /\ step'[i] = s
        /\ \A j \in Nodes : j # i => step'[j] = step[j]
    BY <1>1
  <1>3. \A j \in Nodes : step[j] = "done" => step'[j] = "done"
    BY <1>2
  <1>4. \A n : Earlier(n)' = Earlier(n)
    BY DEF Earlier
  <1>5. \A j : Dependencies(j)' = Dependencies(j) /\ Dependencies(j) \subseteq Nodes
    BY <1>1 DEF Dependencies
  <1>6. \A n \in 1 .. Len(batches) : batches[n] \subseteq Nodes
    BY SMT DEF TypeOK
  <1>7. Independent(running)' /\ \A n \in 1 .. Len(batches) : Independent(batches[n])'
    BY SMT DEF Layered, Independent
  <1>8. \A j \in Nodes \ running : step'[j] \in {"waiting", "done"}
    BY <1>2 DEF Layered
  <1>9. \A n \in 1 .. Len(batches) : \A j \in batches[n] :
           /\ step'[j] = "waiting" /\ j \notin running
           /\ \A m \in 1 .. Len(batches) : j \in batches[m] => m = n
           /\ \A d \in Dependencies(j) : d \in Earlier(n) \/ d \in running \/ step'[d] = "done"
    BY <1>2, <1>3, <1>5, <1>6 DEF Layered
  <1>10. phase \notin {"schedule", "stuck", "optimize"}
    BY DEF Layered
  <1>11. Layered'
    BY SMT, <1>1, <1>4, <1>5, <1>7, <1>8, <1>9, <1>10 DEF Layered
  <1>12. ConflictsInOrder'
    BY SMT, <1>1, <1>2, <1>3 DEF ConflictsInOrder
  <1> QED
    BY <1>1, <1>2, <1>11, <1>12

\* A running transfer shares no account with another transfer between its steps.
LEMMA RunningApart ==
    ASSUME IInv, NEW i \in running, effects[i].kind = "transfer",
           NEW j \in Nodes, j # i, step[j] \in {"debit", "readTo", "credit"}
    PROVE  /\ effects[j].kind = "transfer"
           /\ effects[j].from # effects[i].from /\ effects[j].from # effects[i].to
           /\ effects[j].to # effects[i].from /\ effects[j].to # effects[i].to
  <1>1. j \in running /\ effects[j].kind = "transfer"
    BY DEF IInv, Layered, Checked
  <1>2. ~Conflicts(effects[j], effects[i])
    BY <1>1 DEF IInv, Layered, Independent
  <1> QED
    BY <1>1, <1>2, ApartTransfers

LEMMA ReadInv ==
    ASSUME IInv, NEW i \in running, effects[i].kind = "transfer",
           UNCHANGED <<effects, phase, batches, running, start>>,
           ReadFrom(i, effects[i]) \/ ReadTo(i, effects[i])
    PROVE  IInv'
  <1>1. /\ i \in Nodes /\ bal \in [Accounts -> 0 .. MaxAmount]
        /\ got \in [Nodes -> 0 .. MaxAmount] /\ step \in [Nodes -> Steps]
    BY DEF IInv, TypeOK
  <1>2. /\ effects[i].from \in Accounts /\ effects[i].to \in Accounts
        /\ effects[i].amount \in 1 .. MaxAmount
    BY <1>1, EffectFields DEF IInv
  <1>3. UNCHANGED <<bal, raw>>
    BY DEF ReadFrom, ReadTo, storeVars
  <1>4. PICK s \in {"failed", "debit", "credit"}, v \in 0 .. MaxAmount :
          /\ step' = [step EXCEPT ![i] = s]
          /\ got' = [got EXCEPT ![i] = v]
          /\ s = "debit" => v = bal[effects[i].from] /\ v >= effects[i].amount
          /\ s = "credit" => v = bal[effects[i].to] /\ v <= MaxAmount - effects[i].amount
    <2>1. CASE ReadFrom(i, effects[i])
      <3>1. bal[effects[i].from] \in 0 .. MaxAmount
        BY <1>1, <1>2
      <3>2. CASE bal[effects[i].from] < effects[i].amount
        BY <2>1, <3>1, <3>2 DEF ReadFrom, Goto
      <3>3. CASE ~(bal[effects[i].from] < effects[i].amount)
        <4>1. bal[effects[i].from] >= effects[i].amount
          BY SMT, <1>2, <3>1, <3>3, AmountAssumption
        <4>2. /\ step' = [step EXCEPT ![i] = "debit"]
              /\ got' = [got EXCEPT ![i] = bal[effects[i].from]]
          BY <2>1, <3>3 DEF ReadFrom, Goto
        <4> WITNESS "debit" \in {"failed", "debit", "credit"}, bal[effects[i].from] \in 0 .. MaxAmount
        <4> QED
          BY <4>1, <4>2
      <3> QED
        BY <3>2, <3>3
    <2>2. CASE ReadTo(i, effects[i])
      <3>1. bal[effects[i].to] \in 0 .. MaxAmount
        BY <1>1, <1>2
      <3>2. CASE bal[effects[i].to] > MaxAmount - effects[i].amount
        BY <2>2, <3>1, <3>2 DEF ReadTo, Goto
      <3>3. CASE ~(bal[effects[i].to] > MaxAmount - effects[i].amount)
        <4>1. bal[effects[i].to] <= MaxAmount - effects[i].amount
          BY SMT, <1>2, <3>1, <3>3, AmountAssumption
        <4>2. /\ step' = [step EXCEPT ![i] = "credit"]
              /\ got' = [got EXCEPT ![i] = bal[effects[i].to]]
          BY <2>2, <3>3 DEF ReadTo, Goto
        <4> WITNESS "credit" \in {"failed", "debit", "credit"}, bal[effects[i].to] \in 0 .. MaxAmount
        <4> QED
          BY <4>1, <4>2
      <3> QED
        BY <3>2, <3>3
    <2> QED
      BY <2>1, <2>2
  <1>5. step[i] \notin {"waiting", "done"}
    BY DEF ReadFrom, ReadTo
  <1>6. Layered' /\ ConflictsInOrder' /\ step' \in [Nodes -> Steps] /\ Nodes' = Nodes
    BY <1>4, <1>5, Advance DEF Steps
  <1>7. TypeOK'
    BY <1>1, <1>3, <1>4, <1>6 DEF IInv, TypeOK
  <1>8. Checked' /\ NoLostUpdate'
    BY <1>1, <1>3, <1>4, <1>6 DEF IInv, Checked, NoLostUpdate
  <1> QED
    BY <1>6, <1>7, <1>8 DEF IInv

\* Storing a new balance disturbs no other goroutine: none that has read is on the
\* same account.
LEMMA StoreInv ==
    ASSUME IInv, NEW i \in running, effects[i].kind = "transfer",
           UNCHANGED <<effects, phase, batches, running, start>>,
           Debit(i, effects[i]) \/ Credit(i, effects[i])
    PROVE  IInv'
  <1>1. /\ i \in Nodes /\ bal \in [Accounts -> 0 .. MaxAmount]
        /\ got \in [Nodes -> 0 .. MaxAmount] /\ step \in [Nodes -> Steps]
    BY DEF IInv, TypeOK
  <1>2. /\ effects[i].from \in Accounts /\ effects[i].to \in Accounts
        /\ effects[i].amount \in 1 .. MaxAmount
    BY <1>1, EffectFields DEF IInv
  <1>3. UNCHANGED <<got, raw>> /\ step[i] \notin {"waiting", "done"}
    BY DEF Debit, Credit
  <1>4. PICK s \in {"readTo", "done"}, a \in {effects[i].from, effects[i].to},
             v \in 0 .. MaxAmount :
          step' = [step EXCEPT ![i] = s] /\ bal' = [bal EXCEPT ![a] = v]
    <2>1. CASE Debit(i, effects[i])
      <3>1. got[i] \in 0 .. MaxAmount /\ got[i] >= effects[i].amount
        BY <1>1, <2>1 DEF IInv, Checked, Debit
      <3>2. got[i] - effects[i].amount \in 0 .. MaxAmount
        BY SMT, <1>2, <3>1, AmountAssumption
      <3> QED
        BY <2>1, <3>2 DEF Debit, Goto
    <2>2. CASE Credit(i, effects[i])
      <3>1. got[i] \in 0 .. MaxAmount /\ got[i] <= MaxAmount - effects[i].amount
        BY <1>1, <2>2 DEF IInv, Checked, Credit
      <3>2. got[i] + effects[i].amount \in 0 .. MaxAmount
        BY SMT, <1>2, <3>1, AmountAssumption
      <3> QED
        BY <2>2, <3>2 DEF Credit, Goto
    <2> QED
      BY <2>1, <2>2
  <1>5. Layered' /\ ConflictsInOrder' /\ step' \in [Nodes -> Steps] /\ Nodes' = Nodes
    BY <1>3, <1>4, Advance DEF Steps
  <1>6. TypeOK'
    BY <1>1, <1>2, <1>3, <1>4, <1>5 DEF IInv, TypeOK
  <1>7. Checked'
    BY <1>1, <1>3, <1>4, <1>5 DEF IInv, Checked
  <1>8. NoLostUpdate'
    <2> SUFFICES ASSUME NEW j \in Nodes
                 PROVE  /\ step'[j] = "debit" => got[j] = bal'[effects[j].from]
                        /\ step'[j] = "credit" => got[j] = bal'[effects[j].to]
      BY <1>3, <1>5 DEF NoLostUpdate
    <2>1. CASE j = i
      BY <1>1, <1>4, <2>1
    <2>2. CASE j # i /\ step[j] \in {"debit", "credit"}
      <3>1. effects[j].from # a /\ effects[j].to # a
        BY <1>4, <2>2, RunningApart
      <3>2. effects[j].from \in Accounts /\ effects[j].to \in Accounts
        BY <2>2, RunningApart, EffectFields DEF IInv
      <3> QED
        BY <1>1, <1>4, <2>2, <3>1, <3>2 DEF IInv, NoLostUpdate
    <2>3. CASE j # i /\ step[j] \notin {"debit", "credit"}
      BY <1>1, <1>4, <2>3
    <2> QED
      BY <2>1, <2>2, <2>3
  <1> QED
    BY <1>5, <1>6, <1>7, <1>8 DEF IInv

LEMMA OtherInv ==
    ASSUME IInv, NEW i \in running, effects[i].kind # "transfer",
           UNCHANGED <<effects, phase, batches, running, start>>,
           \/ effects[i].kind \in {"write", "read", "delete"} /\ KeyEffect(i, effects[i])
           \/ EventEffect(i)
    PROVE  IInv'
  <1>1. i \in Nodes /\ step \in [Nodes -> Steps] /\ raw \in [RawKeys -> BOOLEAN]
    BY DEF IInv, TypeOK
  <1>2. UNCHANGED <<got, bal>> /\ step[i] \notin {"waiting", "done"}
    BY DEF KeyEffect, EventEffect, storeVars
  <1>3. PICK s \in {"failed", "done"} : step' = [step EXCEPT ![i] = s]
    BY DEF KeyEffect, EventEffect, Goto
  <1>4. raw' \in [RawKeys -> BOOLEAN]
    BY <1>1 DEF KeyEffect, EventEffect, storeVars
  <1>5. Layered' /\ ConflictsInOrder' /\ step' \in [Nodes -> Steps] /\ Nodes' = Nodes
    BY <1>2, <1>3, Advance DEF Steps
  <1>6. TypeOK'
    BY <1>2, <1>4, <1>5 DEF IInv, TypeOK
  <1>7. Checked' /\ NoLostUpdate'
    BY <1>1, <1>2, <1>3, <1>5 DEF IInv, Checked, NoLostUpdate
  <1> QED
    BY <1>5, <1>6, <1>7 DEF IInv

LEMMA ExecuteInv ==
    ASSUME IInv, NEW i \in Nodes, executeEffect(i)
    PROVE  IInv'
  <1>1. i \in running /\ UNCHANGED <<effects, phase, batches, running, start>>
    BY DEF executeEffect
  <1>2. CASE effects[i].kind = "transfer"
    BY <1>1, <1>2, ReadInv, StoreInv DEF executeEffect
  <1>3. CASE effects[i].kind # "transfer"
    BY <1>1, <1>3, OtherInv DEF executeEffect
  <1> QED
    BY <1>2, <1>3

\* Returning, and doing nothing, changes at most the phase.
LEMMA ReturnInv ==
    ASSUME IInv, Return \/ UNCHANGED vars
    PROVE  IInv'
  <1>1. /\ UNCHANGED <<effects, batches, running, step, got, bal, raw, start>>
        /\ phase' = phase \/ phase' \in {"done", "failed"}
    BY DEF Return, storeVars, vars
  <1>2. Nodes' = Nodes /\ \A n : Earlier(n)' = Earlier(n)
    BY <1>1 DEF Nodes, Earlier
  <1>3. TypeOK'
    BY <1>1, <1>2 DEF IInv, TypeOK
  <1>4. Layered'
    BY SMT, <1>1, <1>2 DEF IInv, Layered, Independent, Dependencies
  <1> QED
    BY <1>1, <1>2, <1>3, <1>4 DEF IInv, Checked, ConflictsInOrder, NoLostUpdate

-----------------------------------------------------------------------------
(* The theorems *)

\* The inductive invariant holds of every behaviour.
THEOREM ScheduleCorrect ==
    ASSUME Unmerged
    PROVE  Spec => []IInv
  <1>1. IInv /\ [Next]_vars => IInv'
    BY ScheduleInv, OptimizeInv, StartBatchInv, ExecuteInv, ReturnInv DEF Next
  <1> QED
    BY <1>1, InitInv, PTL DEF Spec

\* Every variable keeps its type: in particular no balance leaves the range of
\* uint64, whatever the goroutines of a batch do at the same time.
THEOREM TypeCorrect ==
    ASSUME Unmerged
    PROVE  Spec => []TypeOK
  <1>1. IInv => TypeOK
    BY DEF IInv
  <1> QED
    BY <1>1, ScheduleCorrect, PTL

\* Conflicting effects of a scheduled list execute one after the other, in the
\* order of the list, for any list and any interleaving of the goroutines.
THEOREM OrderKept ==
    ASSUME Unmerged
    PROVE  Spec => []ConflictsInOrder
  <1>1. IInv => ConflictsInOrder
    BY DEF IInv
  <1> QED
    BY <1>1, ScheduleCorrect, PTL

\* No transfer stores a balance computed from one that has since changed, although
\* SubAmount and AddAmount take no lock between reading and storing.
THEOREM UpdatesKept ==
    ASSUME Unmerged
    PROVE  Spec => []NoLostUpdate
  <1>1. IInv => NoLostUpdate
    BY DEF IInv
  <1> QED
    BY <1>1, ScheduleCorrect, PTL
-----------------------------------------------------------------------------
(* Execute, the reference *)

\* A set that holds 0 and, with a natural number, its successor holds them all.
LEMMA NatSetInduction ==
    ASSUME NEW S, 0 \in S, \A n \in Nat : n \in S => n + 1 \in S
    PROVE  Nat \subseteq S
  <1> SUFFICES ASSUME NEW u \in Nat, u \notin S PROVE FALSE
    OBVIOUS
  <1> DEFINE B == Nat \ S
             R == OpToRel(<, Nat)
  <1>1. IsWellFoundedOn(R, Nat)
    BY NatLessThanWellFounded
  <1>2. \A m, n \in Nat : <<m, n>> \in R <=> m < n
    BY DEF OpToRel
  <1>3. B \subseteq Nat /\ B # {}
    OBVIOUS
  <1> HIDE DEF R, B
  <1>4. PICK n \in B : \A m \in B : <<m, n>> \notin R
    BY <1>1, <1>3, WFMin
  <1>5. n \in Nat /\ n \notin S /\ n # 0
    BY DEF B
  <1>6. n - 1 \in Nat /\ n - 1 \notin B
    <2>1. n - 1 \in Nat /\ n - 1 < n
      BY SMT, <1>5
    <2>2. <<n - 1, n>> \in R
      BY <1>2, <1>5, <2>1
    <2> QED
      BY <1>4, <2>1, <2>2
  <1>7. (n - 1) + 1 \in S
    BY <1>6 DEF B
  <1> QED
    BY SMT, <1>5, <1>7

Stores == [bal : [Accounts -> 0 .. MaxAmount], raw : [RawKeys -> BOOLEAN], failed : BOOLEAN]

\* The successive stores of Execute.
Runs(A) ==
    /\ A[0] = [bal |-> start.bal, raw |-> start.raw, failed |-> FALSE]
    /\ \A k \in 0 .. Len(effects) : A[k] \in Stores
    /\ \A k \in Nodes : A[k] = Apply(A[k - 1], effects[k])

\* An effect fails, or leaves a store, and changes only the keys it writes.
LEMMA ApplyStore ==
    ASSUME NEW s \in Stores, NEW e \in Effects
    PROVE  /\ Apply(s, e) \in Stores
           /\ s.failed => Apply(s, e).failed
           /\ \A a \in Accounts : a \notin WriteKeys(e) => Apply(s, e).bal[a] = s.bal[a]
           /\ \A x \in RawKeys : x \notin WriteKeys(e) => Apply(s, e).raw[x] = s.raw[x]
  <1>1. CASE s.failed
    BY <1>1 DEF Apply
  <1>2. CASE ~s.failed /\ e \in Transfers
    <2>1. /\ e.kind = "transfer" /\ e.from \in Accounts /\ e.to \in Accounts
          /\ e.amount \in 1 .. MaxAmount
      BY <1>2 DEF Transfers
    <2>2. s.bal \in [Accounts -> 0 .. MaxAmount] /\ s.raw \in [RawKeys -> BOOLEAN]
      BY DEF Stores
    <2>3. WriteKeys(e) = {e.from, e.to}
      BY <2>1 DEF WriteKeys
    <2>4. CASE Short(s, e)
      BY <1>2, <2>1, <2>2, <2>4 DEF Apply, Stores
    <2>5. CASE ~Short(s, e)
      <3>1. PICK d : d = Debited(s, e)
        OBVIOUS
      <3>2. d \in [Accounts -> 0 .. MaxAmount] /\ \A a \in Accounts : a # e.from => d[a] = s.bal[a]
        <4>1. s.bal[e.from] - e.amount \in 0 .. MaxAmount
          BY SMT, <2>1, <2>2, <2>5, AmountAssumption DEF Short
        <4> QED
          BY <2>1, <2>2, <3>1, <4>1 DEF Debited
      <3>3. CASE Full(s, e)
        BY <1>2, <2>1, <2>2, <2>3, <2>5, <3>1, <3>2, <3>3 DEF Apply, Stores
      <3>4. CASE ~Full(s, e)
        <4>1. d[e.to] + e.amount \in 0 .. MaxAmount
          BY SMT, <2>1, <3>1, <3>2, <3>4, AmountAssumption DEF Full
        <4>2. Apply(s, e) = [bal |-> [d EXCEPT ![e.to] = d[e.to] + e.amount], raw |-> s.raw, failed |-> FALSE]
          BY <1>2, <2>1, <2>5, <3>1, <3>4 DEF Apply
        <4> QED
          BY SMT, <1>2, <2>1, <2>2, <2>3, <3>2, <4>1, <4>2 DEF Stores
      <3> QED
        BY <3>3, <3>4
    <2> QED
      BY <2>4, <2>5
  <1>3. CASE ~s.failed /\ e \in KeyEffects
    BY <1>3 DEF Apply, Stores, KeyEffects, WriteKeys
  <1>4. CASE ~s.failed /\ e \in Events
    BY <1>4 DEF Apply, Stores, Events
  <1> QED
    BY <1>1, <1>2, <1>3, <1>4 DEF Effects

\* Sequential is those stores.
LEMMA SequentialRuns ==
    ASSUME TypeOK
    PROVE  Runs(Sequential)
  <1>1. PICK n \in Nat : n = Len(effects) /\ Nodes = 1 .. n
    BY SMT DEF TypeOK, Nodes
  <1>2. PICK base \in Stores : base = [bal |-> start.bal, raw |-> start.raw, failed |-> FALSE]
    BY DEF TypeOK, Stores
  <1>3. \A k \in 1 .. n, v \in Stores : Apply(v, effects[k]) \in Stores
    <2> SUFFICES ASSUME NEW k \in 1 .. n, NEW v \in Stores PROVE Apply(v, effects[k]) \in Stores
      OBVIOUS
    <2>1. effects[k] \in Effects
      BY SMT, <1>1 DEF TypeOK
    <2> QED
      BY <2>1, ApplyStore
  <1> DEFINE Solves(f, m) ==
        /\ f \in [0 .. m -> Stores] /\ f[0] = base
        /\ \A k \in 1 .. m : f[k] = Apply(f[k - 1], effects[k])
  <1>4. PICK h : Solves(h, n)
    <2> DEFINE T == {m \in Nat : m <= n => \E f : Solves(f, m)}
    <2>1. 0 \in T
      <3>1. Solves([k \in 0 .. 0 |-> base], 0)
        BY SMT
      <3> QED
        BY <3>1
    <2>2. ASSUME NEW m \in Nat, m \in T PROVE m + 1 \in T
      <3> SUFFICES ASSUME m + 1 <= n PROVE \E f : Solves(f, m + 1)
        BY SMT
      <3>1. PICK f : Solves(f, m)
        BY SMT, <2>2
      <3>2. PICK v \in Stores : v = Apply(f[m], effects[m + 1])
        BY SMT, <1>3, <3>1
      <3>3. PICK g \in [0 .. (m + 1) -> Stores] : g = [k \in 0 .. (m + 1) |-> IF k = m + 1 THEN v ELSE f[k]]
        <4>1. \A k \in 0 .. (m + 1) : k # m + 1 => k \in 0 .. m
          BY SMT
        <4>2. f \in [0 .. m -> Stores]
          BY <3>1
        <4> HIDE DEF Solves
        <4> QED
          BY <4>1, <4>2
      <3>4. g[m + 1] = v /\ \A k \in 0 .. m : g[k] = f[k]
        BY SMT, <3>3
      <3>5. ASSUME NEW k \in 1 .. (m + 1) PROVE g[k] = Apply(g[k - 1], effects[k])
        <4>1. CASE k = m + 1
          BY SMT, <3>2, <3>4, <4>1
        <4>2. CASE k \in 1 .. m
          BY SMT, <3>1, <3>4, <4>2
        <4> QED
          BY SMT, <4>1, <4>2
      <3>6. Solves(g, m + 1)
        BY SMT, <3>1, <3>3, <3>4, <3>5
      <3> QED
        BY <3>6
    <2> HIDE DEF T, Solves
    <2>3. Nat \subseteq T
      BY <2>1, <2>2, NatSetInduction
    <2> QED
      BY SMT, <2>3 DEF T
  <1>5. \A k \in 1 .. n : k - 1 \in 0 .. n /\ h[k] = Apply(h[k - 1], effects[k])
    BY SMT, <1>4
  <1> DEFINE Body(f) == [k \in 0 .. n |-> IF k = 0 THEN base ELSE Apply(f[k - 1], effects[k])]
             S == CHOOSE f : f = Body(f)
  <1>6. h = Body(h)
    BY SMT, <1>4, <1>5
  <1>7. S = Body(S)
    BY <1>6
  <1>8. Sequential = S
    BY <1>1, <1>2 DEF Sequential
  <1> HIDE DEF S
  <1>9. S[0] = base /\ \A k \in 1 .. n : S[k] = Apply(S[k - 1], effects[k])
    BY SMT, <1>7
  <1>10. \A k \in 0 .. n : S[k] \in Stores
    <2> DEFINE T == {k \in Nat : k <= n => S[k] \in Stores}
    <2>1. 0 \in T
      BY <1>9
    <2>2. ASSUME NEW k \in Nat, k \in T PROVE k + 1 \in T
      <3> SUFFICES ASSUME k + 1 <= n PROVE S[k + 1] \in Stores
        BY SMT
      <3>1. k + 1 \in 1 .. n /\ (k + 1) - 1 = k /\ S[k] \in Stores
        BY SMT, <2>2
      <3>2. effects[k + 1] \in Effects
        BY SMT, <1>1, <3>1 DEF TypeOK
      <3>3. S[k + 1] = Apply(S[k], effects[k + 1])
        BY <1>9, <3>1
      <3> QED
        BY <3>1, <3>2, <3>3, ApplyStore
    <2> HIDE DEF T
    <2>3. Nat \subseteq T
      BY <2>1, <2>2, NatSetInduction
    <2> QED
      BY SMT, <2>3 DEF T
  <1> QED
    BY <1>1, <1>2, <1>8, <1>9, <1>10 DEF Runs

\* Once Execute has failed it has failed, and a key keeps its value until an effect writes it.
LEMMA RunsOn ==
    ASSUME TypeOK, NEW A, Runs(A), NEW i \in 0 .. Len(effects), NEW k \in i .. Len(effects), ~A[k].failed
    PROVE  /\ ~A[i].failed
           /\ \A a \in Accounts : (\A j \in (i + 1) .. k : a \notin WriteKeys(effects[j])) => A[k].bal[a] = A[i].bal[a]
           /\ \A x \in RawKeys : (\A j \in (i + 1) .. k : x \notin WriteKeys(effects[j])) => A[k].raw[x] = A[i].raw[x]
  <1>1. PICK n \in Nat : n = Len(effects) /\ Nodes = 1 .. n
    BY SMT DEF TypeOK, Nodes
  <1> DEFINE Kept(m) ==
        /\ A[i].failed => A[i + m].failed
        /\ \A a \in Accounts : (\A j \in (i + 1) .. (i + m) : a \notin WriteKeys(effects[j])) => A[i + m].bal[a] = A[i].bal[a]
        /\ \A x \in RawKeys : (\A j \in (i + 1) .. (i + m) : x \notin WriteKeys(effects[j])) => A[i + m].raw[x] = A[i].raw[x]
      S == {m \in Nat : i + m <= n => Kept(m)}
  <1>2. i \in Nat /\ 0 \in S
    <2>1. i \in Nat /\ i + 0 = i
      BY SMT, <1>1
    <2> QED
      BY <2>1
  <1>3. ASSUME NEW m \in Nat, m \in S PROVE m + 1 \in S
    <2> SUFFICES ASSUME i + (m + 1) <= n PROVE Kept(m + 1)
      BY SMT
    <2>1. PICK l \in 1 .. n : l = i + (m + 1) /\ i + m = l - 1 /\ l - 1 \in 0 .. n
      BY SMT, <1>1, <1>2
    <2>2. Kept(m)
      BY SMT, <1>2, <1>3, <2>1
    <2>3. A[l - 1] \in Stores /\ effects[l] \in Effects /\ A[l] = Apply(A[l - 1], effects[l])
      BY SMT, <1>1, <2>1 DEF Runs, TypeOK
    <2>4. /\ A[l - 1].failed => A[l].failed
          /\ \A a \in Accounts : a \notin WriteKeys(effects[l]) => A[l].bal[a] = A[l - 1].bal[a]
          /\ \A x \in RawKeys : x \notin WriteKeys(effects[l]) => A[l].raw[x] = A[l - 1].raw[x]
      BY SMT, <2>3, ApplyStore
    <2>5. (i + 1) .. (i + (m + 1)) = ((i + 1) .. (i + m)) \cup {l}
      BY SMT, <1>2, <2>1
    <2>6. \A j \in (i + 1) .. (i + m) : j \in (i + 1) .. (i + (m + 1))
      BY <2>5
    <2>7. l \in (i + 1) .. (i + (m + 1))
      BY <2>5
    <2>8. A[i].failed => A[i + (m + 1)].failed
      BY <2>1, <2>2, <2>4
    <2>9. ASSUME NEW a \in Accounts, \A j \in (i + 1) .. (i + (m + 1)) : a \notin WriteKeys(effects[j])
          PROVE  A[i + (m + 1)].bal[a] = A[i].bal[a]
      <3>1. A[i + m].bal[a] = A[i].bal[a]
        BY <2>2, <2>6, <2>9
      <3>2. A[l].bal[a] = A[l - 1].bal[a]
        BY <2>4, <2>7, <2>9
      <3> QED
        BY <2>1, <3>1, <3>2
    <2>10. ASSUME NEW x \in RawKeys, \A j \in (i + 1) .. (i + (m + 1)) : x \notin WriteKeys(effects[j])
           PROVE  A[i + (m + 1)].raw[x] = A[i].raw[x]
      <3>1. A[i + m].raw[x] = A[i].raw[x]
        BY <2>2, <2>6, <2>10
      <3>2. A[l].raw[x] = A[l - 1].raw[x]
        BY <2>4, <2>7, <2>10
      <3> QED
        BY <2>1, <3>1, <3>2
    <2> QED
      BY <2>8, <2>9, <2>10
  <1> HIDE DEF S
  <1>4. Nat \subseteq S
    BY <1>2, <1>3, NatSetInduction
  <1>5. k - i \in Nat /\ i + (k - i) = k /\ k <= n
    BY SMT, <1>1, <1>2
  <1>6. Kept(k - i)
    BY <1>4, <1>5 DEF S
  <1> QED
    BY <1>5, <1>6
-----------------------------------------------------------------------------
(* ParallelIsSequential *)

\* An effect that is about to read or write a key finds there what the effects before it in
\* the list have left: the earlier writers are done and the later ones wait.
LEMMA Sees ==
    ASSUME IInv, NEW A, Serial(A), NEW i \in Nodes, step[i] \in {"start", "debit"}, ~A[i - 1].failed,
           NEW x \in WriteKeys(effects[i]) \cup ReadKeys(effects[i])
    PROVE  /\ x \in Accounts => bal[x] = A[i - 1].bal[x]
           /\ x \in RawKeys => raw[x] = A[i - 1].raw[x]
  <1>1. i - 1 \in 0 .. Len(effects) /\ i \in Nat
    BY SMT DEF IInv, TypeOK, Nodes
  <1>2. ASSUME NEW j \in Nodes, x \in WriteKeys(effects[j])
        PROVE  step[j] \in (IF j <= i - 1 THEN {"done"} ELSE {"waiting", "start", "debit"})
    <2>1. j \in Nat
      BY SMT DEF IInv, TypeOK, Nodes
    <2>2. Conflicts(effects[j], effects[i]) /\ Conflicts(effects[i], effects[j])
      BY <1>2 DEF Conflicts
    <2>3. CASE j < i
      BY SMT, <1>1, <2>1, <2>2, <2>3 DEF IInv, ConflictsInOrder
    <2>4. CASE j = i
      BY SMT, <1>1, <2>4
    <2>5. CASE j > i
      BY SMT, <1>1, <2>1, <2>2, <2>5 DEF IInv, ConflictsInOrder
    <2> QED
      BY SMT, <1>1, <2>1, <2>3, <2>4, <2>5
  <1>3. WrittenUpTo(x, i - 1)
    BY <1>2 DEF WrittenUpTo
  <1> QED
    BY <1>1, <1>3 DEF Serial

\* The step of a goroutine to s does what the effect does in the list.
Advances(A, i, s) ==
    /\ s \in {"readTo", "credit"} =>
         /\ ~Short(A[i - 1], effects[i])
         /\ \A a \in WriteKeys(effects[i]) : bal'[a] = Debited(A[i - 1], effects[i])[a]
    /\ s = "done" =>
         /\ ~A[i].failed
         /\ \A a \in Accounts \cap WriteKeys(effects[i]) : bal'[a] = A[i].bal[a]
         /\ \A x \in RawKeys \cap WriteKeys(effects[i]) : raw'[x] = A[i].raw[x]
    /\ s = "failed" => A[i].failed

\* Such a step keeps the values in order: the effects it runs beside touch other keys.
LEMMA SerialStep ==
    ASSUME IInv, NEW A, Runs(A), Serial(A), NEW i \in running, NEW s \in Steps \ {"waiting", "start"},
           step[i] \notin {"waiting", "done"}, UNCHANGED <<effects, start>>,
           step' = [step EXCEPT ![i] = s],
           \A a \in Accounts : a \notin WriteKeys(effects[i]) => bal'[a] = bal[a],
           \A x \in RawKeys : x \notin WriteKeys(effects[i]) => raw'[x] = raw[x],
           s = "debit" => step[i] = "start" /\ UNCHANGED <<bal, raw>>,
           ~A[i - 1].failed => Advances(A, i, s)
    PROVE  Serial(A)'
  <1>1. PICK n \in Nat : n = Len(effects) /\ Nodes = 1 .. n /\ Nodes' = 1 .. n
    BY SMT DEF IInv, TypeOK, Nodes
  <1>2. i \in 1 .. n /\ i \in Nat /\ i - 1 \in 0 .. n
    BY SMT, <1>1 DEF IInv, TypeOK
  <1>3. step'[i] = s /\ \A j \in 1 .. n : j # i => step'[j] = step[j]
    BY <1>1, <1>2 DEF IInv, TypeOK
  <1>4. ASSUME NEW x, NEW k \in 0 .. n, WrittenUpTo(x, k)'
        PROVE  /\ x \notin WriteKeys(effects[i]) \/ s = "debit" => WrittenUpTo(x, k)
               /\ x \in WriteKeys(effects[i]) => s \in {"debit", "done"}
               /\ x \in WriteKeys(effects[i]) /\ s = "done" =>
                    i <= k /\ \A j \in (i + 1) .. k : x \notin WriteKeys(effects[j])
    <2>1. \A j \in 1 .. n : x \in WriteKeys(effects[j]) =>
             step'[j] \in (IF j <= k THEN {"done"} ELSE {"waiting", "start", "debit"})
      BY <1>1, <1>4 DEF WrittenUpTo
    <2>2. ASSUME x \notin WriteKeys(effects[i]) \/ s = "debit"
          PROVE  WrittenUpTo(x, k)
      <3>1. ASSUME NEW j \in 1 .. n, x \in WriteKeys(effects[j])
            PROVE  step[j] \in (IF j <= k THEN {"done"} ELSE {"waiting", "start", "debit"})
        <4>1. CASE j # i
          BY <1>3, <2>1, <3>1, <4>1
        <4>2. CASE j = i
          BY SMT, <1>3, <2>1, <2>2, <3>1, <4>2
        <4> QED
          BY <4>1, <4>2
      <3> QED
        BY <1>1, <3>1 DEF WrittenUpTo
    <2>3. x \in WriteKeys(effects[i]) => s \in {"debit", "done"}
      BY SMT, <1>2, <1>3, <2>1
    <2>4. ASSUME x \in WriteKeys(effects[i]), s = "done"
          PROVE  i <= k /\ \A j \in (i + 1) .. k : x \notin WriteKeys(effects[j])
      <3>1. i <= k
        BY SMT, <1>2, <1>3, <2>1, <2>4
      <3>2. ASSUME NEW j \in (i + 1) .. k, x \in WriteKeys(effects[j])
            PROVE  FALSE
        <4>1. j \in 1 .. n /\ i < j /\ j <= k
          BY SMT, <1>2
        <4>2. step[j] = "done"
          BY SMT, <1>3, <2>1, <3>2, <4>1
        <4>3. Conflicts(effects[i], effects[j])
          BY <2>4, <3>2 DEF Conflicts
        <4> QED
          BY <1>1, <1>2, <4>1, <4>2, <4>3 DEF IInv, ConflictsInOrder
      <3> QED
        BY <3>1, <3>2
    <2> QED
      BY <2>2, <2>3, <2>4
  <1>5. ASSUME NEW k \in 0 .. n, ~A[k].failed, i <= k, s = "done"
        PROVE  /\ Advances(A, i, s)
               /\ \A a \in Accounts : (\A j \in (i + 1) .. k : a \notin WriteKeys(effects[j])) => A[k].bal[a] = A[i].bal[a]
               /\ \A x \in RawKeys : (\A j \in (i + 1) .. k : x \notin WriteKeys(effects[j])) => A[k].raw[x] = A[i].raw[x]
    <2>1. i \in 0 .. Len(effects) /\ k \in i .. Len(effects) /\ i - 1 \in 0 .. Len(effects) /\ k \in (i - 1) .. Len(effects)
      BY SMT, <1>1, <1>2, <1>5
    <2>2. TypeOK
      BY DEF IInv
    <2>3. ~A[i - 1].failed
      BY <1>5, <2>1, <2>2, RunsOn
    <2> QED
      BY SMT, <1>5, <2>1, <2>2, <2>3, RunsOn
  <1>6. ASSUME NEW k \in 0 .. n, ~A[k].failed
        PROVE  /\ \A a \in Accounts : WrittenUpTo(a, k)' => bal'[a] = A[k].bal[a]
               /\ \A x \in RawKeys : WrittenUpTo(x, k)' => raw'[x] = A[k].raw[x]
    <2>1. /\ \A a \in Accounts : WrittenUpTo(a, k) => bal[a] = A[k].bal[a]
          /\ \A x \in RawKeys : WrittenUpTo(x, k) => raw[x] = A[k].raw[x]
      BY <1>1, <1>6 DEF Serial
    <2>2. ASSUME NEW a \in Accounts, WrittenUpTo(a, k)' PROVE bal'[a] = A[k].bal[a]
      <3>1. CASE a \notin WriteKeys(effects[i])
        BY <1>4, <2>1, <2>2, <3>1
      <3>2. CASE s = "debit"
        BY <1>4, <2>1, <2>2, <3>2
      <3>3. CASE a \in WriteKeys(effects[i]) /\ s = "done"
        <4>1. i <= k /\ \A j \in (i + 1) .. k : a \notin WriteKeys(effects[j])
          BY <1>4, <2>2, <3>3
        <4>2. A[k].bal[a] = A[i].bal[a] /\ Advances(A, i, s)
          BY <1>5, <1>6, <3>3, <4>1
        <4> QED
          BY <3>3, <4>2 DEF Advances
      <3> QED
        BY <1>4, <2>2, <3>1, <3>2, <3>3
    <2>3. ASSUME NEW x \in RawKeys, WrittenUpTo(x, k)' PROVE raw'[x] = A[k].raw[x]
      <3>1. CASE x \notin WriteKeys(effects[i])
        BY <1>4, <2>1, <2>3, <3>1
      <3>2. CASE s = "debit"
        BY <1>4, <2>1, <2>3, <3>2
      <3>3. CASE x \in WriteKeys(effects[i]) /\ s = "done"
        <4>1. i <= k /\ \A j \in (i + 1) .. k : x \notin WriteKeys(effects[j])
          BY <1>4, <2>3, <3>3
        <4>2. A[k].raw[x] = A[i].raw[x] /\ Advances(A, i, s)
          BY <1>5, <1>6, <3>3, <4>1
        <4> QED
          BY <3>3, <4>2 DEF Advances
      <3> QED
        BY <1>4, <2>3, <3>1, <3>2, <3>3
    <2> QED
      BY <2>2, <2>3
  <1>7. ASSUME NEW j \in 1 .. n, ~A[j - 1].failed
        PROVE  /\ step'[j] \in {"readTo", "credit"} =>
                    /\ ~Short(A[j - 1], effects[j])
                    /\ \A a \in WriteKeys(effects[j]) : bal'[a] = Debited(A[j - 1], effects[j])[a]
               /\ step'[j] = "done" => ~A[j].failed
               /\ step'[j] = "failed" => A[j].failed
    <2>1. CASE j = i
      BY <1>3, <1>7, <2>1 DEF Advances
    <2>2. CASE j # i
      <3>1. step'[j] = step[j]
        BY <1>3, <2>2
      <3>2. ASSUME step[j] \in {"readTo", "credit"}, NEW a \in WriteKeys(effects[j])
            PROVE  bal'[a] = bal[a]
        <4>1. j \in running /\ effects[j].kind = "transfer"
          BY <1>1, <3>2 DEF IInv, Layered, Checked
        <4>2. ~Conflicts(effects[j], effects[i])
          BY <2>2, <4>1 DEF IInv, Layered, Independent
        <4>3. a \notin WriteKeys(effects[i])
          BY <3>2, <4>2 DEF Conflicts
        <4>4. a \in Accounts
          BY <1>1, <3>2, <4>1, EffectFields DEF WriteKeys, IInv
        <4> QED
          BY <4>3, <4>4
      <3>3. /\ step[j] \in {"readTo", "credit"} =>
                    /\ ~Short(A[j - 1], effects[j])
                    /\ \A a \in WriteKeys(effects[j]) : bal[a] = Debited(A[j - 1], effects[j])[a]
            /\ step[j] = "done" => ~A[j].failed
            /\ step[j] = "failed" => A[j].failed
        BY <1>1, <1>7 DEF Serial
      <3> QED
        BY <3>1, <3>2, <3>3
    <2> QED
      BY <2>1, <2>2
  <1> QED
    BY SMT, <1>1, <1>6, <1>7 DEF Serial
\* The four steps of a transfer read, check and store what SubAmount and AddAmount do in the list.
LEMMA TransferSerial ==
    ASSUME IInv, NEW A, Runs(A), Serial(A), NEW i \in running, effects[i].kind = "transfer",
           UNCHANGED <<effects, start>>,
           ReadFrom(i, effects[i]) \/ Debit(i, effects[i]) \/ ReadTo(i, effects[i]) \/ Credit(i, effects[i])
    PROVE  Serial(A)'
  <1>1. PICK e : e = effects[i]
    OBVIOUS
  <1>2. i \in Nodes /\ i - 1 \in 0 .. Len(effects)
    BY SMT DEF IInv, TypeOK, Nodes
  <1>3. PICK p \in Stores : p = A[i - 1] /\ A[i] = Apply(p, e)
    BY <1>1, <1>2 DEF Runs
  <1>4. /\ e.kind = "transfer" /\ e.from \in Accounts /\ e.to \in Accounts
        /\ e.amount \in 1 .. MaxAmount /\ WriteKeys(e) = {e.from, e.to}
    BY <1>1, <1>2, EffectFields DEF IInv, WriteKeys
  <1>5. bal \in [Accounts -> 0 .. MaxAmount] /\ p.bal \in [Accounts -> 0 .. MaxAmount]
    BY DEF IInv, TypeOK, Stores
  <1>6. /\ e.from \notin RawKeys /\ e.to \notin RawKeys
        /\ bal[e.from] \in 0 .. MaxAmount /\ bal[e.to] \in 0 .. MaxAmount
        /\ p.bal[e.from] \in 0 .. MaxAmount /\ p.bal[e.to] \in 0 .. MaxAmount
    BY <1>4, <1>5, KeyAssumption
  <1>7. ~p.failed =>
          /\ A[i].failed <=> Short(p, e) \/ Full(p, e)
          /\ ~Short(p, e) /\ ~Full(p, e) => A[i].bal = [Debited(p, e) EXCEPT ![e.to] = @ + e.amount]
    BY SMT, <1>3, <1>4 DEF Apply
  <1>8. /\ Debited(p, e) \in [Accounts -> Int]
        /\ Debited(p, e)[e.from] = p.bal[e.from] - e.amount
        /\ e.to # e.from => Debited(p, e)[e.to] = p.bal[e.to]
    BY SMT, <1>4, <1>5, AmountAssumption DEF Debited
  <1>9. ~p.failed /\ step[i] \in {"start", "debit"} =>
          bal[e.from] = p.bal[e.from] /\ bal[e.to] = p.bal[e.to]
    BY SMT, <1>1, <1>2, <1>3, <1>4, Sees
  <1>10. ~p.failed /\ step[i] \in {"readTo", "credit"} =>
           /\ ~Short(p, e)
           /\ bal[e.from] = Debited(p, e)[e.from] /\ bal[e.to] = Debited(p, e)[e.to]
    BY <1>1, <1>2, <1>3, <1>4 DEF Serial
  <1>11. UNCHANGED raw
    BY DEF ReadFrom, Debit, ReadTo, Credit, storeVars
  <1>12. CASE ReadFrom(i, e)
    <2>1. PICK s \in {"failed", "debit"} : step' = [step EXCEPT ![i] = s] /\ (s = "failed" <=> bal[e.from] < e.amount)
      BY <1>12 DEF ReadFrom, Goto
    <2>2. step[i] = "start" /\ UNCHANGED <<bal, raw>>
      BY <1>12 DEF ReadFrom, storeVars
    <2>3. ~p.failed /\ s = "failed" => Short(p, e)
      BY <1>9, <2>1, <2>2 DEF Short
    <2>4. ~A[i - 1].failed => Advances(A, i, s)
      BY <1>3, <1>7, <2>1, <2>3 DEF Advances
    <2>5. s \in Steps \ {"waiting", "start"} /\ step[i] \notin {"waiting", "done"}
      BY <2>1, <2>2 DEF Steps
    <2> QED
      BY <2>1, <2>2, <2>4, <2>5, SerialStep
  <1>13. CASE Debit(i, e)
    <2>1. /\ step[i] = "debit" /\ step' = [step EXCEPT ![i] = "readTo"]
          /\ bal' = [bal EXCEPT ![e.from] = got[i] - e.amount]
      BY <1>13 DEF Debit, Goto
    <2>2. got[i] = bal[e.from] /\ got[i] >= e.amount
      BY <1>1, <1>2, <2>1 DEF IInv, NoLostUpdate, Checked
    <2>3. /\ \A a \in Accounts : a # e.from => bal'[a] = bal[a]
          /\ bal'[e.from] = bal[e.from] - e.amount
      BY <1>4, <1>5, <2>1, <2>2
    <2>4. ~p.failed => ~Short(p, e)
      BY SMT, <1>4, <1>6, <1>9, <2>1, <2>2 DEF Short
    <2>5. ~p.failed => bal'[e.from] = Debited(p, e)[e.from] /\ bal'[e.to] = Debited(p, e)[e.to]
      BY <1>4, <1>8, <1>9, <2>1, <2>3
    <2>6. ~A[i - 1].failed => Advances(A, i, "readTo")
      BY <1>1, <1>3, <1>4, <2>4, <2>5 DEF Advances
    <2>7. /\ \A a \in Accounts : a \notin WriteKeys(effects[i]) => bal'[a] = bal[a]
          /\ \A x \in RawKeys : x \notin WriteKeys(effects[i]) => raw'[x] = raw[x]
      BY <1>1, <1>4, <1>11, <2>3
    <2>8. PICK s \in Steps \ {"waiting", "start"} : s = "readTo"
      BY DEF Steps
    <2> QED
      BY <2>1, <2>6, <2>7, <2>8, SerialStep
  <1>14. CASE ReadTo(i, e)
    <2>1. PICK s \in {"failed", "credit"} : step' = [step EXCEPT ![i] = s] /\ (s = "failed" <=> bal[e.to] > MaxAmount - e.amount)
      BY <1>14 DEF ReadTo, Goto
    <2>2. step[i] = "readTo" /\ UNCHANGED <<bal, raw>>
      BY <1>14 DEF ReadTo, storeVars
    <2>3. ~p.failed /\ s = "failed" => Full(p, e)
      BY <1>10, <2>1, <2>2 DEF Full
    <2>4. ~A[i - 1].failed => Advances(A, i, s)
      BY <1>1, <1>3, <1>4, <1>7, <1>10, <2>1, <2>2, <2>3 DEF Advances
    <2>5. s \in Steps \ {"waiting", "start"} /\ step[i] \notin {"waiting", "done"} /\ s # "debit"
      BY <2>1, <2>2 DEF Steps
    <2> QED
      BY <2>1, <2>2, <2>4, <2>5, SerialStep
  <1>15. CASE Credit(i, e)
    <2>1. /\ step[i] = "credit" /\ step' = [step EXCEPT ![i] = "done"]
          /\ bal' = [bal EXCEPT ![e.to] = got[i] + e.amount]
      BY <1>15 DEF Credit, Goto
    <2>2. got[i] = bal[e.to] /\ got[i] <= MaxAmount - e.amount
      BY <1>1, <1>2, <2>1 DEF IInv, NoLostUpdate, Checked
    <2>3. /\ \A a \in Accounts : a # e.to => bal'[a] = bal[a]
          /\ bal'[e.to] = bal[e.to] + e.amount
      BY <1>4, <1>5, <2>1, <2>2
    <2>4. ~p.failed => ~Short(p, e) /\ ~Full(p, e)
      BY SMT, <1>4, <1>6, <1>10, <2>1, <2>2, AmountAssumption DEF Full
    <2>5. ~p.failed => bal'[e.from] = A[i].bal[e.from] /\ bal'[e.to] = A[i].bal[e.to]
      <3> SUFFICES ASSUME ~p.failed PROVE bal'[e.from] = A[i].bal[e.from] /\ bal'[e.to] = A[i].bal[e.to]
        OBVIOUS
      <3> DEFINE d == Debited(p, e)
      <3>1. d \in [Accounts -> Int] /\ A[i].bal = [d EXCEPT ![e.to] = @ + e.amount]
        BY <1>7, <1>8, <2>4
      <3>2. bal[e.from] = d[e.from] /\ bal[e.to] = d[e.to]
        BY <1>10, <2>1
      <3> HIDE DEF d
      <3>3. A[i].bal[e.to] = d[e.to] + e.amount /\ (e.from # e.to => A[i].bal[e.from] = d[e.from])
        BY <1>4, <3>1
      <3> QED
        BY <1>4, <2>3, <3>2, <3>3
    <2>6. ~A[i - 1].failed => Advances(A, i, "done")
      BY <1>1, <1>3, <1>4, <1>6, <1>7, <2>4, <2>5 DEF Advances
    <2>7. /\ \A a \in Accounts : a \notin WriteKeys(effects[i]) => bal'[a] = bal[a]
          /\ \A x \in RawKeys : x \notin WriteKeys(effects[i]) => raw'[x] = raw[x]
      BY <1>1, <1>4, <1>11, <2>3
    <2>8. PICK s \in Steps \ {"waiting", "start"} : s = "done"
      BY DEF Steps
    <2> QED
      BY <2>1, <2>6, <2>7, <2>8, SerialStep
  <1> QED
    BY <1>1, <1>12, <1>13, <1>14, <1>15

\* The other effects are one call of the store.
LEMMA OtherSerial ==
    ASSUME IInv, NEW A, Runs(A), Serial(A), NEW i \in running, effects[i].kind # "transfer",
           UNCHANGED <<effects, start>>,
           \/ effects[i].kind \in {"write", "read", "delete"} /\ KeyEffect(i, effects[i])
           \/ effects[i].kind = "event" /\ EventEffect(i)
    PROVE  Serial(A)'
  <1>1. PICK e : e = effects[i]
    OBVIOUS
  <1>2. i \in Nodes /\ i - 1 \in 0 .. Len(effects)
    BY SMT DEF IInv, TypeOK, Nodes
  <1>3. PICK p \in Stores : p = A[i - 1] /\ A[i] = Apply(p, e)
    BY <1>1, <1>2 DEF Runs
  <1>4. /\ step[i] = "start" /\ UNCHANGED bal
        /\ raw \in [RawKeys -> BOOLEAN] /\ p.raw \in [RawKeys -> BOOLEAN]
    BY DEF KeyEffect, EventEffect, storeVars, IInv, TypeOK, Stores
  <1>5. PICK s \in Steps \ {"waiting", "start"} :
          /\ step' = [step EXCEPT ![i] = s] /\ s \in {"failed", "done"}
          /\ s = "failed" <=> e.kind = "read" /\ ~raw[e.key]
    BY SMT, <1>1 DEF KeyEffect, EventEffect, Goto, Steps
  <1>6. CASE e.kind \in {"write", "delete"}
    <2>1. e.key \in RawKeys /\ WriteKeys(e) = {e.key} /\ e.key \notin Accounts
      BY <1>1, <1>2, <1>6, EffectFields, KeyAssumption DEF IInv, WriteKeys
    <2>2. raw' = [raw EXCEPT ![e.key] = (e.kind = "write")]
      BY <1>1, <1>6 DEF KeyEffect
    <2>3. ~p.failed => ~A[i].failed /\ A[i].raw = [p.raw EXCEPT ![e.key] = (e.kind = "write")]
      BY SMTT(30), <1>3, <1>6 DEF Apply
    <2>4. ~A[i - 1].failed => Advances(A, i, s)
      BY SMT, <1>1, <1>3, <1>4, <1>5, <1>6, <2>1, <2>2, <2>3 DEF Advances
    <2>5. /\ \A a \in Accounts : a \notin WriteKeys(effects[i]) => bal'[a] = bal[a]
          /\ \A x \in RawKeys : x \notin WriteKeys(effects[i]) => raw'[x] = raw[x]
      BY <1>1, <1>4, <2>1, <2>2
    <2> QED
      BY <1>4, <1>5, <2>4, <2>5, SerialStep
  <1>7. CASE e.kind \in {"read", "event"}
    <2>1. UNCHANGED <<bal, raw>> /\ WriteKeys(e) = {}
      BY ZenonT(40), <1>1, <1>4, <1>7 DEF KeyEffect, EventEffect, storeVars, WriteKeys
    <2>2. ~p.failed => (A[i].failed <=> e.kind = "read" /\ ~p.raw[e.key])
      BY SMTT(30), <1>3, <1>7 DEF Apply
    <2>3. ~p.failed /\ e.kind = "read" => raw[e.key] = p.raw[e.key]
      <3> SUFFICES ASSUME ~p.failed, e.kind = "read" PROVE raw[e.key] = p.raw[e.key]
        OBVIOUS
      <3>1. e.key \in RawKeys /\ e.key \in WriteKeys(e) \cup ReadKeys(e)
        BY <1>1, <1>2, EffectFields DEF IInv, ReadKeys
      <3> QED
        BY SMT, <1>1, <1>2, <1>3, <1>4, <3>1, Sees
    <2>4. ~A[i - 1].failed => Advances(A, i, s)
      BY <1>1, <1>3, <1>5, <2>1, <2>2, <2>3 DEF Advances
    <2> QED
      BY <1>4, <1>5, <2>1, <2>4, SerialStep
  <1> QED
    BY <1>1, <1>6, <1>7
\* A batch starts effects that are waiting, so nothing is written.
LEMMA StartSerial ==
    ASSUME IInv, NEW A, Serial(A), StartBatch
    PROVE  Serial(A)'
  <1>1. UNCHANGED <<effects, start, bal, raw>> /\ Nodes' = Nodes
    BY DEF StartBatch, storeVars, Nodes
  <1>2. PICK h : h = Head(batches)
    OBVIOUS
  <1>3. step' = [i \in Nodes |-> IF i \in h THEN "start" ELSE step[i]]
    BY <1>2 DEF StartBatch
  <1>4. \A i \in h : step[i] = "waiting"
    <2>1. batches \in Seq(SUBSET Nodes) /\ batches # <<>>
      BY DEF StartBatch, IInv, TypeOK
    <2>2. 1 \in 1 .. Len(batches) /\ h = batches[1]
      BY SMT, <1>2, <2>1
    <2> QED
      BY <2>2 DEF IInv, Layered
  <1>5. \A x, k : WrittenUpTo(x, k)' => WrittenUpTo(x, k)
    <2> SUFFICES ASSUME NEW x, NEW k, WrittenUpTo(x, k)', NEW j \in Nodes, x \in WriteKeys(effects[j])
                 PROVE  step[j] \in (IF j <= k THEN {"done"} ELSE {"waiting", "start", "debit"})
      BY DEF WrittenUpTo
    <2>1. step'[j] \in (IF j <= k THEN {"done"} ELSE {"waiting", "start", "debit"})
      BY <1>1 DEF WrittenUpTo
    <2> QED
      BY <1>3, <1>4, <2>1
  <1>6. \A i \in Nodes : step'[i] \in {"readTo", "credit", "done", "failed"} => step'[i] = step[i]
    BY <1>3
  <1> QED
    BY <1>1, <1>5, <1>6 DEF Serial

\* Every effect of the list has its turn before the call returns.
LEMMA CoveredStep ==
    ASSUME IInv, Covered, [Next]_vars, Unmerged
    PROVE  Covered'
  <1>1. CASE Schedule
    BY <1>1 DEF Schedule, Covered, Scheduled, Nodes, storeVars
  <1>2. CASE Optimize
    BY <1>2 DEF Optimize, OptimizeBatches, Unmerged, Covered, Scheduled, Nodes, storeVars
  <1>3. CASE StartBatch
    <2>1. UNCHANGED <<effects, phase>> /\ Nodes' = Nodes /\ phase = "execute"
      BY <1>3 DEF StartBatch, Nodes
    <2>2. batches \in Seq(SUBSET Nodes) /\ batches # <<>>
      BY <1>3 DEF StartBatch, IInv, TypeOK
    <2>3. PICK h : h = Head(batches)
      OBVIOUS
    <2>4. PICK n \in Nat : n = Len(batches) /\ 1 \in 1 .. n /\ h = batches[1]
      BY SMT, <2>2, <2>3
    <2>5. Len(batches') = n - 1 /\ \A m \in 1 .. (n - 1) : batches'[m] = batches[m + 1]
      BY SMT, <1>3, <2>2, <2>4 DEF StartBatch
    <2>6. ASSUME NEW i \in Scheduled, i \notin h PROVE i \in Scheduled'
      <3>1. PICK m \in 1 .. n : i \in batches[m]
        BY <2>4 DEF Scheduled
      <3>2. PICK l \in 1 .. (n - 1) : m = l + 1
        <4>1. m - 1 \in 1 .. (n - 1) /\ m = (m - 1) + 1
          BY SMT, <2>4, <2>6, <3>1
        <4> QED
          BY <4>1
      <3>3. i \in batches'[l] /\ l \in 1 .. Len(batches')
        BY <2>5, <3>1, <3>2
      <3> QED
        BY <3>3 DEF Scheduled
    <2>7. \A i \in h : step[i] = "waiting"
      BY <2>4 DEF IInv, Layered
    <2>8. running' = h /\ step' = [i \in Nodes |-> IF i \in h THEN "start" ELSE step[i]]
      BY <1>3, <2>3 DEF StartBatch
    <2>9. \A i \in running : step[i] = "done"
      BY <1>3 DEF StartBatch
    <2>10. ASSUME NEW i \in Nodes PROVE i \in Scheduled' \/ i \in running' \/ step'[i] = "done"
      <3>1. i \in Scheduled \/ i \in running \/ step[i] = "done"
        BY <2>1 DEF Covered
      <3> QED
        BY <2>6, <2>8, <2>9, <3>1
    <2> QED
      BY <2>1, <2>10 DEF Covered
  <1>4. ASSUME NEW i \in Nodes, executeEffect(i) PROVE Covered'
    <2>1. UNCHANGED <<effects, phase, batches, running>> /\ phase = "execute" /\ Nodes' = Nodes
      BY <1>4 DEF executeEffect, Nodes
    <2>2. PICK s : step' = [step EXCEPT ![i] = s]
      BY <1>4 DEF executeEffect, ReadFrom, Debit, ReadTo, Credit, KeyEffect, EventEffect, Goto
    <2>3. step[i] # "done" /\ step \in [Nodes -> Steps]
      BY <1>4 DEF executeEffect, ReadFrom, Debit, ReadTo, Credit, KeyEffect, EventEffect, IInv, TypeOK
    <2>4. \A j \in Nodes : step[j] = "done" => step'[j] = "done"
      BY <2>2, <2>3
    <2>5. Scheduled' = Scheduled
      BY <2>1 DEF Scheduled
    <2> QED
      BY <2>1, <2>4, <2>5 DEF Covered
  <1>5. CASE Return
    <2>1. UNCHANGED <<effects, step>> /\ Nodes' = Nodes /\ phase = "execute"
      BY <1>5 DEF Return, Nodes
    <2>2. CASE (\E i \in running : step[i] = "failed") /\ phase' = "failed"
      BY <2>1, <2>2 DEF Covered, IInv, TypeOK
    <2>3. CASE (\A i \in running : step[i] = "done") /\ batches = <<>> /\ phase' = "done"
      <3>1. Scheduled = {}
        BY SMT, <2>3 DEF Scheduled
      <3> QED
        BY <2>1, <2>3, <3>1 DEF Covered
    <2> QED
      BY <1>5, <2>2, <2>3 DEF Return
  <1>6. CASE UNCHANGED vars
    BY <1>6 DEF vars, Covered, Scheduled, Nodes
  <1> QED
    BY <1>1, <1>2, <1>3, <1>4, <1>5, <1>6 DEF Next

\* What the goroutines store follows Execute, step by step.
LEMMA SerialNext ==
    ASSUME IInv, Serial(Sequential), [Next]_vars
    PROVE  Serial(Sequential)'
  <1>1. PICK A : A = Sequential
    OBVIOUS
  <1>2. UNCHANGED <<effects, start>>
    BY DEF Next, Schedule, Optimize, StartBatch, executeEffect, Return, vars
  <1>3. Sequential' = A
    BY <1>1, <1>2 DEF Sequential
  <1>4. Runs(A) /\ Serial(A)
    BY <1>1, SequentialRuns DEF IInv
  <1>5. SUFFICES Serial(A)'
    BY SMTT(30), <1>3 DEF Serial, WrittenUpTo, Nodes
  <1>6. CASE UNCHANGED <<effects, step, bal, raw>>
    BY SMT, <1>4, <1>6 DEF Serial, WrittenUpTo, Nodes
  <1>7. CASE StartBatch
    BY <1>4, <1>7, StartSerial
  <1>8. ASSUME NEW i \in Nodes, executeEffect(i) PROVE Serial(A)'
    <2>1. i \in running
      BY <1>8 DEF executeEffect
    <2>2. CASE effects[i].kind = "transfer"
      <3>1. ReadFrom(i, effects[i]) \/ Debit(i, effects[i]) \/ ReadTo(i, effects[i]) \/ Credit(i, effects[i])
        BY <1>8, <2>2 DEF executeEffect
      <3> QED
        BY <1>2, <1>4, <2>1, <2>2, <3>1, TransferSerial
    <2>3. CASE effects[i].kind # "transfer"
      <3>1. \/ effects[i].kind \in {"write", "read", "delete"} /\ KeyEffect(i, effects[i])
            \/ effects[i].kind = "event" /\ EventEffect(i)
        BY <1>8, <2>3 DEF executeEffect
      <3> QED
        BY <1>2, <1>4, <2>1, <2>3, <3>1, OtherSerial
    <2> QED
      BY <2>2, <2>3
  <1>9. Schedule \/ Optimize \/ Return \/ UNCHANGED vars => UNCHANGED <<effects, step, bal, raw>>
    BY DEF Schedule, Optimize, Return, vars, storeVars
  <1> QED
    BY <1>6, <1>7, <1>8, <1>9 DEF Next

\* Before the first step nothing is written, and Execute is where it starts.
LEMMA InitSerial == Init => Covered /\ Serial(Sequential)
  <1> SUFFICES ASSUME Init PROVE Covered /\ Serial(Sequential)
    OBVIOUS
  <1>1. TypeOK
    BY InitInv DEF IInv
  <1>2. PICK A : A = Sequential
    OBVIOUS
  <1>3. Runs(A)
    BY <1>1, <1>2, SequentialRuns
  <1>4. \A i \in Nodes : step[i] = "waiting"
    BY DEF Init
  <1>5. A[0].bal = bal /\ A[0].raw = raw
    BY SMT, <1>3 DEF Init, Runs
  <1>6. ASSUME NEW k \in 0 .. Len(effects), ~A[k].failed, NEW x, WrittenUpTo(x, k)
        PROVE  \A j \in 1 .. k : x \notin WriteKeys(effects[j])
    <2> SUFFICES ASSUME NEW j \in 1 .. k, x \in WriteKeys(effects[j]) PROVE FALSE
      OBVIOUS
    <2>1. j \in Nodes /\ j <= k
      BY SMT, <1>1 DEF TypeOK, Nodes
    <2> QED
      BY <1>4, <1>6, <2>1 DEF WrittenUpTo
  <1>7. ASSUME NEW k \in 0 .. Len(effects), ~A[k].failed
        PROVE  /\ \A a \in Accounts : WrittenUpTo(a, k) => bal[a] = A[k].bal[a]
               /\ \A x \in RawKeys : WrittenUpTo(x, k) => raw[x] = A[k].raw[x]
    <2>1. /\ \A a \in Accounts : (\A j \in (0 + 1) .. k : a \notin WriteKeys(effects[j])) => A[k].bal[a] = A[0].bal[a]
          /\ \A x \in RawKeys : (\A j \in (0 + 1) .. k : x \notin WriteKeys(effects[j])) => A[k].raw[x] = A[0].raw[x]
      <3>1. PICK z \in 0 .. Len(effects) : z = 0
        BY SMT, <1>1 DEF TypeOK
      <3>2. k \in z .. Len(effects)
        BY <3>1
      <3> QED
        BY SMT, <1>1, <1>3, <1>7, <3>1, <3>2, RunsOn
    <2>2. 0 + 1 = 1
      BY SMT
    <2> QED
      BY <1>5, <1>6, <1>7, <2>1, <2>2
  <1>8. Serial(A)
    BY <1>4, <1>7 DEF Serial
  <1> QED
    BY <1>2, <1>8 DEF Init, Covered

\* When all effects are done, none has failed in order.
LEMMA AllDone ==
    ASSUME IInv, NEW A, Runs(A), Serial(A), \A i \in Nodes : step[i] = "done"
    PROVE  ~A[Len(effects)].failed
  <1>1. PICK n \in Nat : n = Len(effects) /\ Nodes = 1 .. n
    BY SMT DEF IInv, TypeOK, Nodes
  <1> DEFINE S == {k \in Nat : k <= n => ~A[k].failed}
  <1>2. 0 \in S
    BY SMT DEF Runs
  <1>3. ASSUME NEW k \in Nat, k \in S PROVE k + 1 \in S
    <2> SUFFICES ASSUME k + 1 <= n PROVE ~A[k + 1].failed
      BY SMT
    <2>1. PICK i \in 1 .. n : i = k + 1 /\ i - 1 = k /\ ~A[i - 1].failed
      BY SMT, <1>3
    <2> QED
      BY <1>1, <2>1 DEF Serial
  <1> HIDE DEF S
  <1>4. Nat \subseteq S
    BY <1>2, <1>3, NatSetInduction
  <1> QED
    BY SMT, <1>1, <1>4 DEF S

\* The invariant at the end of the call says that the two executions agree.
LEMMA SerialAgrees ==
    ASSUME IInv, Covered, Serial(Sequential)
    PROVE  ParallelIsSequential
  <1>1. PICK A : A = Sequential
    OBVIOUS
  <1>2. Runs(A) /\ Serial(A)
    BY <1>1, SequentialRuns DEF IInv
  <1>3. PICK n \in Nat : n = Len(effects) /\ Nodes = 1 .. n
    BY SMT DEF IInv, TypeOK, Nodes
  <1>4. A[n] \in Stores
    BY SMT, <1>2, <1>3 DEF Runs
  <1>5. ASSUME phase = "done" PROVE A[n] = [bal |-> bal, raw |-> raw, failed |-> FALSE]
    <2>1. \A i \in Nodes : step[i] = "done"
      BY <1>5 DEF Covered
    <2>2. ~A[n].failed
      BY <1>2, <1>3, <2>1, AllDone
    <2>3. \A x : WrittenUpTo(x, n)
      BY SMTT(30), <1>3, <2>1 DEF WrittenUpTo
    <2>4. /\ \A a \in Accounts : bal[a] = A[n].bal[a]
          /\ \A x \in RawKeys : raw[x] = A[n].raw[x]
      BY SMTT(30), <1>2, <1>3, <2>2, <2>3 DEF Serial
    <2>5. bal = A[n].bal /\ raw = A[n].raw
      BY SMT, <1>4, <2>4 DEF IInv, TypeOK, Stores
    <2> QED
      BY <1>4, <2>2, <2>5 DEF Stores
  <1>6. ASSUME phase = "failed" PROVE A[n].failed
    <2>1. PICK i \in Nodes : step[i] = "failed"
      BY <1>6 DEF Covered
    <2>2. A[i - 1].failed \/ A[i].failed
      BY <1>2, <2>1 DEF Serial
    <2>3. i \in 0 .. Len(effects) /\ n \in i .. Len(effects) /\ i - 1 \in 0 .. Len(effects) /\ n \in (i - 1) .. Len(effects)
      BY SMT, <1>3
    <2>4. TypeOK
      BY DEF IInv
    <2>5. ~A[n].failed => ~A[i].failed /\ ~A[i - 1].failed
      BY <1>2, <2>3, <2>4, RunsOn
    <2> QED
      BY <2>2, <2>5
  <1> QED
    BY <1>1, <1>3, <1>5, <1>6 DEF ParallelIsSequential

\* ExecuteParallel of the batches Schedule made computes what Execute of the list computes,
\* whatever the list and however the goroutines interleave: the same balances and keys, or an
\* error exactly when Execute returns one.
THEOREM SameAsSequential ==
    ASSUME Unmerged
    PROVE  Spec => []ParallelIsSequential
  <1> DEFINE SInv == Covered /\ Serial(Sequential)
  <1>1. Init => SInv
    BY InitSerial
  <1>2. IInv /\ SInv /\ [Next]_vars => SInv'
    BY CoveredStep, SerialNext
  <1>3. IInv /\ SInv => ParallelIsSequential
    BY SerialAgrees
  <1> HIDE DEF SInv
  <1> QED
    BY <1>1, <1>2, <1>3, ScheduleCorrect, PTL DEF Spec
=============================================================================
