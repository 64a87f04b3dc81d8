-------------------------- MODULE ParallelExecutor --------------------------
(***************************************************************************)
(* The dependency graph of a list of effects (effects/graph.go), its       *)
(* division into batches (effects/scheduler.go), and ExecuteParallel       *)
(* (effects/executor.go), which runs the effects of a batch in goroutines. *)
(*                                                                         *)
(* A transfer takes four steps, because SubAmount and AddAmount each read  *)
(* a balance and then store another without a lock in between; the other   *)
(* effects are one call of the store.  A batch is the set of the positions *)
(* of its effects: the order inside it has no meaning for goroutines.      *)
(***************************************************************************)
EXTENDS Naturals, Sequences, FiniteSets

CONSTANTS
    Accounts,       \* account names
    RawKeys,        \* keys that Write, Read and Delete effects name
    EffectLists,    \* the lists of effects handed to ScheduleEffects
    InitialBalances,\* the balances before the call
    MaxAmount,      \* the largest uint64
    MaxBatchSize    \* the argument of OptimizeBatches; 0 leaves the batches alone

Transfers == [kind : {"transfer"}, from : Accounts, to : Accounts, amount : 1 .. MaxAmount]
KeyEffects == [kind : {"write", "read", "delete"}, key : RawKeys]
Events == [kind : {"event"}]
Effects == Transfers \cup KeyEffects \cup Events

\* A key of the store has a slash in it and an account name has none.
ASSUME KeyAssumption == Accounts \cap RawKeys = {}
ASSUME ListAssumption == EffectLists \subseteq Seq(Effects)
ASSUME AmountAssumption ==
    /\ MaxAmount \in Nat /\ MaxBatchSize \in Nat
    /\ InitialBalances \subseteq [Accounts -> 0 .. MaxAmount]

VARIABLES
    effects,    \* the list being scheduled and executed
    phase,      \* "schedule", "optimize", "execute", then "done" or "failed"
    batches,    \* the batches made so far, and then the ones to execute
    running,    \* the positions whose goroutines the current batch has started
    step,       \* how far each goroutine is
    got,        \* the balance it read last
    bal,        \* what the balance store answers
    raw,        \* which plain keys the store has
    start       \* both of these before the call (for the properties)

vars == <<effects, phase, batches, running, step, got, bal, raw, start>>

storeVars == <<bal, raw>>

Nodes == 1 .. Len(effects)

-----------------------------------------------------------------------------
(* The dependency graph *)

\* Keys an effect depends on for writing.  A balance key names its account, so the
\* account stands for the balances of its denominations.
WriteKeys(e) ==
    IF e.kind = "transfer" THEN {e.from, e.to}
    ELSE IF e.kind \in {"write", "delete"} THEN {e.key} ELSE {}

ReadKeys(e) == IF e.kind = "read" THEN {e.key} ELSE {}

Conflicts(e, f) ==
    \/ WriteKeys(e) \cap (WriteKeys(f) \cup ReadKeys(f)) # {}
    \/ ReadKeys(e) \cap WriteKeys(f) # {}

\* Fault: a write does not wait for earlier reads and writes of its key.
DependenciesOfReads(i) ==
    {j \in Nodes : j < i /\ WriteKeys(effects[j]) \cap ReadKeys(effects[i]) # {}}

\* Fault: a write waits for earlier writes, but not for earlier reads.
DependenciesOnWrites(i) ==
    {j \in Nodes : j < i /\ WriteKeys(effects[j]) \cap
                              (WriteKeys(effects[i]) \cup ReadKeys(effects[i])) # {}}

\* Fault: an effect depends on the later ones as well.
DependenciesBothWays(i) == {j \in Nodes \ {i} : Conflicts(effects[j], effects[i])}

\* An effect depends on the earlier ones it conflicts with.
Dependencies(i) == {j \in Nodes : j < i /\ Conflicts(effects[j], effects[i])}

-----------------------------------------------------------------------------
(* Schedule *)

Scheduled == UNION {batches[n] : n \in 1 .. Len(batches)}

findReadyNodes == {i \in Nodes \ Scheduled : Dependencies(i) \subseteq Scheduled}

\* One turn of the loop.  Without a ready node Schedule returns an error.
Schedule ==
    /\ phase = "schedule"
    /\ \/ /\ findReadyNodes # {}
          /\ batches' = Append(batches, findReadyNodes)
          /\ UNCHANGED phase
       \/ /\ findReadyNodes = {}
          /\ phase' = IF Scheduled = Nodes THEN "optimize" ELSE "stuck"
          /\ UNCHANGED batches
    /\ UNCHANGED <<effects, start, running, step, got, storeVars>>

\* The loop of OptimizeBatches: a batch joins the current one while both fit.
Merge(acc, batch) ==
    IF acc.current # {} /\ Cardinality(acc.current) + Cardinality(batch) > MaxBatchSize
    THEN [done |-> Append(acc.done, acc.current), current |-> batch]
    ELSE [acc EXCEPT !.current = @ \cup batch]

OptimizeBatches(list) ==
    IF list = <<>> \/ MaxBatchSize = 0 THEN list
    ELSE LET merged[n \in 0 .. Len(list)] ==
                 IF n = 0 THEN [done |-> <<>>, current |-> {}] ELSE Merge(merged[n - 1], list[n])
             last == merged[Len(list)]
         IN  Append(last.done, last.current)

\* The caller may pass the batches through OptimizeBatches before executing them.
Optimize ==
    /\ phase = "optimize"
    /\ batches' = OptimizeBatches(batches)
    /\ phase' = "execute"
    /\ UNCHANGED <<effects, start, running, step, got, storeVars>>

-----------------------------------------------------------------------------
(* ExecuteParallel *)

Finished(i) == step[i] \in {"done", "failed"}

\* Fault: the next batch starts without waiting for the last goroutine.
StartBatchEarly ==
    /\ phase = "execute"
    /\ \E i \in Nodes : \A j \in running \ {i} : step[j] = "done"
    /\ batches # <<>>
    /\ running' = running \cup Head(batches)
    /\ batches' = Tail(batches)
    /\ step' = [i \in Nodes |-> IF i \in Head(batches) THEN "start" ELSE step[i]]
    /\ UNCHANGED <<effects, start, phase, got, storeVars>>

\* wg.Wait has returned without an error: the next batch's goroutines start.
StartBatch ==
    /\ phase = "execute"
    /\ \A i \in running : step[i] = "done"
    /\ batches # <<>>
    /\ running' = Head(batches)
    /\ batches' = Tail(batches)
    /\ step' = [i \in Nodes |-> IF i \in Head(batches) THEN "start" ELSE step[i]]
    /\ UNCHANGED <<effects, start, phase, got, storeVars>>

\* wg.Wait has returned with an error, or after the last batch.
Return ==
    /\ phase = "execute"
    /\ \A i \in running : Finished(i)
    /\ \/ (\E i \in running : step[i] = "failed") /\ phase' = "failed"
       \/ (\A i \in running : step[i] = "done") /\ batches = <<>> /\ phase' = "done"
    /\ UNCHANGED <<effects, start, batches, running, step, got, storeVars>>

Goto(i, s) == step' = [step EXCEPT ![i] = s]

\* SubAmount and AddAmount: Get, compare, Set.
ReadFrom(i, e) ==
    /\ step[i] = "start"
    /\ got' = [got EXCEPT ![i] = bal[e.from]]
    /\ Goto(i, IF bal[e.from] < e.amount THEN "failed" ELSE "debit")
    /\ UNCHANGED storeVars

Debit(i, e) ==
    /\ step[i] = "debit"
    /\ bal' = [bal EXCEPT ![e.from] = got[i] - e.amount]
    /\ Goto(i, "readTo")
    /\ UNCHANGED <<got, raw>>

ReadTo(i, e) ==
    /\ step[i] = "readTo"
    /\ got' = [got EXCEPT ![i] = bal[e.to]]
    /\ Goto(i, IF bal[e.to] > MaxAmount - e.amount THEN "failed" ELSE "credit")
    /\ UNCHANGED storeVars

Credit(i, e) ==
    /\ step[i] = "credit"
    /\ bal' = [bal EXCEPT ![e.to] = got[i] + e.amount]
    /\ Goto(i, "done")
    /\ UNCHANGED <<got, raw>>

KeyEffect(i, e) ==
    /\ step[i] = "start"
    /\ Goto(i, IF e.kind = "read" /\ ~raw[e.key] THEN "failed" ELSE "done")
    /\ raw' = IF e.kind = "read" THEN raw ELSE [raw EXCEPT ![e.key] = (e.kind = "write")]
    /\ UNCHANGED <<got, bal>>

\* AddEvent holds the result's own mutex.
EventEffect(i) ==
    /\ step[i] = "start"
    /\ Goto(i, "done")
    /\ UNCHANGED <<got, storeVars>>

executeEffect(i) ==
    /\ phase = "execute"
    /\ i \in running
    /\ LET e == effects[i] IN
         \/ e.kind = "transfer" /\ (ReadFrom(i, e) \/ Debit(i, e) \/ ReadTo(i, e) \/ Credit(i, e))
         \/ e.kind \in {"write", "read", "delete"} /\ KeyEffect(i, e)
         \/ e.kind = "event" /\ EventEffect(i)
    /\ UNCHANGED <<effects, start, phase, batches, running>>

-----------------------------------------------------------------------------
(* Execute: the effects in the order of the list, up to the first error *)

Debited(s, e) == [s.bal EXCEPT ![e.from] = @ - e.amount]

Short(s, e) == s.bal[e.from] < e.amount

Full(s, e) == Debited(s, e)[e.to] > MaxAmount - e.amount

\* What executeEffect makes of the store s when nothing else runs.
Apply(s, e) ==
    IF s.failed THEN s
    ELSE [bal |-> IF e.kind # "transfer" \/ Short(s, e) THEN s.bal
                  ELSE IF Full(s, e) THEN Debited(s, e)
                  ELSE [Debited(s, e) EXCEPT ![e.to] = @ + e.amount],
          raw |-> IF e.kind \in {"write", "delete"} THEN [s.raw EXCEPT ![e.key] = (e.kind = "write")] ELSE s.raw,
          failed |-> \/ e.kind = "transfer" /\ (Short(s, e) \/ Full(s, e))
                     \/ e.kind = "read" /\ ~s.raw[e.key]]

\* The store after each prefix of the list.
Sequential ==
    LET after[k \in 0 .. Len(effects)] ==
            IF k = 0 THEN [bal |-> start.bal, raw |-> start.raw, failed |-> FALSE]
            ELSE Apply(after[k - 1], effects[k])
    IN  after

-----------------------------------------------------------------------------
Init ==
    /\ effects \in EffectLists
    /\ phase = "schedule"
    /\ batches = <<>>
    /\ running = {}
    /\ step = [i \in Nodes |-> "waiting"]
    /\ got = [i \in Nodes |-> 0]
    /\ bal \in InitialBalances
    /\ raw \in [RawKeys -> BOOLEAN]
    /\ start = [bal |-> bal, raw |-> raw]

Next ==
    \/ Schedule
    \/ Optimize
    \/ StartBatch
    \/ \E i \in Nodes : executeEffect(i)
    \/ Return

Spec == Init /\ [][Next]_vars

\* The goroutines and the caller that waits for them run on; nothing blocks for
\* ever.
FairSpec == Spec /\ WF_vars(Next)

-----------------------------------------------------------------------------
(* Properties *)

Steps == {"waiting", "start", "debit", "readTo", "credit", "done", "failed"}

\* Every variable keeps its type.
TypeOK ==
    /\ effects \in Seq(Effects)
    /\ phase \in {"schedule", "stuck", "optimize", "execute", "done", "failed"}
    /\ batches \in Seq(SUBSET Nodes)
    /\ running \subseteq Nodes
    /\ step \in [Nodes -> Steps]
    /\ got \in [Nodes -> 0 .. MaxAmount]
    /\ bal \in [Accounts -> 0 .. MaxAmount]
    /\ raw \in [RawKeys -> BOOLEAN]
    /\ start \in [bal : [Accounts -> 0 .. MaxAmount], raw : [RawKeys -> BOOLEAN]]

\* The balance a goroutine has read in SubAmount or AddAmount is still the stored
\* one when it stores the new amount: no transfer of the batch is overwritten.
NoLostUpdate ==
    \A i \in Nodes :
        /\ step[i] = "debit" => got[i] = bal[effects[i].from]
        /\ step[i] = "credit" => got[i] = bal[effects[i].to]

\* An effect starts only when all earlier effects it conflicts with are done, so
\* reads, writes and transfers of a key happen in the order of the list.
ConflictsInOrder ==
    \A i, j \in Nodes : j < i /\ Conflicts(effects[j], effects[i]) /\ step[i] # "waiting"
        => step[j] = "done"

\* ExecuteParallel of a schedule computes what Execute of the list does: it fails
\* exactly when that fails, and otherwise leaves the same balances and keys.
ParallelIsSequential ==
    LET last == Sequential[Len(effects)]
    IN  /\ phase = "done" => last = [bal |-> bal, raw |-> raw, failed |-> FALSE]
        /\ phase = "failed" => last.failed

\* Schedule finds a ready effect until all are scheduled, and ExecuteParallel
\* returns.
Returns == <>(phase \in {"done", "failed"})

-----------------------------------------------------------------------------
(* The invariants behind the properties *)

Independent(batch) == \A i, j \in batch : i # j => ~Conflicts(effects[i], effects[j])

Earlier(n) == UNION {batches[m] : m \in 1 .. (n - 1)}

\* Batches hold independent effects that are waiting, no effect is in two of
\* them, and what an effect depends on is in an earlier batch, in the running
\* one, or done.
Layered ==
    /\ Independent(running)
    /\ \A i \in Nodes \ running : step[i] \in {"waiting", "done"}
    /\ \A n \in 1 .. Len(batches) :
         /\ Independent(batches[n])
         /\ \A i \in batches[n] :
              /\ step[i] = "waiting" /\ i \notin running
              /\ \A m \in 1 .. Len(batches) : i \in batches[m] => m = n
              /\ \A j \in Dependencies(i) :
                   j \in Earlier(n) \/ j \in running \/ step[j] = "done"
    /\ phase \in {"schedule", "stuck", "optimize"} =>
         running = {} /\ \A i \in Nodes : step[i] = "waiting"

\* Only transfers are between their steps, and what they read passed the check.
Checked ==
    \A i \in Nodes :
        /\ step[i] \in {"debit", "readTo", "credit"} => effects[i].kind = "transfer"
        /\ step[i] = "debit" => got[i] >= effects[i].amount
        /\ step[i] = "credit" => got[i] <= MaxAmount - effects[i].amount

\* Every effect is in a batch, running or done until the call returns; it returns with
\* an error only after an effect has failed.
Covered ==
    /\ phase \in {"optimize", "execute"} =>
         \A i \in Nodes : i \in Scheduled \/ i \in running \/ step[i] = "done"
    /\ phase = "done" => \A i \in Nodes : step[i] = "done"
    /\ phase = "failed" => \E i \in Nodes : step[i] = "failed"

\* The effects up to k that write key x are done, and no later one has written it yet.
WrittenUpTo(x, k) ==
    \A j \in Nodes : x \in WriteKeys(effects[j]) =>
        step[j] \in (IF j <= k THEN {"done"} ELSE {"waiting", "start", "debit"})

\* What is stored under a key is what the list leaves there when it is executed in
\* order up to an effect, if that is how far the writers of the key are.  A transfer
\* between its two halves has debited what the earlier effects left, and an effect
\* that comes to an end fails if it fails in order.  All of this where no earlier
\* effect of the list fails.
Serial(after) ==
    /\ \A k \in 0 .. Len(effects) : ~after[k].failed =>
         /\ \A a \in Accounts : WrittenUpTo(a, k) => bal[a] = after[k].bal[a]
         /\ \A x \in RawKeys : WrittenUpTo(x, k) => raw[x] = after[k].raw[x]
    /\ \A i \in Nodes : ~after[i - 1].failed =>
         /\ step[i] \in {"readTo", "credit"} =>
              /\ ~Short(after[i - 1], effects[i])
              /\ \A a \in WriteKeys(effects[i]) : bal[a] = Debited(after[i - 1], effects[i])[a]
         /\ step[i] = "done" => ~after[i].failed
         /\ step[i] = "failed" => after[i].failed
=============================================================================
