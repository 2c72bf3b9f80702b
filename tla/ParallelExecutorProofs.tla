------------------------ MODULE ParallelExecutorProofs ------------------------
(***************************************************************************)
(* Proofs about module ParallelExecutor, for any batches and any           *)
(* maxInFlight: the executor keeps the promise of module BatchRun, none of *)
(* its goroutines ever waits for a channel, and no more executables than   *)
(* maxInFlight are under way.                                              *)
(***************************************************************************)
EXTENDS ParallelExecutor, FiniteSetTheorems, SequenceTheorems, TLAPS

\* The executables of batch b whose result was sent, and those whose token is in the
\* guard, when the goroutines are where f says.
SentIn(f, b) == {e \in ExecutablesOf(b) : f[e] \in {"releasing", "ended"}}
HeldIn(f, b) == {e \in ExecutablesOf(b) : f[e] \in {"executing", "reporting", "releasing"}}

Reported(b) == SentIn(pc, b)
InFlight(b) == HeldIn(pc, b)

\* The results of batch b the caller has received.
Received(b) == IF b < batch THEN BatchSizes[b] ELSE IF b = batch THEN received ELSE 0

\* Where a goroutine may be.
Places == {"unborn", "executing", "reporting", "releasing", "ended"}

TypeInv ==
    /\ batch \in 1 .. Len(BatchSizes) + 1 /\ dispatched \in Nat /\ received \in Nat
    /\ failures \in SUBSET Executables
    /\ pc \in [Executables -> Places]
    /\ result \in [Executables -> {"none", "ok", "failed"}]
    /\ guard \in [Batches -> Nat]
    /\ errs \in [Batches -> Seq(Executables)]
    /\ returned \in BOOLEAN

\* Where the caller is tells where the goroutines are: of a past batch all have sent
\* their results, of one to come none is there, of this one those dispatched are.
OrderInv ==
    /\ \A e \in Executables :
          /\ pc[e] \notin {"unborn", "executing"} => result[e] \in {"ok", "failed"}
          /\ e[1] < batch => pc[e] \in {"releasing", "ended"}
          /\ e[1] > batch => pc[e] = "unborn"
          /\ e[1] = batch => (pc[e] = "unborn" <=> e[2] > dispatched)
    /\ batch \in Batches => dispatched <= BatchSizes[batch] /\ received <= BatchSizes[batch]
    /\ returned => batch = Len(BatchSizes) + 1

\* The channels hold what was sent and not yet received: the count that lets the caller
\* conclude from the number of the results that they are those of all.
CountInv ==
    \A b \in Batches :
        /\ guard[b] = Cardinality(InFlight(b)) /\ guard[b] <= MaxInFlight
        /\ Len(errs[b]) + Received(b) = Cardinality(Reported(b))

\* An error that was sent is in the caller's list or in the channel, and nothing else is
\* in the list.
FailureInv ==
    /\ \A e \in failures : pc[e] \in {"releasing", "ended"} /\ result[e] = "failed"
    /\ \A b \in Batches : \A i \in 1 .. Len(errs[b]) : errs[b][i] \in Reported(b)
    /\ \A b \in Batches : \A e \in Reported(b) :
          result[e] = "failed" => e \in failures \/ \E i \in 1 .. Len(errs[b]) : errs[b][i] = e

-----------------------------------------------------------------------------
(* The executables *)

LEMMA BatchesAre == Batches = 1 .. Len(BatchSizes) /\ \A b \in Batches : BatchSizes[b] \in Nat
  BY BatchSizesAssumption DEF Batches

\* An executable is one of its batch.
LEMMA ExecutableParts ==
    /\ \A e \in Executables : /\ e[1] \in Batches /\ e[2] \in 1 .. BatchSizes[e[1]]
                              /\ e = <<e[1], e[2]>> /\ e \in ExecutablesOf(e[1])
    /\ \A b \in Batches : \A e \in ExecutablesOf(b) : e \in Executables /\ e[1] = b
  BY DEF Executables, ExecutablesOf

\* A batch is as many executables as its size.
LEMMA BatchCardinality ==
    ASSUME NEW b \in Batches
    PROVE  IsFiniteSet(ExecutablesOf(b)) /\ Cardinality(ExecutablesOf(b)) = BatchSizes[b]
  <1>1. BatchSizes[b] \in Nat
    BY BatchesAre
  <1>2. IsFiniteSet(1 .. BatchSizes[b]) /\ Cardinality(1 .. BatchSizes[b]) = BatchSizes[b]
    BY <1>1, FS_Interval, SMTT(30)
  <1>3. IsFiniteSet({b}) /\ Cardinality({b}) = 1
    BY FS_Singleton
  <1>4. /\ IsFiniteSet({b} \X (1 .. BatchSizes[b]))
        /\ Cardinality({b} \X (1 .. BatchSizes[b])) = 1 * BatchSizes[b]
    <2> DEFINE S == {b}
               T == 1 .. BatchSizes[b]
    <2>1. /\ IsFiniteSet(S) /\ IsFiniteSet(T)
          /\ Cardinality(S) = 1 /\ Cardinality(T) = BatchSizes[b]
      BY <1>2, <1>3
    <2> HIDE DEF S, T
    <2>2. IsFiniteSet(S \X T) /\ Cardinality(S \X T) = Cardinality(S) * Cardinality(T)
      BY <2>1, FS_Product, Zenon
    <2>3. IsFiniteSet(S \X T) /\ Cardinality(S \X T) = 1 * BatchSizes[b]
      BY <2>1, <2>2
    <2> QED
      BY <2>3 DEF S, T
  <1> QED
    BY <1>1, <1>4 DEF ExecutablesOf

\* So are those of them that have sent their results, and those with a token.
LEMMA PartsAreFinite ==
    ASSUME NEW b \in Batches
    PROVE  /\ IsFiniteSet(Reported(b)) /\ Cardinality(Reported(b)) \in Nat
           /\ Cardinality(Reported(b)) <= BatchSizes[b]
           /\ Cardinality(Reported(b)) = BatchSizes[b] => Reported(b) = ExecutablesOf(b)
           /\ IsFiniteSet(InFlight(b)) /\ Cardinality(InFlight(b)) \in Nat
  <1>1. Reported(b) \in SUBSET ExecutablesOf(b) /\ InFlight(b) \in SUBSET ExecutablesOf(b)
    BY DEF Reported, SentIn, InFlight, HeldIn
  <1>2. IsFiniteSet(ExecutablesOf(b)) /\ Cardinality(ExecutablesOf(b)) = BatchSizes[b]
    BY BatchCardinality
  <1>3. IsFiniteSet(Reported(b)) /\ IsFiniteSet(InFlight(b))
    BY <1>1, <1>2, FS_Subset
  <1>4. /\ Cardinality(Reported(b)) <= BatchSizes[b]
        /\ Cardinality(Reported(b)) = BatchSizes[b] => Reported(b) = ExecutablesOf(b)
    BY <1>1, <1>2, FS_Subset
  <1>5. Cardinality(Reported(b)) \in Nat /\ Cardinality(InFlight(b)) \in Nat
    BY <1>3, FS_CardinalityType
  <1> QED
    BY <1>3, <1>4, <1>5

\* When as many results were received as the batch has executables, they are those of
\* all of them, and none is left in the channel.
LEMMA BatchIsDone ==
    ASSUME TypeInv, CountInv, NEW b \in Batches, Received(b) = BatchSizes[b]
    PROVE  Reported(b) = ExecutablesOf(b) /\ errs[b] = <<>>
  <1>1. errs[b] \in Seq(Executables) /\ Len(errs[b]) \in Nat
    BY DEF TypeInv, Places
  <1>2. BatchSizes[b] \in Nat
    BY BatchesAre
  <1>3. Len(errs[b]) + BatchSizes[b] = Cardinality(Reported(b))
    BY DEF CountInv
  <1>4. Len(errs[b]) = 0 /\ Cardinality(Reported(b)) = BatchSizes[b]
    BY <1>1, <1>2, <1>3, PartsAreFinite
  <1>5. errs[b] = <<>>
    BY <1>1, <1>4, EmptySeq
  <1> QED
    BY <1>4, <1>5, PartsAreFinite

-----------------------------------------------------------------------------
(* The inductive invariant *)

Inv == TypeInv /\ OrderInv /\ CountInv /\ FailureInv

LEMMA InitInv == Init => Inv
  <1> SUFFICES ASSUME Init PROVE Inv
    OBVIOUS
  <1>1. batch = 1 /\ dispatched = 0 /\ received = 0 /\ failures = {} /\ returned = FALSE
    BY DEF Init
  <1>2. <<>> \in Seq(Executables) /\ Len(<<>>) = 0
    BY EmptySeq
  <1>3. Len(BatchSizes) \in Nat
    BY BatchSizesAssumption
  <1>4. TypeInv
    <2>1. batch \in 1 .. Len(BatchSizes) + 1 /\ dispatched \in Nat /\ received \in Nat
      BY <1>1, <1>3
    <2>2. failures \in SUBSET Executables /\ returned \in BOOLEAN
      BY <1>1
    <2>3. /\ pc \in [Executables -> Places]
          /\ result \in [Executables -> {"none", "ok", "failed"}]
      BY DEF Init, Places
    <2>4. guard \in [Batches -> Nat]
      BY DEF Init
    <2>5. errs \in [Batches -> Seq(Executables)]
      BY <1>2 DEF Init
    <2> QED
      BY <2>1, <2>2, <2>3, <2>4, <2>5 DEF TypeInv, Places
  <1>5. OrderInv
    <2>1. \A e \in Executables : pc[e] = "unborn" /\ e[1] >= 1 /\ e[2] > 0
      BY BatchesAre, ExecutableParts DEF Init
    <2>2. \A e \in Executables : e[1] \in Nat
      BY BatchesAre, ExecutableParts
    <2> QED
      BY <1>1, <2>1, <2>2, BatchesAre DEF OrderInv
  <1>6. ASSUME NEW b \in Batches
        PROVE  /\ Reported(b) = {} /\ InFlight(b) = {} /\ errs[b] = <<>> /\ guard[b] = 0
               /\ Received(b) = 0
    <2>1. \A e \in ExecutablesOf(b) : pc[e] = "unborn"
      BY ExecutableParts DEF Init
    <2>2. Received(b) = 0
      BY <1>1, BatchesAre DEF Received
    <2> QED
      BY <2>1, <2>2 DEF Init, Reported, SentIn, InFlight, HeldIn
  <1>7. CountInv
    <2>1. Cardinality({}) = 0 /\ 0 <= MaxInFlight
      BY FS_EmptySet, MaxInFlightAssumption
    <2>2. ASSUME NEW b \in Batches
          PROVE  /\ guard[b] = Cardinality(InFlight(b)) /\ guard[b] <= MaxInFlight
                 /\ Len(errs[b]) + Received(b) = Cardinality(Reported(b))
      <3>1. Len(errs[b]) = 0 /\ Received(b) = 0 /\ Cardinality(Reported(b)) = 0
        <4>1. errs[b] = <<>> /\ Received(b) = 0 /\ Reported(b) = {}
          BY <1>6
        <4> QED
          BY <1>2, <2>1, <4>1
      <3>2. InFlight(b) = {} /\ guard[b] = 0
        BY <1>6
      <3> QED
        BY <2>1, <3>1, <3>2
    <2> QED
      BY <2>2 DEF CountInv
  <1>8. FailureInv
    BY <1>1, <1>2, <1>6 DEF FailureInv
  <1> QED
    BY <1>4, <1>5, <1>7, <1>8 DEF Inv

LEMMA NextTypeInv == TypeInv /\ [Next]_vars => TypeInv'
  <1> SUFFICES ASSUME TypeInv, [Next]_vars PROVE TypeInv'
    OBVIOUS
  <1>1. CASE Dispatch
    <2>1. <<batch, dispatched + 1>> \in Executables
      BY <1>1, BatchesAre DEF Dispatch, TypeInv, Places, Executables, ExecutablesOf
    <2> QED
      BY <1>1, <2>1 DEF Dispatch, TypeInv, Places
  <1>2. CASE Receive
    <2>1. errs[batch] \in Seq(Executables) /\ errs[batch] # <<>>
      BY <1>2 DEF Receive, TypeInv, Places
    <2>2. Head(errs[batch]) \in Executables /\ Tail(errs[batch]) \in Seq(Executables)
      BY <2>1, HeadTailProperties
    <2>3. failures' \in SUBSET Executables
      BY <1>2, <2>2 DEF Receive, TypeInv, Places
    <2>4. errs' \in [Batches -> Seq(Executables)]
      BY <1>2, <2>2 DEF Receive, TypeInv, Places
    <2> QED
      BY <1>2, <2>3, <2>4 DEF Receive, TypeInv, Places
  <1>3. CASE NextBatch \/ RunReturns
    <2>1. /\ batch' \in 1 .. Len(BatchSizes) + 1 /\ dispatched' \in Nat /\ received' \in Nat
          /\ returned' \in BOOLEAN
      <3>1. Len(BatchSizes) \in Nat /\ batch \in 1 .. Len(BatchSizes) + 1
        BY BatchSizesAssumption DEF TypeInv, Places
      <3>2. batch \in Batches => batch \in 1 .. Len(BatchSizes)
        BY BatchesAre
      <3>3. CASE NextBatch
        BY <3>1, <3>2, <3>3 DEF NextBatch, TypeInv, Places
      <3>4. CASE RunReturns
        BY <3>4 DEF RunReturns, caller, TypeInv, Places
      <3> QED
        BY <1>3, <3>3, <3>4
    <2> QED
      BY <1>3, <2>1 DEF NextBatch, RunReturns, caller, TypeInv, Places
  <1>4. ASSUME NEW e \in Executables, Execute(e) PROVE TypeInv'
    BY <1>4 DEF Execute, caller, TypeInv, Places
  <1>5. ASSUME NEW e \in Executables, Report(e) PROVE TypeInv'
    <2>1. e[1] \in Batches /\ errs[e[1]] \in Seq(Executables)
      BY ExecutableParts DEF TypeInv, Places
    <2>2. Append(errs[e[1]], e) \in Seq(Executables)
      BY <2>1, AppendProperties
    <2>3. errs' \in [Batches -> Seq(Executables)]
      BY <1>5, <2>2 DEF Report, TypeInv, Places
    <2> QED
      BY <1>5, <2>3 DEF Report, caller, TypeInv, Places
  <1>6. ASSUME NEW e \in Executables, Release(e) PROVE TypeInv'
    <2>1. guard' \in [Batches -> Nat]
      BY <1>6, ExecutableParts DEF Release, TypeInv, Places
    <2> QED
      BY <1>6, <2>1 DEF Release, caller, TypeInv, Places
  <1>7. CASE UNCHANGED vars
    BY <1>7 DEF vars, TypeInv, Places
  <1> QED
    BY <1>1, <1>2, <1>3, <1>4, <1>5, <1>6, <1>7 DEF Next, Caller, Goroutine

\* Every step keeps the order of the batches.
LEMMA NextOrderInv == TypeInv /\ OrderInv /\ CountInv /\ [Next]_vars => OrderInv'
  <1> SUFFICES ASSUME TypeInv, OrderInv, CountInv, [Next]_vars PROVE OrderInv'
    OBVIOUS
  <1>1. batch \in Nat /\ dispatched \in Nat /\ received \in Nat /\ Len(BatchSizes) \in Nat
    BY BatchSizesAssumption DEF TypeInv, Places
  <1>2. \A e \in Executables : /\ e[1] \in Nat /\ e[2] \in Nat /\ e = <<e[1], e[2]>>
                               /\ e[1] \in Batches /\ e[2] \in 1 .. BatchSizes[e[1]]
    BY ExecutableParts, BatchesAre
  <1>3. ASSUME NEW e \in Executables, pc[e] # "unborn", UNCHANGED <<caller, returned>>,
               NEW p \in {"reporting", "releasing", "ended"}, pc' = [pc EXCEPT ![e] = p],
               result'[e] \in {"ok", "failed"},
               \A u \in Executables \ {e} : result'[u] = result[u],
               e[1] < batch => p \in {"releasing", "ended"}
        PROVE  OrderInv'
    <2>1. pc'[e] = p /\ \A u \in Executables \ {e} : pc'[u] = pc[u]
      BY <1>3 DEF TypeInv, Places
    <2>2. UNCHANGED <<batch, dispatched, received, returned>>
      BY <1>3 DEF caller
    <2>3. e[1] <= batch
      BY <1>1, <1>2, <1>3 DEF OrderInv
    <2>4. \A u \in Executables :
             /\ pc'[u] \notin {"unborn", "executing"} => result'[u] \in {"ok", "failed"}
             /\ u[1] < batch => pc'[u] \in {"releasing", "ended"}
             /\ u[1] > batch => pc'[u] = "unborn"
             /\ u[1] = batch => (pc'[u] = "unborn" <=> u[2] > dispatched)
      BY <1>1, <1>2, <1>3, <2>1, <2>3 DEF OrderInv
    <2> QED
      BY <2>2, <2>4 DEF OrderInv
  <1>4. CASE Dispatch
    <2> DEFINE d == <<batch, dispatched + 1>>
    <2>1. d \in Executables /\ d[1] = batch /\ d[2] = dispatched + 1
      BY <1>1, <1>4, BatchesAre DEF Dispatch, Executables, ExecutablesOf
    <2>2. /\ pc' = [pc EXCEPT ![d] = "executing"] /\ dispatched' = dispatched + 1
          /\ UNCHANGED <<batch, received, result, returned>>
          /\ batch \in Batches /\ dispatched < BatchSizes[batch]
      BY <1>4 DEF Dispatch
    <2>3. pc'[d] = "executing" /\ \A u \in Executables \ {d} : pc'[u] = pc[u]
      BY <2>1, <2>2 DEF TypeInv, Places
    <2>4. \A u \in Executables : u # d => u[1] # batch \/ u[2] # dispatched + 1
      BY <1>2
    <2> HIDE DEF d
    <2>5. \A u \in Executables :
             /\ pc'[u] \notin {"unborn", "executing"} => result[u] \in {"ok", "failed"}
             /\ u[1] < batch => pc'[u] \in {"releasing", "ended"}
             /\ u[1] > batch => pc'[u] = "unborn"
             /\ u[1] = batch => (pc'[u] = "unborn" <=> u[2] > dispatched + 1)
      <3> SUFFICES ASSUME NEW u \in Executables
                   PROVE  /\ pc'[u] \notin {"unborn", "executing"} => result[u] \in {"ok", "failed"}
                          /\ u[1] < batch => pc'[u] \in {"releasing", "ended"}
                          /\ u[1] > batch => pc'[u] = "unborn"
                          /\ u[1] = batch => (pc'[u] = "unborn" <=> u[2] > dispatched + 1)
        OBVIOUS
      <3>1. CASE u = d
        BY <1>1, <2>1, <2>3, <3>1
      <3>2. CASE u # d
        BY <1>1, <1>2, <2>3, <2>4, <3>2 DEF OrderInv
      <3> QED
        BY <3>1, <3>2
    <2>6. dispatched + 1 <= BatchSizes[batch]
      BY <1>1, <2>2, BatchesAre
    <2> QED
      BY <2>2, <2>5, <2>6 DEF OrderInv
  <1>5. CASE Receive
    <2>1. received + 1 <= BatchSizes[batch]
      BY <1>1, <1>5, BatchesAre DEF Receive
    <2> QED
      BY <1>5, <2>1 DEF Receive, OrderInv
  <1>6. CASE NextBatch
    <2>1. /\ batch \in Batches /\ dispatched = BatchSizes[batch] /\ received = BatchSizes[batch]
          /\ batch' = batch + 1 /\ dispatched' = 0 /\ received' = 0
          /\ UNCHANGED <<pc, result, returned>>
      BY <1>6 DEF NextBatch
    <2>2. Received(batch) = BatchSizes[batch]
      BY <1>1, <2>1 DEF Received
    <2>3. \A e \in ExecutablesOf(batch) : pc[e] \in {"releasing", "ended"}
      BY <2>1, <2>2, BatchIsDone DEF Reported, SentIn
    <2>4. \A e \in Executables : e[1] = batch => pc[e] \in {"releasing", "ended"}
      BY <2>3, ExecutableParts
    <2>5. batch + 1 \in Batches => BatchSizes[batch + 1] >= 0
      BY BatchesAre
    <2>6. ~returned
      BY <1>1, <2>1, BatchesAre DEF OrderInv
    <2>7. \A e \in Executables :
             /\ pc[e] \notin {"unborn", "executing"} => result[e] \in {"ok", "failed"}
             /\ e[1] < batch + 1 => pc[e] \in {"releasing", "ended"}
             /\ e[1] > batch + 1 => pc[e] = "unborn"
             /\ e[1] = batch + 1 => (pc[e] = "unborn" <=> e[2] > 0)
      BY <1>1, <1>2, <2>4 DEF OrderInv
    <2> QED
      BY <2>1, <2>5, <2>6, <2>7 DEF OrderInv
  <1>7. CASE RunReturns
    BY <1>7 DEF RunReturns, caller, OrderInv
  <1>8. ASSUME NEW e \in Executables, Execute(e) PROVE OrderInv'
    <2>1. PICK outcome \in {"ok", "failed"} : result' = [result EXCEPT ![e] = outcome]
      BY <1>8 DEF Execute
    <2>2. result'[e] \in {"ok", "failed"} /\ \A u \in Executables \ {e} : result'[u] = result[u]
      BY <2>1 DEF TypeInv, Places
    <2>3. ~(e[1] < batch)
      BY <1>8 DEF Execute, OrderInv
    <2> QED
      BY <1>3, <1>8, <2>2, <2>3 DEF Execute
  <1>9. ASSUME NEW e \in Executables, Report(e) PROVE OrderInv'
    BY <1>3, <1>9 DEF Report, OrderInv
  <1>10. ASSUME NEW e \in Executables, Release(e) PROVE OrderInv'
    BY <1>3, <1>10 DEF Release, OrderInv
  <1>11. CASE UNCHANGED vars
    BY <1>11 DEF vars, OrderInv
  <1> QED
    BY <1>4, <1>5, <1>6, <1>7, <1>8, <1>9, <1>10, <1>11 DEF Next, Caller, Goroutine

\* A goroutine that goes from one place to another changes the parts of its batch.
LEMMA PartsMove ==
    ASSUME NEW e \in Executables, \A u \in Executables \ {e} : pc'[u] = pc[u]
    PROVE  /\ \A b \in Batches \ {e[1]} : SentIn(pc', b) = SentIn(pc, b)
           /\ \A b \in Batches \ {e[1]} : HeldIn(pc', b) = HeldIn(pc, b)
           /\ pc'[e] \in {"releasing", "ended"} => SentIn(pc', e[1]) = SentIn(pc, e[1]) \cup {e}
           /\ pc'[e] \in {"executing", "reporting"} => SentIn(pc', e[1]) = SentIn(pc, e[1]) \ {e}
           /\ pc'[e] \in {"executing", "reporting", "releasing"} =>
                 HeldIn(pc', e[1]) = HeldIn(pc, e[1]) \cup {e}
           /\ pc'[e] = "ended" => HeldIn(pc', e[1]) = HeldIn(pc, e[1]) \ {e}
  <1>1. e[1] \in Batches /\ e \in ExecutablesOf(e[1])
    BY ExecutableParts
  <1>2. \A b \in Batches \ {e[1]} : \A u \in ExecutablesOf(b) : pc'[u] = pc[u]
    BY ExecutableParts
  <1>3. \A b \in Batches \ {e[1]} : SentIn(pc', b) = SentIn(pc, b) /\ HeldIn(pc', b) = HeldIn(pc, b)
    BY <1>2 DEF SentIn, HeldIn
  <1>4. \A u \in ExecutablesOf(e[1]) \ {e} : pc'[u] = pc[u]
    BY <1>1, ExecutableParts
  <1>5. /\ pc'[e] \in {"releasing", "ended"} => SentIn(pc', e[1]) = SentIn(pc, e[1]) \cup {e}
        /\ pc'[e] \in {"executing", "reporting"} => SentIn(pc', e[1]) = SentIn(pc, e[1]) \ {e}
    BY <1>1, <1>4 DEF SentIn
  <1>6. /\ pc'[e] \in {"executing", "reporting", "releasing"} =>
              HeldIn(pc', e[1]) = HeldIn(pc, e[1]) \cup {e}
        /\ pc'[e] = "ended" => HeldIn(pc', e[1]) = HeldIn(pc, e[1]) \ {e}
    BY <1>1, <1>4 DEF HeldIn
  <1> QED
    BY <1>3, <1>5, <1>6

\* Every step keeps the count of the channels.
LEMMA NextCountInv == TypeInv /\ OrderInv /\ CountInv /\ [Next]_vars => CountInv'
  <1> SUFFICES ASSUME TypeInv, OrderInv, CountInv, [Next]_vars PROVE CountInv'
    OBVIOUS
  <1>1. batch \in Nat /\ dispatched \in Nat /\ received \in Nat /\ MaxInFlight \in Nat
    BY BatchSizesAssumption, MaxInFlightAssumption DEF TypeInv, Places
  <1>2. \A b \in Batches : /\ b \in Nat /\ BatchSizes[b] \in Nat /\ guard[b] \in Nat
                           /\ errs[b] \in Seq(Executables) /\ Len(errs[b]) \in Nat
    BY BatchesAre DEF TypeInv, Places
  <1>3. \A b \in Batches : Received(b) \in Nat
    BY <1>1, <1>2 DEF Received
  <1>4. CASE Dispatch
    <2>1. PICK c \in Batches, d \in Executables :
             /\ c = batch /\ d = <<batch, dispatched + 1>> /\ d[1] = c /\ d[2] > dispatched
      BY <1>1, <1>4, BatchesAre DEF Dispatch, Executables, ExecutablesOf
    <2>2. /\ pc' = [pc EXCEPT ![d] = "executing"] /\ guard' = [guard EXCEPT ![c] = @ + 1]
          /\ guard[c] < MaxInFlight /\ UNCHANGED <<batch, received, errs>>
      BY <1>4, <2>1 DEF Dispatch
    <2>3. pc[d] = "unborn"
      BY <2>1 DEF OrderInv
    <2>4. d \notin SentIn(pc, c) /\ d \notin HeldIn(pc, c)
      BY <2>3 DEF SentIn, HeldIn
    <2>5. /\ \A b \in Batches \ {c} : SentIn(pc', b) = SentIn(pc, b) /\ HeldIn(pc', b) = HeldIn(pc, b)
          /\ SentIn(pc', c) = SentIn(pc, c)
          /\ HeldIn(pc', c) = HeldIn(pc, c) \cup {d}
      <3>1. pc'[d] = "executing" /\ \A u \in Executables \ {d} : pc'[u] = pc[u]
        BY <2>2 DEF TypeInv
      <3>2. /\ \A b \in Batches \ {d[1]} : SentIn(pc', b) = SentIn(pc, b)
            /\ \A b \in Batches \ {d[1]} : HeldIn(pc', b) = HeldIn(pc, b)
            /\ SentIn(pc', d[1]) = SentIn(pc, d[1]) \ {d}
            /\ HeldIn(pc', d[1]) = HeldIn(pc, d[1]) \cup {d}
        BY <3>1, PartsMove
      <3> QED
        BY <2>1, <2>4, <3>2
    <2>6. guard'[c] = guard[c] + 1 /\ \A b \in Batches \ {c} : guard'[b] = guard[b]
      BY <2>1, <2>2 DEF TypeInv
    <2>7. Cardinality(HeldIn(pc, c) \cup {d}) = Cardinality(HeldIn(pc, c)) + 1
      BY <2>1, <2>4, PartsAreFinite, FS_AddElement DEF InFlight
    <2>8. guard[c] = Cardinality(HeldIn(pc, c))
      BY DEF CountInv, InFlight
    <2>9. guard'[c] = Cardinality(HeldIn(pc', c)) /\ guard'[c] <= MaxInFlight
      <3>1. guard[c] \in Nat /\ MaxInFlight \in Nat /\ guard[c] < MaxInFlight
        BY <1>1, <1>2, <2>2
      <3>2. guard'[c] = guard[c] + 1
        BY <2>6
      <3>3. Cardinality(HeldIn(pc', c)) = Cardinality(HeldIn(pc, c)) + 1
        BY <2>5, <2>7
      <3> QED
        BY <2>8, <3>1, <3>2, <3>3
    <2> QED
      BY <2>2, <2>5, <2>6, <2>9 DEF CountInv, Reported, InFlight, Received
  <1>5. CASE Receive
    <2>1. PICK c \in Batches : c = batch
      BY <1>5 DEF Receive
    <2>2. /\ errs[c] # <<>> /\ received' = received + 1
          /\ errs' = [errs EXCEPT ![c] = Tail(@)] /\ UNCHANGED <<batch, pc, guard>>
      BY <1>5, <2>1 DEF Receive
    <2>3. Len(Tail(errs[c])) = Len(errs[c]) - 1
      BY <1>2, <2>1, <2>2, HeadTailProperties
    <2>4. Len(errs'[c]) = Len(errs[c]) - 1 /\ \A b \in Batches \ {c} : errs'[b] = errs[b]
      BY <2>1, <2>2, <2>3 DEF TypeInv
    <2>5. Len(errs[c]) + received = Cardinality(SentIn(pc, c))
      BY <1>1, <1>2, <2>1 DEF CountInv, Reported, Received
    <2>6. Len(errs'[c]) + received' = Cardinality(SentIn(pc, c))
      <3>1. Len(errs[c]) \in Nat /\ received \in Nat
        BY <1>1, <1>2
      <3>2. Len(errs'[c]) = Len(errs[c]) - 1 /\ received' = received + 1
        BY <2>2, <2>4
      <3>3. \A m, n \in Nat : (m - 1) + (n + 1) = m + n
        OBVIOUS
      <3>4. (Len(errs[c]) - 1) + (received + 1) = Len(errs[c]) + received
        BY <3>1, <3>3
      <3> QED
        BY <2>5, <3>2, <3>4
    <2>7. \A b \in Batches : Len(errs'[b]) + Received(b)' = Cardinality(SentIn(pc, b))
      <3> SUFFICES ASSUME NEW b \in Batches
                   PROVE  Len(errs'[b]) + Received(b)' = Cardinality(SentIn(pc, b))
        OBVIOUS
      <3>1. CASE b = c
        <4>1. batch' = c /\ c \in Nat
          BY <1>2, <2>1, <2>2
        <4>2. Received(b)' = received'
          BY <3>1, <4>1 DEF Received
        <4> QED
          BY <2>6, <3>1, <4>2
      <3>2. CASE b # c
        <4>1. Received(b)' = Received(b)
          BY <2>1, <2>2, <3>2 DEF Received
        <4> QED
          BY <2>4, <3>2, <4>1 DEF CountInv, Reported
      <3> QED
        BY <3>1, <3>2
    <2> QED
      BY <2>2, <2>7 DEF CountInv, Reported, InFlight
  <1>6. CASE NextBatch
    <2>1. /\ batch \in Batches /\ received = BatchSizes[batch] /\ batch' = batch + 1
          /\ received' = 0 /\ UNCHANGED <<pc, guard, errs>>
      BY <1>6 DEF NextBatch
    <2>2. \A b \in Batches : Received(b)' = Received(b)
      BY <1>1, <1>2, <2>1 DEF Received
    <2>3. \A b \in Batches : Reported(b)' = Reported(b) /\ InFlight(b)' = InFlight(b)
      BY <2>1 DEF Reported, SentIn, InFlight, HeldIn
    <2> QED
      BY <2>1, <2>2, <2>3 DEF CountInv
  <1>7. ASSUME UNCHANGED <<batch, received, pc, guard, errs>> PROVE CountInv'
    BY <1>7 DEF CountInv, Reported, SentIn, InFlight, HeldIn, Received
  <1>8. ASSUME NEW e \in Executables, Execute(e) PROVE CountInv'
    <2>1. /\ pc[e] = "executing" /\ pc' = [pc EXCEPT ![e] = "reporting"]
          /\ UNCHANGED <<batch, received, guard, errs>>
      BY <1>8 DEF Execute, caller
    <2>2. e \notin SentIn(pc, e[1]) /\ e \in HeldIn(pc, e[1])
      BY <2>1, ExecutableParts DEF SentIn, HeldIn
    <2>3. \A b \in Batches : SentIn(pc', b) = SentIn(pc, b) /\ HeldIn(pc', b) = HeldIn(pc, b)
      <3>1. pc'[e] = "reporting" /\ \A u \in Executables \ {e} : pc'[u] = pc[u]
        BY <2>1 DEF TypeInv
      <3>2. SentIn(pc', e[1]) = SentIn(pc, e[1]) /\ HeldIn(pc', e[1]) = HeldIn(pc, e[1])
        <4>1. /\ SentIn(pc', e[1]) = SentIn(pc, e[1]) \ {e}
              /\ HeldIn(pc', e[1]) = HeldIn(pc, e[1]) \cup {e}
          BY <3>1, PartsMove
        <4> QED
          BY <2>2, <4>1
      <3>3. \A b \in Batches \ {e[1]} : SentIn(pc', b) = SentIn(pc, b) /\ HeldIn(pc', b) = HeldIn(pc, b)
        BY <3>1, PartsMove
      <3> QED
        BY <3>2, <3>3
    <2> QED
      BY <2>1, <2>3 DEF CountInv, Reported, InFlight, Received
  <1>9. ASSUME NEW e \in Executables, Report(e) PROVE CountInv'
    <2>1. /\ pc[e] = "reporting" /\ pc' = [pc EXCEPT ![e] = "releasing"]
          /\ errs' = [errs EXCEPT ![e[1]] = Append(@, e)]
          /\ UNCHANGED <<batch, received, guard>>
      BY <1>9 DEF Report, caller
    <2>2. e \notin SentIn(pc, e[1]) /\ e \in HeldIn(pc, e[1]) /\ e[1] \in Batches
      BY <2>1, ExecutableParts DEF SentIn, HeldIn
    <2>3. Len(Append(errs[e[1]], e)) = Len(errs[e[1]]) + 1
      BY <1>2, <2>2, AppendProperties
    <2>4. /\ \A b \in Batches : HeldIn(pc', b) = HeldIn(pc, b)
          /\ \A b \in Batches \ {e[1]} : SentIn(pc', b) = SentIn(pc, b)
          /\ SentIn(pc', e[1]) = SentIn(pc, e[1]) \cup {e}
      <3>1. pc'[e] = "releasing" /\ \A u \in Executables \ {e} : pc'[u] = pc[u]
        BY <2>1 DEF TypeInv
      <3> QED
        BY <2>2, <3>1, PartsMove
    <2>5. Len(errs'[e[1]]) = Len(errs[e[1]]) + 1 /\ \A b \in Batches \ {e[1]} : errs'[b] = errs[b]
      BY <2>1, <2>2, <2>3 DEF TypeInv
    <2>6. Cardinality(SentIn(pc, e[1]) \cup {e}) = Cardinality(SentIn(pc, e[1])) + 1
      BY <2>2, PartsAreFinite, FS_AddElement DEF Reported
    <2>7. Len(errs[e[1]]) + Received(e[1]) = Cardinality(SentIn(pc, e[1]))
      BY <2>2 DEF CountInv, Reported
    <2>8. Len(errs'[e[1]]) + Received(e[1]) = Cardinality(SentIn(pc', e[1]))
      <3>1. Len(errs[e[1]]) \in Nat /\ Received(e[1]) \in Nat
        BY <1>2, <1>3, <2>2
      <3>2. Cardinality(SentIn(pc', e[1])) = Cardinality(SentIn(pc, e[1])) + 1
        BY <2>4, <2>6
      <3>3. Len(errs'[e[1]]) = Len(errs[e[1]]) + 1
        BY <2>5
      <3> QED
        BY <2>7, <3>1, <3>2, <3>3
    <2>9. \A b \in Batches : Received(b)' = Received(b)
      BY <2>1 DEF Received
    <2>10. \A b \in Batches : Len(errs'[b]) + Received(b) = Cardinality(SentIn(pc', b))
      BY <2>4, <2>5, <2>8 DEF CountInv, Reported
    <2> QED
      BY <2>1, <2>4, <2>9, <2>10 DEF CountInv, Reported, InFlight
  <1>10. ASSUME NEW e \in Executables, Release(e) PROVE CountInv'
    <2>1. /\ pc[e] = "releasing" /\ pc' = [pc EXCEPT ![e] = "ended"]
          /\ guard' = [guard EXCEPT ![e[1]] = @ - 1]
          /\ UNCHANGED <<batch, received, errs>>
      BY <1>10 DEF Release, caller
    <2>2. e \in SentIn(pc, e[1]) /\ e \in HeldIn(pc, e[1]) /\ e[1] \in Batches
      BY <2>1, ExecutableParts DEF SentIn, HeldIn
    <2>3. /\ \A b \in Batches : SentIn(pc', b) = SentIn(pc, b)
          /\ \A b \in Batches \ {e[1]} : HeldIn(pc', b) = HeldIn(pc, b)
          /\ HeldIn(pc', e[1]) = HeldIn(pc, e[1]) \ {e}
      <3>1. pc'[e] = "ended" /\ \A u \in Executables \ {e} : pc'[u] = pc[u]
        BY <2>1 DEF TypeInv
      <3>2. SentIn(pc', e[1]) = SentIn(pc, e[1]) /\ HeldIn(pc', e[1]) = HeldIn(pc, e[1]) \ {e}
        <4>1. /\ SentIn(pc', e[1]) = SentIn(pc, e[1]) \cup {e}
              /\ HeldIn(pc', e[1]) = HeldIn(pc, e[1]) \ {e}
          BY <3>1, PartsMove
        <4> QED
          BY <2>2, <4>1
      <3>3. \A b \in Batches \ {e[1]} : SentIn(pc', b) = SentIn(pc, b) /\ HeldIn(pc', b) = HeldIn(pc, b)
        BY <3>1, PartsMove
      <3> QED
        BY <3>2, <3>3
    <2>4. guard'[e[1]] = guard[e[1]] - 1 /\ \A b \in Batches \ {e[1]} : guard'[b] = guard[b]
      BY <2>1, <2>2 DEF TypeInv
    <2>5. Cardinality(HeldIn(pc, e[1]) \ {e}) = Cardinality(HeldIn(pc, e[1])) - 1
      BY <2>2, PartsAreFinite, FS_RemoveElement DEF InFlight
    <2>6. guard[e[1]] = Cardinality(HeldIn(pc, e[1])) /\ guard[e[1]] <= MaxInFlight
      BY <2>2 DEF CountInv, InFlight
    <2>7. guard'[e[1]] = Cardinality(HeldIn(pc', e[1])) /\ guard'[e[1]] <= MaxInFlight
      BY <1>1, <1>2, <2>2, <2>3, <2>4, <2>5, <2>6
    <2> QED
      BY <2>1, <2>3, <2>4, <2>7 DEF CountInv, Reported, InFlight, Received
  <1>11. CASE RunReturns \/ UNCHANGED vars
    BY <1>7, <1>11 DEF RunReturns, caller, vars
  <1> QED
    BY <1>4, <1>5, <1>6, <1>8, <1>9, <1>10, <1>11 DEF Next, Caller, Goroutine

\* Every step keeps the account of the errors.
LEMMA NextFailureInv == TypeInv /\ OrderInv /\ CountInv /\ FailureInv /\ [Next]_vars => FailureInv'
  <1> SUFFICES ASSUME TypeInv, OrderInv, CountInv, FailureInv, [Next]_vars PROVE FailureInv'
    OBVIOUS
  <1>1. \A b \in Batches : errs[b] \in Seq(Executables) /\ Len(errs[b]) \in Nat
    BY DEF TypeInv, Places
  <1>2. failures \subseteq Executables
    BY DEF TypeInv, Places
  <1>3. ASSUME UNCHANGED <<failures, errs>>, \A b \in Batches : Reported(b)' = Reported(b),
               \A u \in Executables : pc[u] \in {"releasing", "ended"} =>
                   pc'[u] \in {"releasing", "ended"} /\ result'[u] = result[u]
        PROVE  FailureInv'
    <2>1. \A b \in Batches : \A u \in Reported(b) : u \in Executables /\ result'[u] = result[u]
      BY <1>3, ExecutableParts DEF Reported, SentIn
    <2> QED
      BY <1>2, <1>3, <2>1 DEF FailureInv
  <1>4. CASE Dispatch
    <2>1. PICK d \in Executables : d = <<batch, dispatched + 1>> /\ d[1] = batch /\ d[2] > dispatched
      <3>1. batch \in Nat /\ dispatched \in Nat /\ batch \in Batches /\ dispatched < BatchSizes[batch]
        BY <1>4 DEF Dispatch, TypeInv
      <3> QED
        <4>1. /\ <<batch, dispatched + 1>> \in Executables
              /\ <<batch, dispatched + 1>>[1] = batch /\ <<batch, dispatched + 1>>[2] > dispatched
          BY <3>1, BatchesAre DEF Executables, ExecutablesOf
        <4> QED
          BY <4>1
    <2>2. pc' = [pc EXCEPT ![d] = "executing"] /\ UNCHANGED <<failures, errs, result>>
      BY <1>4, <2>1 DEF Dispatch
    <2>3. pc[d] = "unborn"
      BY <2>1 DEF OrderInv
    <2>4. \A b \in Batches : SentIn(pc', b) = SentIn(pc, b)
      <3>1. d \notin SentIn(pc, d[1])
        BY <2>3 DEF SentIn
      <3>2. pc'[d] = "executing" /\ \A u \in Executables \ {d} : pc'[u] = pc[u]
        BY <2>2 DEF TypeInv
      <3> QED
        BY <3>1, <3>2, PartsMove
    <2> QED
      BY <1>3, <2>1, <2>2, <2>3, <2>4 DEF TypeInv, Reported
  <1>5. CASE Receive
    <2> DEFINE h == Head(errs[batch])
    <2>1. /\ batch \in Batches /\ errs[batch] # <<>>
          /\ failures' = IF result[h] = "failed" THEN failures \cup {h} ELSE failures
          /\ errs' = [errs EXCEPT ![batch] = Tail(@)] /\ UNCHANGED <<pc, result>>
      BY <1>5 DEF Receive
    <2>2. /\ Len(Tail(errs[batch])) = Len(errs[batch]) - 1
          /\ \A i \in 1 .. Len(Tail(errs[batch])) : Tail(errs[batch])[i] = errs[batch][i + 1]
      BY <1>1, <2>1, HeadTailProperties
    <2>3. h = errs[batch][1] /\ Len(errs[batch]) >= 1
      BY <1>1, <2>1, EmptySeq
    <2>4. h \in Reported(batch)
      BY <1>1, <2>1, <2>3 DEF FailureInv
    <2>5. pc[h] \in {"releasing", "ended"}
      BY <2>4 DEF Reported, SentIn
    <2>6. errs'[batch] = Tail(errs[batch]) /\ \A b \in Batches \ {batch} : errs'[b] = errs[b]
      BY <2>1 DEF TypeInv, Places
    <2>7. \A b \in Batches : Reported(b)' = Reported(b)
      BY <2>1 DEF Reported, SentIn
    <2> HIDE DEF h
    <2>8. \A e \in failures' : pc'[e] \in {"releasing", "ended"} /\ result'[e] = "failed"
      BY <2>1, <2>5 DEF FailureInv
    <2>9. \A b \in Batches : \A i \in 1 .. Len(errs'[b]) : errs'[b][i] \in Reported(b)
      <3>1. \A i \in 1 .. Len(Tail(errs[batch])) :
               i + 1 \in 1 .. Len(errs[batch]) /\ Tail(errs[batch])[i] = errs[batch][i + 1]
        BY <1>1, <2>1, <2>2
      <3>2. \A i \in 1 .. Len(Tail(errs[batch])) : Tail(errs[batch])[i] \in Reported(batch)
        BY <2>1, <3>1 DEF FailureInv
      <3> QED
        BY <2>6, <3>2 DEF FailureInv
    <2>10. \A b \in Batches : \A e \in Reported(b) :
              result[e] = "failed" => e \in failures' \/ \E i \in 1 .. Len(errs'[b]) : errs'[b][i] = e
      <3> SUFFICES ASSUME NEW b \in Batches, NEW e \in Reported(b), result[e] = "failed",
                          e \notin failures'
                   PROVE  \E i \in 1 .. Len(errs'[b]) : errs'[b][i] = e
        OBVIOUS
      <3>1. e \notin failures /\ e # h
        BY <2>1
      <3>2. PICK i \in 1 .. Len(errs[b]) : errs[b][i] = e
        BY <3>1 DEF FailureInv
      <3>3. CASE b # batch
        BY <2>6, <3>2, <3>3
      <3>4. CASE b = batch
        <4>1. i # 1
          BY <2>3, <3>1, <3>2, <3>4
        <4>2. i - 1 \in 1 .. Len(Tail(errs[batch])) /\ Tail(errs[batch])[i - 1] = errs[batch][i]
          BY <1>1, <2>1, <2>2, <3>2, <3>4, <4>1
        <4> QED
          BY <2>6, <3>2, <3>4, <4>2
      <3> QED
        BY <3>3, <3>4
    <2>11. \A b \in Batches : \A i \in 1 .. Len(errs'[b]) : errs'[b][i] \in Reported(b)'
      BY <2>7, <2>9
    <2>12. \A b \in Batches : \A e \in Reported(b)' :
              result'[e] = "failed" => e \in failures' \/ \E i \in 1 .. Len(errs'[b]) : errs'[b][i] = e
      <3> SUFFICES ASSUME NEW b \in Batches, NEW e \in Reported(b)', result'[e] = "failed"
                   PROVE  e \in failures' \/ \E i \in 1 .. Len(errs'[b]) : errs'[b][i] = e
        OBVIOUS
      <3>1. e \in Reported(b) /\ result[e] = "failed"
        BY <2>1, <2>7
      <3> QED
        BY <2>10, <3>1
    <2> QED
      BY <2>8, <2>11, <2>12 DEF FailureInv
  <1>6. ASSUME UNCHANGED <<failures, errs, pc, result>> PROVE FailureInv'
    BY <1>3, <1>6 DEF Reported, SentIn
  <1>7. ASSUME NEW e \in Executables, Execute(e) PROVE FailureInv'
    <2>1. /\ pc[e] = "executing" /\ pc' = [pc EXCEPT ![e] = "reporting"]
          /\ UNCHANGED <<failures, errs>>
          /\ \E outcome \in {"ok", "failed"} : result' = [result EXCEPT ![e] = outcome]
      BY <1>7 DEF Execute, caller
    <2>2. \A b \in Batches : SentIn(pc', b) = SentIn(pc, b)
      <3>1. e \notin SentIn(pc, e[1])
        BY <2>1 DEF SentIn
      <3>2. pc'[e] = "reporting" /\ \A u \in Executables \ {e} : pc'[u] = pc[u]
        BY <2>1 DEF TypeInv
      <3>3. SentIn(pc', e[1]) = SentIn(pc, e[1])
        <4>1. SentIn(pc', e[1]) = SentIn(pc, e[1]) \ {e}
          BY <3>2, PartsMove
        <4> QED
          BY <3>1, <4>1
      <3>4. \A b \in Batches \ {e[1]} : SentIn(pc', b) = SentIn(pc, b)
        BY <3>2, PartsMove
      <3> QED
        BY <3>3, <3>4
    <2> QED
      BY <1>3, <2>1, <2>2 DEF TypeInv, Reported
  <1>8. ASSUME NEW e \in Executables, Report(e) PROVE FailureInv'
    <2>1. /\ pc[e] = "reporting" /\ pc' = [pc EXCEPT ![e] = "releasing"]
          /\ errs' = [errs EXCEPT ![e[1]] = Append(@, e)]
          /\ UNCHANGED <<failures, result>>
      BY <1>8 DEF Report, caller
    <2>2. /\ e[1] \in Batches /\ e \in ExecutablesOf(e[1])
          /\ SentIn(pc', e[1]) = SentIn(pc, e[1]) \cup {e}
          /\ \A b \in Batches \ {e[1]} : SentIn(pc', b) = SentIn(pc, b)
      <3>1. pc'[e] = "releasing" /\ \A u \in Executables \ {e} : pc'[u] = pc[u]
        BY <2>1 DEF TypeInv
      <3> QED
        BY <3>1, ExecutableParts, PartsMove
    <2>3. /\ errs'[e[1]] = Append(errs[e[1]], e)
          /\ \A b \in Batches \ {e[1]} : errs'[b] = errs[b]
      BY <2>1, <2>2 DEF TypeInv, Places
    <2>4. /\ Len(errs'[e[1]]) = Len(errs[e[1]]) + 1
          /\ \A i \in 1 .. Len(errs[e[1]]) : errs'[e[1]][i] = errs[e[1]][i]
          /\ errs'[e[1]][Len(errs[e[1]]) + 1] = e
      BY <1>1, <2>2, <2>3, AppendProperties
    <2>5. \A u \in failures' : pc'[u] \in {"releasing", "ended"} /\ result'[u] = "failed"
      BY <1>2, <2>1 DEF FailureInv, TypeInv, Places
    <2>6. \A b \in Batches : \A i \in 1 .. Len(errs'[b]) : errs'[b][i] \in SentIn(pc', b)
      <3> SUFFICES ASSUME NEW b \in Batches, NEW i \in 1 .. Len(errs'[b])
                   PROVE  errs'[b][i] \in SentIn(pc', b)
        OBVIOUS
      <3>1. CASE b # e[1]
        BY <2>2, <2>3, <3>1 DEF FailureInv, Reported
      <3>2. CASE b = e[1] /\ i = Len(errs[b]) + 1
        BY <2>2, <2>4, <3>2
      <3>3. CASE b = e[1] /\ i # Len(errs[b]) + 1
        <4>1. i \in 1 .. Len(errs[b])
          BY <1>1, <2>4, <3>3
        <4> QED
          BY <2>2, <2>4, <3>3, <4>1 DEF FailureInv, Reported
      <3> QED
        BY <3>1, <3>2, <3>3
    <2>7. \A b \in Batches : \A u \in SentIn(pc', b) :
             result[u] = "failed" => u \in failures \/ \E i \in 1 .. Len(errs'[b]) : errs'[b][i] = u
      <3> SUFFICES ASSUME NEW b \in Batches, NEW u \in SentIn(pc', b), result[u] = "failed",
                          u \notin failures
                   PROVE  \E i \in 1 .. Len(errs'[b]) : errs'[b][i] = u
        OBVIOUS
      <3>1. CASE b # e[1]
        BY <2>2, <2>3, <3>1 DEF FailureInv, Reported
      <3>2. CASE b = e[1] /\ u = e
        BY <1>1, <2>4, <3>2
      <3>3. CASE b = e[1] /\ u # e
        <4>1. PICK i \in 1 .. Len(errs[b]) : errs[b][i] = u
          BY <2>2, <3>3 DEF FailureInv, Reported
        <4> QED
          BY <1>1, <2>4, <3>3, <4>1
      <3> QED
        BY <3>1, <3>2, <3>3
    <2>8. /\ \A b \in Batches : \A i \in 1 .. Len(errs'[b]) : errs'[b][i] \in Reported(b)'
          /\ \A b \in Batches : \A u \in Reported(b)' :
                result'[u] = "failed" =>
                    u \in failures' \/ \E i \in 1 .. Len(errs'[b]) : errs'[b][i] = u
      BY <2>1, <2>6, <2>7 DEF Reported
    <2> QED
      BY <2>5, <2>8 DEF FailureInv
  <1>9. ASSUME NEW e \in Executables, Release(e) PROVE FailureInv'
    <2>1. /\ pc[e] = "releasing" /\ pc' = [pc EXCEPT ![e] = "ended"]
          /\ UNCHANGED <<failures, errs, result>>
      BY <1>9 DEF Release, caller
    <2>2. \A b \in Batches : SentIn(pc', b) = SentIn(pc, b)
      <3>1. e \in SentIn(pc, e[1])
        BY <2>1, ExecutableParts DEF SentIn
      <3>2. pc'[e] = "ended" /\ \A u \in Executables \ {e} : pc'[u] = pc[u]
        BY <2>1 DEF TypeInv
      <3>3. SentIn(pc', e[1]) = SentIn(pc, e[1])
        <4>1. SentIn(pc', e[1]) = SentIn(pc, e[1]) \cup {e}
          BY <3>2, PartsMove
        <4> QED
          BY <3>1, <4>1
      <3>4. \A b \in Batches \ {e[1]} : SentIn(pc', b) = SentIn(pc, b)
        BY <3>2, PartsMove
      <3> QED
        BY <3>3, <3>4
    <2> QED
      BY <1>3, <2>1, <2>2 DEF TypeInv, Reported
  <1>10. CASE NextBatch \/ RunReturns \/ UNCHANGED vars
    BY <1>6, <1>10 DEF NextBatch, RunReturns, caller, vars
  <1> QED
    BY <1>4, <1>5, <1>7, <1>8, <1>9, <1>10 DEF Next, Caller, Goroutine

LEMMA InvHolds == Spec => []Inv
  <1>1. Init => Inv
    BY InitInv
  <1>2. Inv /\ [Next]_vars => Inv'
    BY NextTypeInv, NextOrderInv, NextCountInv, NextFailureInv DEF Inv
  <1> QED
    BY <1>1, <1>2, PTL DEF Spec

-----------------------------------------------------------------------------
(* What follows *)

\* A goroutine that has its result can always send it, and one that has sent it can
\* always take its token back: neither channel ever makes one wait, so none is left
\* behind when the caller has what it counts on.
GoroutinesNeverWait ==
    \A e \in Executables :
        /\ pc[e] = "reporting" => Len(errs[e[1]]) < ErrsCapacity(e[1])
        /\ pc[e] = "releasing" => guard[e[1]] > 0

\* No goroutine of Run ever blocks on errs or on guard.
THEOREM NoGoroutineBlocks == Spec => []GoroutinesNeverWait
  <1>1. Inv => GoroutinesNeverWait
    <2> SUFFICES ASSUME TypeInv, CountInv, NEW e \in Executables
                 PROVE  /\ pc[e] = "reporting" => Len(errs[e[1]]) < ErrsCapacity(e[1])
                        /\ pc[e] = "releasing" => guard[e[1]] > 0
      BY DEF Inv, GoroutinesNeverWait
    <2>1. e[1] \in Batches /\ e \in ExecutablesOf(e[1])
      BY ExecutableParts
    <2>2. /\ BatchSizes[e[1]] \in Nat /\ Len(errs[e[1]]) \in Nat /\ guard[e[1]] \in Nat
          /\ Received(e[1]) \in Nat
      BY <2>1, BatchesAre DEF TypeInv, Received
    <2>3. CASE pc[e] = "reporting"
      <3>1. Reported(e[1]) # ExecutablesOf(e[1])
        BY <2>1, <2>3 DEF Reported, SentIn
      <3>2. /\ Cardinality(Reported(e[1])) \in Nat
            /\ Cardinality(Reported(e[1])) <= BatchSizes[e[1]]
            /\ Cardinality(Reported(e[1])) # BatchSizes[e[1]]
        BY <2>1, <3>1, PartsAreFinite
      <3>3. Len(errs[e[1]]) + Received(e[1]) = Cardinality(Reported(e[1]))
        BY <2>1 DEF CountInv
      <3>4. Len(errs[e[1]]) < BatchSizes[e[1]]
        BY <2>2, <3>2, <3>3
      <3> QED
        BY <2>3, <3>4 DEF ErrsCapacity
    <2>4. CASE pc[e] = "releasing"
      <3>1. e \in InFlight(e[1])
        BY <2>1, <2>4 DEF InFlight, HeldIn
      <3>2. Cardinality(InFlight(e[1])) # 0
        BY <2>1, <3>1, PartsAreFinite, FS_EmptySet
      <3>3. guard[e[1]] = Cardinality(InFlight(e[1]))
        BY <2>1 DEF CountInv
      <3> QED
        BY <2>2, <2>4, <3>2, <3>3
    <2> QED
      BY <2>3, <2>4
  <1> QED
    BY <1>1, InvHolds, PTL

\* The executables under way.
UnderWay == {e \in Executables : pc[e] = "executing"}

\* Never more executables under way than maxInFlight, whatever the goroutines of the
\* earlier batches still have to do: theirs are all executed.
THEOREM InFlightIsBounded == Spec => [](IsFiniteSet(UnderWay) /\ Cardinality(UnderWay) <= MaxInFlight)
  <1>1. Inv => IsFiniteSet(UnderWay) /\ Cardinality(UnderWay) <= MaxInFlight
    <2> SUFFICES ASSUME TypeInv, OrderInv, CountInv
                 PROVE  IsFiniteSet(UnderWay) /\ Cardinality(UnderWay) <= MaxInFlight
      BY DEF Inv
    <2>1. \A e \in UnderWay : e[1] = batch
      <3>1. \A e \in UnderWay : e \in Executables /\ ~(e[1] < batch) /\ ~(e[1] > batch)
        BY DEF OrderInv, UnderWay
      <3>2. \A e \in UnderWay : e[1] \in Nat
        BY <3>1, ExecutableParts, BatchesAre
      <3> QED
        BY <3>1, <3>2 DEF TypeInv
    <2>2. CASE UnderWay = {}
      BY <2>2, FS_EmptySet, MaxInFlightAssumption
    <2>3. CASE UnderWay # {}
      <3>1. batch \in Batches
        BY <2>1, <2>3, ExecutableParts DEF UnderWay
      <3>2. UnderWay \subseteq InFlight(batch)
        BY <2>1, ExecutableParts DEF UnderWay, InFlight, HeldIn
      <3>3. IsFiniteSet(UnderWay) /\ Cardinality(UnderWay) <= Cardinality(InFlight(batch))
        BY <3>1, <3>2, PartsAreFinite, FS_Subset
      <3>4. Cardinality(InFlight(batch)) <= MaxInFlight
        BY <3>1 DEF CountInv
      <3>5. Cardinality(UnderWay) \in Nat /\ Cardinality(InFlight(batch)) \in Nat
        BY <3>1, <3>3, PartsAreFinite, FS_CardinalityType
      <3> QED
        BY <3>3, <3>4, <3>5, MaxInFlightAssumption
    <2> QED
      BY <2>2, <2>3
  <1> QED
    BY <1>1, InvHolds, PTL

-----------------------------------------------------------------------------
(* The promise of Run *)

\* The promise speaks of the same executables.
LEMMA SameExecutables ==
    /\ Promise!Batches = Batches /\ Promise!Executables = Executables
    /\ \A b \in Batches : Promise!ExecutablesOf(b) = ExecutablesOf(b)
  BY DEF Promise!Batches, Promise!Executables, Promise!ExecutablesOf, Batches, Executables,
         ExecutablesOf

\* What a client sees of an executable whose goroutine is somewhere.
LEMMA StatusIs ==
    ASSUME NEW e \in Executables
    PROVE  /\ pc[e] = "unborn" => Status[e] = "waiting"
           /\ pc[e] = "executing" => Status[e] = "running"
           /\ pc[e] \notin {"unborn", "executing"} => Status[e] = result[e]
  BY DEF Status

\* A step in which neither the places before Execute's return nor a result changes shows
\* a client nothing.
LEMMA StatusStays ==
    ASSUME UNCHANGED result,
           \A e \in Executables : \/ pc'[e] = pc[e]
                                  \/ pc[e] \notin {"unborn", "executing"} /\ pc'[e] \notin {"unborn", "executing"}
    PROVE  Status' = Status
  <1>1. \A e \in Executables : Status'[e] = Status[e]
    BY DEF Status
  <1> QED
    BY <1>1 DEF Status

\* Batches the caller has left are finished.
LEMMA PastIsFinished ==
    ASSUME TypeInv, OrderInv, NEW b \in Batches, b < batch
    PROVE  Promise!Finished(b)
  <1>1. \A e \in ExecutablesOf(b) : e \in Executables /\ e[1] = b
    BY ExecutableParts
  <1>2. \A e \in ExecutablesOf(b) : pc[e] \in {"releasing", "ended"} /\ result[e] \in {"ok", "failed"}
    BY <1>1 DEF OrderInv
  <1>3. \A e \in ExecutablesOf(b) : Status[e] \in {"ok", "failed"}
    BY <1>1, <1>2, StatusIs
  <1> QED
    BY <1>3, SameExecutables DEF Promise!Finished

\* Dispatch is the promise's Begin.
LEMMA DispatchBegins ==
    ASSUME TypeInv, OrderInv, Dispatch
    PROVE  \E e \in Promise!Executables : Promise!Begin(e)
  <1>1. PICK d \in Executables : d = <<batch, dispatched + 1>> /\ d[1] = batch /\ d[2] > dispatched
    <2>1. batch \in Nat /\ dispatched \in Nat /\ batch \in Batches /\ dispatched < BatchSizes[batch]
      BY DEF Dispatch, TypeInv
    <2>2. /\ <<batch, dispatched + 1>> \in Executables
          /\ <<batch, dispatched + 1>>[1] = batch /\ <<batch, dispatched + 1>>[2] > dispatched
      BY <2>1, BatchesAre DEF Executables, ExecutablesOf
    <2> QED
      BY <2>2
  <1>2. pc' = [pc EXCEPT ![d] = "executing"] /\ UNCHANGED <<result, failures, returned>>
    BY <1>1 DEF Dispatch
  <1>3. pc'[d] = "executing" /\ \A u \in Executables \ {d} : pc'[u] = pc[u]
    BY <1>2 DEF TypeInv
  <1>4. pc[d] = "unborn"
    BY <1>1 DEF OrderInv
  <1>5. Status[d] = "waiting"
    BY <1>4, StatusIs
  <1>6. \A b \in 1 .. (d[1] - 1) : Promise!Finished(b)
    <2>1. d[1] \in Batches /\ d[1] = batch
      BY <1>1, ExecutableParts
    <2>2. \A b \in 1 .. (d[1] - 1) : b \in Batches /\ b < batch
      BY <2>1, BatchesAre, BatchSizesAssumption
    <2> QED
      BY <2>2, PastIsFinished
  <1>7. Status' = [Status EXCEPT ![d] = "running"]
    <2>1. Status'[d] = "running" /\ \A u \in Executables \ {d} : Status'[u] = Status[u]
      BY <1>2, <1>3 DEF Status
    <2> QED
      BY <2>1 DEF Status
  <1>8. Promise!Begin(d)
    BY <1>2, <1>5, <1>6, <1>7 DEF Promise!Begin
  <1> QED
    BY <1>8, SameExecutables

\* Execute is its End.
LEMMA ExecuteEnds ==
    ASSUME TypeInv, NEW e \in Executables, Execute(e)
    PROVE  Promise!End(e)
  <1>1. PICK outcome \in {"ok", "failed"} : result' = [result EXCEPT ![e] = outcome]
    BY DEF Execute
  <1>2. /\ pc[e] = "executing" /\ pc' = [pc EXCEPT ![e] = "reporting"]
        /\ UNCHANGED <<failures, returned>>
    BY DEF Execute, caller
  <1>3. /\ pc'[e] = "reporting" /\ \A u \in Executables \ {e} : pc'[u] = pc[u]
        /\ result'[e] = outcome /\ \A u \in Executables \ {e} : result'[u] = result[u]
    BY <1>1, <1>2 DEF TypeInv
  <1>4. Status[e] = "running"
    BY <1>2, StatusIs
  <1>5. Status' = [Status EXCEPT ![e] = outcome]
    <2>1. Status'[e] = outcome /\ \A u \in Executables \ {e} : Status'[u] = Status[u]
      BY <1>3 DEF Status
    <2> QED
      BY <2>1 DEF Status
  <1> QED
    BY <1>2, <1>4, <1>5 DEF Promise!End

\* RunReturns is its Return: every batch is finished, and the list of errors is that of
\* all the executables that failed.
LEMMA RunReturnsReturns ==
    ASSUME Inv, RunReturns
    PROVE  Promise!Return
  <1> USE DEF Inv
  <1>1. batch = Len(BatchSizes) + 1 /\ ~returned /\ returned' /\ UNCHANGED <<failures, pc, result>>
    BY DEF RunReturns, caller
  <1>2. \A b \in Batches : b < batch /\ Received(b) = BatchSizes[b]
    BY <1>1, BatchesAre, BatchSizesAssumption DEF Received
  <1>3. \A b \in Batches : Promise!Finished(b)
    BY <1>2, PastIsFinished
  <1>4. \A b \in Batches : Reported(b) = ExecutablesOf(b) /\ errs[b] = <<>>
    BY <1>2, BatchIsDone
  <1>5. failures = {e \in Executables : Status[e] = "failed"}
    <2>1. \A e \in failures : e \in Executables /\ Status[e] = "failed"
      BY StatusIs DEF FailureInv, TypeInv
    <2>2. ASSUME NEW e \in Executables, Status[e] = "failed" PROVE e \in failures
      <3>1. e[1] \in Batches /\ e \in Reported(e[1]) /\ errs[e[1]] = <<>>
        BY <1>4, ExecutableParts
      <3>2. pc[e] \in {"releasing", "ended"}
        BY <3>1 DEF Reported, SentIn
      <3>3. result[e] = "failed"
        BY <2>2, <3>2, StatusIs
      <3>4. ~ \E i \in 1 .. Len(errs[e[1]]) : errs[e[1]][i] = e
        BY <3>1
      <3> QED
        BY <3>1, <3>3, <3>4 DEF FailureInv
    <2> QED
      BY <2>1, <2>2
  <1>6. Status' = Status
    BY <1>1, StatusStays
  <1> QED
    BY <1>1, <1>3, <1>5, <1>6, SameExecutables DEF Promise!Return

\* The executor keeps the promise of Run, for any batches and any maxInFlight: each
\* executable executed once, batch after batch whatever fails, and the failures returned
\* exactly those there were.
THEOREM KeepsThePromise == Spec => ImplementsBatchRun
  <1>1. Init => Promise!Init
    <2> SUFFICES ASSUME Init PROVE Promise!Init
      OBVIOUS
    <2>1. Status = [e \in Executables |-> "waiting"]
      BY DEF Init, Status
    <2> QED
      BY <2>1, SameExecutables DEF Init, Promise!Init
  <1>2. Inv /\ [Next]_vars => [Promise!Next]_(Promise!vars)
    <2> SUFFICES ASSUME Inv, [Next]_vars PROVE [Promise!Next]_(Promise!vars)
      OBVIOUS
    <2> USE DEF Inv
    <2>1. CASE Dispatch
      BY <2>1, DispatchBegins DEF Promise!Next
    <2>2. CASE Receive \/ NextBatch
      <3>1. ~returned /\ UNCHANGED <<pc, result, returned>>
        <4>1. batch # Len(BatchSizes) + 1
          BY <2>2, BatchesAre, BatchSizesAssumption DEF Receive, NextBatch
        <4> QED
          BY <2>2, <4>1 DEF Receive, NextBatch, OrderInv
      <3>2. Status' = Status
        BY <3>1, StatusStays
      <3> QED
        BY <3>1, <3>2 DEF Promise!vars
    <2>3. CASE RunReturns
      BY <2>3, RunReturnsReturns DEF Promise!Next
    <2>4. ASSUME NEW e \in Executables, Execute(e) PROVE [Promise!Next]_(Promise!vars)
      BY <2>4, ExecuteEnds, SameExecutables DEF Promise!Next
    <2>5. ASSUME NEW e \in Executables, Report(e) \/ Release(e)
          PROVE  [Promise!Next]_(Promise!vars)
      <3>1. /\ pc[e] \in {"reporting", "releasing"} /\ UNCHANGED <<result, failures, returned>>
            /\ pc' = [pc EXCEPT ![e] = "releasing"] \/ pc' = [pc EXCEPT ![e] = "ended"]
        BY <2>5 DEF Report, Release, caller
      <3>2. /\ pc'[e] \in {"releasing", "ended"}
            /\ \A u \in Executables \ {e} : pc'[u] = pc[u]
        BY <3>1 DEF TypeInv
      <3>3. Status' = Status
        BY <3>1, <3>2, StatusStays
      <3> QED
        BY <3>1, <3>3 DEF Promise!vars
    <2>6. CASE UNCHANGED vars
      BY <2>6 DEF vars, Promise!vars, Status
    <2> QED
      BY <2>1, <2>2, <2>3, <2>4, <2>5, <2>6 DEF Next, Caller, Goroutine
  <1> QED
    BY <1>1, <1>2, InvHolds, PTL DEF Spec, ImplementsBatchRun, Promise!Spec

=============================================================================
