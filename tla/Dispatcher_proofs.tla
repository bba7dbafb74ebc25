-------------------------- MODULE Dispatcher_proofs -------------------------
(***************************************************************************)
(* Theorems about Dispatcher: types, exclusive locks, at-least-once        *)
(* delivery, no redelivery without a failure, and order.  They hold for    *)
(* every set of rows, handlers and dispatchers and every batch size; what  *)
(* only holds for one dispatcher, or until something is lost, says so.     *)
(***************************************************************************)
EXTENDS Dispatcher, FiniteSetTheorems, TLAPS

(***************************************************************************)
(* A set of natural numbers has a least element.                           *)
(***************************************************************************)
LEMMA LeastNumber ==
  ASSUME NEW N \in SUBSET Nat, N # {}
  PROVE  \E n \in N : \A m \in N : n <= m
<1>1. PICK n \in N : \A m \in N : <<m, n>> \notin OpToRel(<, Nat)
  BY WFMin, NatLessThanWellFounded, Zenon
<1>2. ASSUME NEW m \in N PROVE ~(m < n)
  <2>1. <<m, n>> \notin OpToRel(<, Nat)
    BY <1>1
  <2>2. m \in Nat /\ n \in Nat
    OBVIOUS
  <2> QED BY <2>1, <2>2, Zenon DEF OpToRel
<1> QED BY <1>2

(***************************************************************************)
(* First picks an entry with the least id: ORDER BY id.                    *)
(***************************************************************************)
LEMMA FirstIsLeast ==
  ASSUME NEW S \in SUBSET Rows, S # {}
  PROVE  First(S) \in S /\ \A q \in S : First(S).id <= q.id
<1> DEFINE ids == {r.id : r \in S}
<1>1. ids \in SUBSET Nat /\ ids # {}
  BY DispatcherAssumption
<1> HIDE DEF ids
<1>2. PICK n \in ids : \A m \in ids : n <= m
  BY <1>1, LeastNumber
<1>3. \E r \in S : \A q \in S : r.id <= q.id
  BY <1>2 DEF ids
<1> QED BY <1>3, Zenon DEF First

-----------------------------------------------------------------------------
(***************************************************************************)
(* What the program counter of a dispatcher says about its claim.          *)
(***************************************************************************)
Shape(p) ==
  /\ IsFiniteSet(p.claim) /\ Cardinality(p.claim) <= BatchSize
  /\ p.locks \in {{}, p.claim}
  /\ p.delivered \subseteq p.claim
  /\ p.pc \in {"timer", "stopped"} => p.claim = {}
  /\ p.pc # "claim" => p.todo = {}
  /\ p.pc = "claim" => p.locks = p.claim /\ p.delivered = {}
  /\ p.pc = "publish" => p.delivered # p.claim

(***************************************************************************)
(* The type invariant, as far as it is inductive.                          *)
(***************************************************************************)
TableOK ==
  /\ rows \subseteq Rows /\ dispatched \subseteq rows
  /\ ghosts \subseteq [locks : SUBSET rows, marks : SUBSET rows]

AtOK ==
  /\ at \in [Dispatchers -> Processes]
  /\ \A d \in Dispatchers : Shape(at[d]) /\ at[d].todo \cup at[d].claim \subseteq rows

BusOK == handled \in [Handlers -> SUBSET rows]

CountersOK ==
  /\ faults \in Nat /\ losses \in Nat
  /\ faults + losses <= MaxFailures /\ losses <= MaxLosses

Typed == TableOK /\ AtOK /\ BusOK /\ CountersOK

(***************************************************************************)
(* Idle processes.                                                         *)
(***************************************************************************)
Idle(p) == p.todo = {} /\ p.claim = {} /\ p.locks = {} /\ p.delivered = {}

(***************************************************************************)
(* A process that starts has no entry.                                     *)
(***************************************************************************)
LEMMA StartedIsIdle ==
  ASSUME NEW k \in BOOLEAN
  PROVE  Started(k) \in Processes /\ Idle(Started(k)) /\ Started(k).pc = "timer"
BY DEF Started, Processes, Idle

(***************************************************************************)
(* A dispatcher without entries is in shape.                               *)
(***************************************************************************)
LEMMA IdleHasShape ==
  ASSUME NEW p \in Processes, Idle(p), p.pc \in {"timer", "stopped"}
  PROVE  Shape(p)
BY FS_EmptySet, DispatcherAssumption DEF Idle, Shape

(***************************************************************************)
(* tick leaves nothing of its claim behind when it returns to Run.         *)
(***************************************************************************)
LEMMA ReturnIsIdle ==
  ASSUME Typed, NEW d \in Dispatchers, NEW n, Return(d, n)
  PROVE  /\ at' \in [Dispatchers -> Processes]
         /\ Idle(at'[d]) /\ at'[d].pc = "timer" /\ at'[d].cancelled = at[d].cancelled
         /\ \A e \in Dispatchers : e # d => at'[e] = at[e]
<1>1. at[d] \in Processes
  BY DEF Typed, AtOK
<1>2. WaitAfter(n) \in BOOLEAN
  BY DEF WaitAfter
<1> QED BY <1>1, <1>2 DEF Return, Started, Processes, Idle, Typed, AtOK

(***************************************************************************)
(* Each step of a dispatcher leaves the others alone and its own entries   *)
(* in shape.                                                               *)
(***************************************************************************)
Moved(d) ==
  /\ at' \in [Dispatchers -> Processes]
  /\ \A e \in Dispatchers : e # d => at'[e] = at[e]
  /\ Shape(at'[d])
  /\ at'[d].todo \cup at'[d].claim \subseteq rows

(***************************************************************************)
(* It is enough to look at the dispatcher that moves.                      *)
(***************************************************************************)
LEMMA MovedIsOK ==
  ASSUME AtOK, NEW d \in Dispatchers, Moved(d), rows \subseteq rows'
  PROVE  AtOK'
BY DEF AtOK, Moved, Shape

(***************************************************************************)
(* tick returns.                                                           *)
(***************************************************************************)
LEMMA ReturnMoves ==
  ASSUME Typed, NEW d \in Dispatchers, NEW n, Return(d, n)
  PROVE  Moved(d)
<1>1. at'[d] \in Processes
  BY ReturnIsIdle
<1>2. Shape(at'[d])
  BY <1>1, ReturnIsIdle, IdleHasShape
<1> QED BY <1>2, ReturnIsIdle DEF Moved, Idle

(***************************************************************************)
(* The claim query visits a row: the claim stays within LIMIT.             *)
(***************************************************************************)
LEMMA LockRowMoves ==
  ASSUME Typed, NEW d \in Dispatchers, LockRow(d)
  PROVE  /\ Moved(d)
         /\ First(at[d].todo) \in at[d].todo
<1> DEFINE r == First(at[d].todo)
           got == IF Skipped(r) THEN {} ELSE {r}
<1>1. at[d] \in Processes /\ Shape(at[d]) /\ at[d].todo \cup at[d].claim \subseteq rows
  BY DEF Typed, AtOK
<1>2. r \in at[d].todo
  BY <1>1, FirstIsLeast DEF LockRow, Scanned, Processes
<1>3. r \in Rows
  BY <1>1, <1>2 DEF Processes
<1>4. at' = [at EXCEPT ![d].todo = @ \ {r}, ![d].claim = @ \cup got, ![d].locks = @ \cup got]
  BY DEF LockRow
<1> HIDE DEF r
<1>5. IsFiniteSet(at[d].claim \cup got) /\ Cardinality(at[d].claim \cup got) <= BatchSize
  <2>1. IsFiniteSet(at[d].claim) /\ Cardinality(at[d].claim) \in Nat /\ BatchSize \in Nat
    BY <1>1, FS_CardinalityType, DispatcherAssumption DEF Shape
  <2>2. Cardinality(at[d].claim) < BatchSize
    BY <1>1, <2>1 DEF LockRow, Scanned, Shape
  <2>3. IsFiniteSet(at[d].claim \cup {r}) /\ Cardinality(at[d].claim \cup {r}) <= BatchSize
    <3> HIDE DEF got
    <3> QED BY <2>1, <2>2, FS_AddElement
  <2>4. at[d].claim \cup {} = at[d].claim
    OBVIOUS
  <2> QED BY <2>1, <2>2, <2>3, <2>4
<1>6. got \subseteq Rows /\ got \subseteq at[d].todo
  BY <1>2, <1>3
<1> HIDE DEF got
<1>7. /\ at' \in [Dispatchers -> Processes]
      /\ at'[d] = [at[d] EXCEPT !.todo = @ \ {r}, !.claim = @ \cup got, !.locks = @ \cup got]
      /\ \A e \in Dispatchers : e # d => at'[e] = at[e]
  BY <1>1, <1>4, <1>6 DEF Typed, AtOK, Processes
<1>8. Shape(at'[d])
  BY <1>1, <1>5, <1>7 DEF Shape, LockRow, Processes
<1> QED BY <1>1, <1>2, <1>6, <1>7, <1>8 DEF Moved, Processes, r

(***************************************************************************)
(* The steps that leave the entries of the claim as they are.              *)
(***************************************************************************)
LEMMA ControlMoves ==
  ASSUME Typed, NEW d \in Dispatchers,
         \/ Elapse(d) \/ Stop(d) \/ Cancel(d) \/ BeginClaim(d) \/ ClaimReturns(d)
         \/ PublishFails(d) \/ LoseSession(d)
  PROVE  Moved(d)
<1>1. at[d] \in Processes /\ Shape(at[d]) /\ at[d].todo \cup at[d].claim \subseteq rows
  BY DEF Typed, AtOK
<1>2. rows \subseteq Rows
  BY DEF Typed, TableOK
<1>3. CASE Elapse(d)
  BY <1>1, <1>3 DEF Elapse, Moved, Shape, Typed, AtOK, Processes
<1>4. CASE Stop(d)
  BY <1>1, <1>4 DEF Stop, Moved, Shape, Typed, AtOK, Processes
<1>5. CASE Cancel(d)
  BY <1>1, <1>5 DEF Cancel, Moved, Shape, Typed, AtOK, Processes
<1>6. CASE BeginClaim(d)
  BY <1>1, <1>2, <1>6 DEF BeginClaim, StartTick, Pending, Moved, Shape, Typed, AtOK, Processes
<1>7. CASE ClaimReturns(d)
  BY <1>1, <1>7 DEF ClaimReturns, Moved, Shape, Typed, AtOK, Processes
<1>8. CASE PublishFails(d)
  BY <1>1, <1>8 DEF PublishFails, Moved, Shape, Typed, AtOK, Processes
<1>9. CASE LoseSession(d)
  BY <1>1, <1>9 DEF LoseSession, Moved, Shape, Typed, AtOK, Processes
<1> QED BY <1>3, <1>4, <1>5, <1>6, <1>7, <1>8, <1>9

(***************************************************************************)
(* The publish loop has an entry to publish: the first of those left.      *)
(***************************************************************************)
LEMMA EntryIsLeft ==
  ASSUME Typed, NEW d \in Dispatchers, at[d].pc = "publish"
  PROVE  /\ Entry(d) \in at[d].claim \ at[d].delivered
         /\ \A q \in at[d].claim \ at[d].delivered : Entry(d).id <= q.id
         /\ Entry(d) \in rows
<1>1. at[d] \in Processes /\ Shape(at[d]) /\ at[d].claim \subseteq rows
  BY DEF Typed, AtOK
<1>2. at[d].claim \ at[d].delivered \in SUBSET Rows /\ at[d].claim \ at[d].delivered # {}
  BY <1>1 DEF Shape, Processes
<1> QED BY <1>1, <1>2, FirstIsLeast DEF Entry

(***************************************************************************)
(* The publish loop goes on, or ends with the claim.                       *)
(***************************************************************************)
LEMMA PublishOkMoves ==
  ASSUME Typed, NEW d \in Dispatchers, PublishOk(d)
  PROVE  Moved(d)
<1>1. at[d] \in Processes /\ Shape(at[d]) /\ at[d].todo \cup at[d].claim \subseteq rows
  BY DEF Typed, AtOK
<1>2. Entry(d) \in at[d].claim \ at[d].delivered
  BY EntryIsLeft DEF PublishOk
<1>3. at[d].delivered \cup {Entry(d)} \in SUBSET Rows
  BY <1>1, <1>2 DEF Processes
<1> QED BY <1>1, <1>2, <1>3 DEF PublishOk, Moved, Shape, Typed, AtOK, Processes

(***************************************************************************)
(* A process that dies or starts has no entry.                             *)
(***************************************************************************)
LEMMA CrashMoves ==
  ASSUME Typed, NEW d \in Dispatchers, Crash(d) \/ Restart(d)
  PROVE  Moved(d) /\ Idle(at'[d]) /\ at'[d].pc \in {"timer", "stopped"}
<1>1. at[d] \in Processes
  BY DEF Typed, AtOK
<1>2. PICK p \in Processes : /\ Idle(p) /\ p.pc \in {"timer", "stopped"}
                             /\ at' = [at EXCEPT ![d] = p]
  <2>1. CASE Crash(d)
    <3> DEFINE p == [Started(at[d].knowsAll) EXCEPT !.pc = "stopped"]
    <3>1. p \in Processes /\ Idle(p) /\ p.pc = "stopped"
      BY <1>1 DEF Started, Processes, Idle
    <3> QED BY <2>1, <3>1 DEF Crash
  <2>2. CASE Restart(d)
    <3>1. PICK newer \in BOOLEAN : at' = [at EXCEPT ![d] = Started(at[d].knowsAll \/ newer)]
      BY <2>2 DEF Restart
    <3>2. (at[d].knowsAll \/ newer) \in BOOLEAN
      BY <1>1 DEF Processes
    <3> QED BY <3>1, <3>2, StartedIsIdle
  <2> QED BY <2>1, <2>2
<1>3. Idle(at'[d]) /\ at'[d].pc \in {"timer", "stopped"}
  BY <1>2 DEF Typed, AtOK
<1>4. at'[d] \in Processes
  BY <1>2 DEF Typed, AtOK
<1>5. Shape(at'[d])
  BY <1>3, <1>4, IdleHasShape
<1> QED BY <1>2, <1>3, <1>5 DEF Moved, Idle, Typed, AtOK

(***************************************************************************)
(* The actions of one dispatcher.                                          *)
(***************************************************************************)
Acts(d) == Elapse(d) \/ Stop(d) \/ Restart(d) \/ Progress(d) \/ Trouble(d)

(***************************************************************************)
(* What a step of one dispatcher can do to the table, to the handlers and  *)
(* to the counters.                                                        *)
(***************************************************************************)
LEMMA ActsFrame ==
  ASSUME NEW d \in Dispatchers, Acts(d)
  PROVE  /\ rows' = rows
         /\ dispatched' \in {dispatched, dispatched \cup at[d].delivered}
         /\ ghosts' = ghosts \/ \E marks \in {{}, at[d].delivered} : Orphan(d, marks)
         /\ \/ handled' = handled
            \/ \E s \in SUBSET Handlers : at[d].pc = "publish" /\ Handled(Entry(d), s)
         /\ Fine \/ Fault \/ Loss
BY DEF Acts, Progress, Trouble, Elapse, Stop, Restart, BeginClaim, LockRow, FoundNothing,
       ClaimReturns, ScanFails, PublishOk, Release, CommitOk, BeginFails, ClaimFails,
       ClaimCut, PublishFails, LoseSession, CommitFails, CommitCut, Cancel, Crash,
       Inside, RolledBack, table, Marks

(***************************************************************************)
(* Every action of a dispatcher is one of these.                           *)
(***************************************************************************)
LEMMA ActsMove ==
  ASSUME Typed, NEW d \in Dispatchers, Acts(d)
  PROVE  Moved(d) /\ rows' = rows
<1>1. Moved(d)
  BY ReturnMoves, LockRowMoves, ControlMoves, PublishOkMoves, CrashMoves
     DEF Acts, Progress, Trouble, BeginFails, FoundNothing, ScanFails, ClaimFails,
         ClaimCut, Release, CommitOk, CommitFails, CommitCut, Settle
<1> QED BY <1>1, ActsFrame

(***************************************************************************)
(* A lost client leaves a ghost of its locks.                              *)
(***************************************************************************)
LEMMA OrphanOK ==
  ASSUME Typed, NEW d \in Dispatchers, NEW marks \in SUBSET rows, Orphan(d, marks)
  PROVE  ghosts' \subseteq [locks : SUBSET rows, marks : SUBSET rows]
<1>1. at[d].locks \subseteq rows
  BY DEF Typed, AtOK, Shape
<1> QED BY <1>1 DEF Orphan, Typed, TableOK

(***************************************************************************)
(* The actions of a dispatcher keep the type invariant.                    *)
(***************************************************************************)
LEMMA ActsTyped ==
  ASSUME Typed, NEW d \in Dispatchers, Acts(d)
  PROVE  Typed'
<1>1. at[d].delivered \subseteq rows
  BY DEF Typed, AtOK, Shape
<1>2. ghosts' \subseteq [locks : SUBSET rows, marks : SUBSET rows]
  BY <1>1, ActsFrame, OrphanOK DEF Typed, TableOK
<1>3. TableOK'
  BY <1>1, <1>2, ActsFrame DEF Typed, TableOK
<1>4. AtOK'
  BY ActsMove, MovedIsOK DEF Typed
<1>5. BusOK'
  <2>1. CASE handled' = handled
    BY <2>1, ActsFrame DEF Typed, BusOK
  <2>2. CASE \E s \in SUBSET Handlers : at[d].pc = "publish" /\ Handled(Entry(d), s)
    BY <2>2, ActsFrame, EntryIsLeft DEF Handled, Typed, BusOK
  <2> QED BY <2>1, <2>2, ActsFrame
<1>6. CountersOK'
  BY ActsFrame, DispatcherAssumption DEF Fine, Fault, Loss, Failure, Typed, CountersOK
<1> QED BY <1>3, <1>4, <1>5, <1>6 DEF Typed

(***************************************************************************)
(* The type invariant is inductive.                                        *)
(***************************************************************************)
LEMMA TypedInductive ==
  /\ Init => Typed
  /\ Typed /\ [Next]_vars => Typed'
<1>1. ASSUME Init PROVE Typed
  <2>1. \A d \in Dispatchers : at[d] \in Processes /\ Idle(at[d]) /\ at[d].pc = "timer"
    BY <1>1, StartedIsIdle DEF Init
  <2>2. AtOK
    BY <1>1, <2>1, IdleHasShape DEF Init, AtOK, Idle
  <2> QED BY <1>1, <2>2, DispatcherAssumption DEF Init, Typed, TableOK, BusOK, CountersOK
<1>2. ASSUME Typed, [Next]_vars PROVE Typed'
  <2>1. CASE UNCHANGED vars
    BY <1>2, <2>1 DEF vars, table, Typed, TableOK, AtOK, BusOK, CountersOK
  <2>2. ASSUME NEW d \in Dispatchers, Acts(d) PROVE Typed'
    BY <1>2, <2>2, ActsTyped
  <2>3. CASE GhostEnds
    BY <1>2, <2>3 DEF GhostEnds, Fine, Typed, TableOK, AtOK, BusOK, CountersOK
  <2>4. ASSUME NEW batch \in SUBSET (Rows \ rows), Arrive(batch) PROVE Typed'
    <3>1. TableOK'
      BY <1>2, <2>4 DEF Arrive, Typed, TableOK
    <3>2. AtOK'
      BY <1>2, <2>4 DEF Arrive, Typed, AtOK
    <3> QED BY <1>2, <2>4, <3>1, <3>2 DEF Arrive, Fine, Typed, BusOK, CountersOK
  <2> QED BY <1>2, <2>1, <2>2, <2>3, <2>4 DEF Next, Dispatch, Acts
<1> QED BY <1>1, <1>2

(***************************************************************************)
(* Type correctness.                                                       *)
(***************************************************************************)
THEOREM Typing == Spec => []TypeOK
<1>1. ASSUME Typed PROVE TypeOK
  <2>1. \A d \in Dispatchers : ProcessOK(at[d])
    BY <1>1 DEF Typed, AtOK, Shape, ProcessOK
  <2>2. DOMAIN at = Dispatchers
    BY <1>1 DEF Typed, AtOK
  <2>3. faults + losses \in 0..MaxFailures /\ losses \in 0..MaxLosses
    BY <1>1, DispatcherAssumption DEF Typed, CountersOK
  <2>4. ghosts \subseteq Ghosts
    BY <1>1 DEF Typed, TableOK, Ghosts
  <2> QED BY <1>1, <2>1, <2>2, <2>3, <2>4 DEF Typed, TableOK, BusOK, TypeOK
<1> QED BY <1>1, TypedInductive, PTL DEF Spec

-----------------------------------------------------------------------------
(***************************************************************************)
(* What a step of one dispatcher does to the locks: it keeps them, drops   *)
(* them with the transaction, leaves them to a ghost, or locks a row.      *)
(***************************************************************************)
LEMMA LockEffects ==
  ASSUME Typed, NEW d \in Dispatchers, Acts(d)
  PROVE  \/ ghosts' = ghosts /\ at'[d].locks \in {{}, at[d].locks}
         \/ at'[d].locks = {} /\ \E marks \in {{}, at[d].delivered} : Orphan(d, marks)
         \/ LockRow(d)
<1>1. at[d] \in Processes /\ at \in [Dispatchers -> Processes]
  BY DEF Typed, AtOK
<1>2. CASE Elapse(d) \/ Stop(d) \/ Cancel(d) \/ BeginClaim(d) \/ ClaimReturns(d)
  BY <1>1, <1>2 DEF Elapse, Stop, Cancel, BeginClaim, ClaimReturns, Inside, table, Processes
<1>3. CASE PublishOk(d) \/ PublishFails(d)
  BY <1>1, <1>3 DEF PublishOk, PublishFails, table, Processes
<1>4. CASE Restart(d)
  BY <1>1, <1>4, CrashMoves DEF Restart, Inside, table, Idle
<1>5. CASE Crash(d)
  BY <1>1, <1>5, CrashMoves DEF Crash, Idle
<1>6. CASE LoseSession(d)
  BY <1>1, <1>6 DEF LoseSession, Processes
<1>7. CASE BeginFails(d) \/ FoundNothing(d) \/ ScanFails(d) \/ ClaimFails(d) \/ CommitOk(d)
  BY <1>7, ReturnIsIdle DEF BeginFails, FoundNothing, ScanFails, ClaimFails, CommitOk, Settle,
     Inside, table, Idle
<1>8. CASE ClaimCut(d) \/ Release(d) \/ CommitFails(d) \/ CommitCut(d)
  BY <1>8, ReturnIsIdle DEF ClaimCut, Release, CommitFails, CommitCut, Settle, RolledBack,
     Marks, Idle
<1> QED BY <1>2, <1>3, <1>4, <1>5, <1>6, <1>7, <1>8 DEF Acts, Progress, Trouble

(***************************************************************************)
(* No two transactions ever hold a lock on the same row.                   *)
(***************************************************************************)
THEOREM LocksAreExclusive == Spec => []LocksExclusive
<1>1. Init => LocksExclusive
  BY StartedIsIdle DEF Init, LocksExclusive, Idle
<1>2. ASSUME Typed, LocksExclusive, [Next]_vars PROVE LocksExclusive'
  <2>1. CASE UNCHANGED vars
    BY <1>2, <2>1 DEF vars, table, LocksExclusive
  <2>2. ASSUME NEW d \in Dispatchers, Acts(d) PROVE LocksExclusive'
    <3>1. \A e \in Dispatchers : e # d => at'[e] = at[e]
      BY <1>2, <2>2, ActsMove DEF Moved
    <3>2. CASE ghosts' = ghosts /\ at'[d].locks \in {{}, at[d].locks}
      BY <1>2, <3>1, <3>2 DEF LocksExclusive
    <3>3. CASE at'[d].locks = {} /\ \E marks \in {{}, at[d].delivered} : Orphan(d, marks)
      BY <1>2, <3>1, <3>3 DEF LocksExclusive, Orphan
    <3>4. CASE LockRow(d)
      <4> DEFINE r == First(at[d].todo)
                 got == IF Skipped(r) THEN {} ELSE {r}
      <4>1. at'[d].locks = at[d].locks \cup got /\ ghosts' = ghosts
        BY <1>2, <3>4 DEF LockRow, Inside, table, Typed, AtOK, Processes
      <4>2. \A x \in got : ~Locked(x)
        BY DEF Skipped
      <4> HIDE DEF got
      <4> QED BY <1>2, <3>1, <4>1, <4>2 DEF Locked, LocksExclusive
    <3> QED BY <1>2, <2>2, <3>2, <3>3, <3>4, LockEffects
  <2>3. CASE GhostEnds
    BY <1>2, <2>3 DEF GhostEnds, LocksExclusive
  <2>4. ASSUME NEW batch \in SUBSET (Rows \ rows), Arrive(batch) PROVE LocksExclusive'
    BY <1>2, <2>4 DEF Arrive, LocksExclusive
  <2> QED BY <1>2, <2>1, <2>2, <2>3, <2>4 DEF Next, Dispatch, Acts
<1> QED BY <1>1, <1>2, TypedInductive, PTL DEF Spec

-----------------------------------------------------------------------------
(***************************************************************************)
(* Whatever may still be marked has been processed by every handler: the   *)
(* entries a dispatcher counts as delivered, and the rows that a late      *)
(* COMMIT would mark.                                                      *)
(***************************************************************************)
Backed ==
  \A h \in Handlers :
     /\ dispatched \subseteq handled[h]
     /\ \A d \in Dispatchers : at[d].delivered \subseteq handled[h]
     /\ \A g \in ghosts : g.marks \subseteq handled[h]

(***************************************************************************)
(* A published entry has reached every handler.                            *)
(***************************************************************************)
LEMMA PublishOkDelivers ==
  ASSUME Typed, NEW d \in Dispatchers, PublishOk(d)
  PROVE  /\ at'[d].delivered = at[d].delivered \cup {Entry(d)}
         /\ \A h \in Handlers : handled'[h] = handled[h] \cup {Entry(d)}
<1>1. /\ at[d] \in Processes /\ at \in [Dispatchers -> Processes]
      /\ handled \in [Handlers -> SUBSET rows]
  BY DEF Typed, AtOK, BusOK
<1> QED BY <1>1 DEF PublishOk, Handled, Processes

(***************************************************************************)
(* What a step of one dispatcher does to the entries it counts as          *)
(* delivered, and to what the handlers have processed.                     *)
(***************************************************************************)
LEMMA DeliveryEffects ==
  ASSUME Typed, NEW d \in Dispatchers, Acts(d)
  PROVE  /\ \A h \in Handlers : handled[h] \subseteq handled'[h]
         /\ at'[d].delivered \in {{}, at[d].delivered} \/ PublishOk(d)
<1>1. /\ at[d] \in Processes /\ at \in [Dispatchers -> Processes]
      /\ handled \in [Handlers -> SUBSET rows]
  BY DEF Typed, AtOK, BusOK
<1>2. CASE Elapse(d) \/ Stop(d) \/ Cancel(d) \/ BeginClaim(d) \/ ClaimReturns(d)
  BY <1>1, <1>2 DEF Elapse, Stop, Cancel, BeginClaim, ClaimReturns, Inside, table, Processes
<1>3. CASE PublishOk(d)
  BY <1>1, <1>3, PublishOkDelivers DEF PublishOk, table
<1>4. CASE Restart(d)
  BY <1>1, <1>4, CrashMoves DEF Restart, Inside, table, Idle
<1>5. CASE Crash(d)
  BY <1>1, <1>5, CrashMoves DEF Crash, Idle
<1>6. CASE LoseSession(d) \/ LockRow(d)
  BY <1>1, <1>6 DEF LoseSession, LockRow, Inside, table, Processes
<1>7. CASE BeginFails(d) \/ FoundNothing(d) \/ ScanFails(d) \/ ClaimFails(d) \/ CommitOk(d)
  BY <1>7, ReturnIsIdle DEF BeginFails, FoundNothing, ScanFails, ClaimFails, CommitOk, Settle,
     Inside, table, Idle, Marks
<1>8. CASE ClaimCut(d) \/ Release(d) \/ CommitFails(d) \/ CommitCut(d)
  BY <1>8, ReturnIsIdle DEF ClaimCut, Release, CommitFails, CommitCut, Settle, RolledBack,
     Marks, Idle
<1>9. CASE PublishFails(d)
  <2>1. \A h \in Handlers : handled[h] \subseteq handled'[h]
    BY <1>1, <1>9 DEF PublishFails, Handled
  <2> QED BY <1>1, <1>9, <2>1 DEF PublishFails, table, Processes
<1> QED BY <1>2, <1>3, <1>4, <1>5, <1>6, <1>7, <1>8, <1>9 DEF Acts, Progress, Trouble

(***************************************************************************)
(* No step counts as delivered, marks, or leaves to a ghost what a handler *)
(* has not processed.                                                      *)
(***************************************************************************)
LEMMA BackedInductive ==
  /\ Init => Backed
  /\ Typed /\ Backed /\ [Next]_vars => Backed'
<1>1. Init => Backed
  BY StartedIsIdle DEF Init, Backed, Idle
<1>2. ASSUME Typed, Backed, [Next]_vars PROVE Backed'
  <2>1. CASE UNCHANGED vars
    BY <1>2, <2>1 DEF vars, table, Backed
  <2>2. ASSUME NEW d \in Dispatchers, Acts(d), NEW h \in Handlers
        PROVE  /\ dispatched' \subseteq handled'[h]
               /\ \A e \in Dispatchers : at'[e].delivered \subseteq handled'[h]
               /\ \A g \in ghosts' : g.marks \subseteq handled'[h]
    <3>1. \A e \in Dispatchers : e # d => at'[e] = at[e]
      BY <1>2, <2>2, ActsMove DEF Moved
    <3>2. /\ handled[h] \subseteq handled'[h]
          /\ dispatched' \in {dispatched, dispatched \cup at[d].delivered}
      BY <1>2, <2>2, DeliveryEffects, ActsFrame
    <3>3. /\ dispatched \subseteq handled[h]
          /\ \A e \in Dispatchers : at[e].delivered \subseteq handled[h]
          /\ \A g \in ghosts : g.marks \subseteq handled[h]
      BY <1>2 DEF Backed
    <3>4. at'[d].delivered \subseteq handled'[h]
      BY <1>2, <2>2, <3>2, <3>3, DeliveryEffects, PublishOkDelivers
    <3>5. \A g \in ghosts' : g.marks \subseteq handled'[h]
      <4>1. CASE ghosts' = ghosts
        BY <3>2, <3>3, <4>1
      <4>2. CASE \E marks \in {{}, at[d].delivered} : Orphan(d, marks)
        BY <3>2, <3>3, <4>2 DEF Orphan
      <4> QED BY <1>2, <2>2, <4>1, <4>2, ActsFrame
    <3> QED BY <3>1, <3>2, <3>3, <3>4, <3>5
  <2>3. CASE GhostEnds
    BY <1>2, <2>3 DEF GhostEnds, Backed
  <2>4. ASSUME NEW batch \in SUBSET (Rows \ rows), Arrive(batch) PROVE Backed'
    BY <1>2, <2>4 DEF Arrive, Backed
  <2> QED BY <1>2, <2>1, <2>2, <2>3, <2>4 DEF Next, Dispatch, Acts, Backed
<1> QED BY <1>1, <1>2

(***************************************************************************)
(* At-least-once delivery, whatever fails, is lost or commits late.        *)
(***************************************************************************)
THEOREM DeliveredAtLeastOnce == Spec => []AtLeastOnce
<1>1. Backed => AtLeastOnce
  BY DEF Backed, AtLeastOnce
<1> QED BY <1>1, BackedInductive, TypedInductive, PTL DEF Spec

-----------------------------------------------------------------------------
(***************************************************************************)
(* Until something is lost, every dispatcher owns the entries it has.      *)
(***************************************************************************)
Unbroken ==
  losses = 0 =>
    /\ ghosts = {}
    /\ \A d \in Dispatchers : ~at[d].cancelled /\ at[d].locks = at[d].claim

(***************************************************************************)
(* What is lost stays lost.                                                *)
(***************************************************************************)
LEMMA LossesGrow ==
  ASSUME Typed, [Next]_vars, losses' = 0
  PROVE  losses = 0
<1>1. CASE UNCHANGED vars
  BY <1>1 DEF vars
<1>2. ASSUME NEW d \in Dispatchers, Acts(d) PROVE Fine \/ Fault \/ Loss
  BY <1>2, ActsFrame
<1>3. \/ GhostEnds \/ \E batch \in SUBSET (Rows \ rows) : Arrive(batch)
      => Fine
  BY DEF GhostEnds, Arrive
<1> QED BY <1>1, <1>2, <1>3 DEF Next, Dispatch, Acts, Fine, Fault, Loss, Typed, CountersOK

(***************************************************************************)
(* Only a loss parts a dispatcher from its transaction.                    *)
(***************************************************************************)
LEMMA UnbrokenInductive ==
  /\ Init => Unbroken
  /\ Typed /\ Unbroken /\ [Next]_vars => Unbroken'
<1>1. Init => Unbroken
  BY DEF Init, Unbroken, Started
<1>2. ASSUME Typed, Unbroken, [Next]_vars PROVE Unbroken'
  <2> SUFFICES ASSUME losses' = 0
               PROVE  /\ ghosts' = {}
                      /\ \A d \in Dispatchers : ~at'[d].cancelled /\ at'[d].locks = at'[d].claim
    BY DEF Unbroken
  <2>0. /\ losses = 0 /\ ghosts = {}
        /\ \A d \in Dispatchers : ~at[d].cancelled /\ at[d].locks = at[d].claim
    BY <1>2, LossesGrow DEF Unbroken
  <2>1. CASE UNCHANGED vars
    BY <2>0, <2>1 DEF vars, table
  <2>2. ASSUME NEW d \in Dispatchers, Acts(d)
        PROVE  /\ ghosts' = {}
               /\ \A e \in Dispatchers : ~at'[e].cancelled /\ at'[e].locks = at'[e].claim
    <3>1. \A e \in Dispatchers : e # d => at'[e] = at[e]
      BY <1>2, <2>2, ActsMove DEF Moved
    <3>2. at[d] \in Processes /\ at \in [Dispatchers -> Processes] /\ Shape(at[d])
      BY <1>2 DEF Typed, AtOK
    <3>3. ~Loss
      BY <2>0, <1>2 DEF Loss, Typed, CountersOK
    <3>4. ghosts' = {}
      <4>1. ~(ClaimCut(d) \/ CommitCut(d) \/ Crash(d) \/ LoseSession(d))
        BY <2>0, <3>3 DEF ClaimCut, CommitCut, Crash, LoseSession
      <4> QED BY <2>0, <2>2, <4>1 DEF Acts, Progress, Trouble, Elapse, Stop, Restart, BeginClaim,
                LockRow, FoundNothing, ClaimReturns, ScanFails, PublishOk, Release, CommitOk,
                BeginFails, ClaimFails, PublishFails, CommitFails, Cancel, Inside, RolledBack, table
    <3>5. ~at'[d].cancelled /\ at'[d].locks = at'[d].claim
      <4>1. CASE Elapse(d) \/ Stop(d) \/ BeginClaim(d) \/ ClaimReturns(d)
        BY <2>0, <3>2, <4>1 DEF Elapse, Stop, BeginClaim, ClaimReturns, Processes
      <4>2. CASE PublishOk(d) \/ PublishFails(d)
        BY <2>0, <3>2, <4>2 DEF PublishOk, PublishFails, Processes
      <4>3. CASE LockRow(d)
        BY <2>0, <3>2, <4>3 DEF LockRow, Processes
      <4>4. CASE Restart(d)
        <5>1. ~at'[d].cancelled
          BY <3>2, <4>4 DEF Restart, Started
        <5> QED BY <1>2, <4>4, <5>1, CrashMoves DEF Idle
      <4>5. CASE \E n \in {0, Cardinality(at[d].claim)} : Return(d, n)
        BY <1>2, <2>0, <4>5, ReturnIsIdle DEF Idle
      <4>6. ~(CommitCut(d) \/ Crash(d) \/ LoseSession(d) \/ Cancel(d))
        BY <3>3 DEF CommitCut, Crash, LoseSession, Cancel
      <4> QED BY <2>2, <4>1, <4>2, <4>3, <4>4, <4>5, <4>6 DEF Acts, Progress, Trouble, FoundNothing,
                ScanFails, Release, CommitOk, BeginFails, ClaimFails, ClaimCut, CommitFails, Settle
    <3> QED BY <2>0, <3>1, <3>4, <3>5
  <2>3. ~GhostEnds
    BY <2>0 DEF GhostEnds
  <2>4. ASSUME NEW batch \in SUBSET (Rows \ rows), Arrive(batch)
        PROVE  /\ ghosts' = {}
               /\ \A e \in Dispatchers : ~at'[e].cancelled /\ at'[e].locks = at'[e].claim
    BY <2>0, <2>4 DEF Arrive
  <2> QED BY <1>2, <2>1, <2>2, <2>3, <2>4 DEF Next, Dispatch, Acts
<1> QED BY <1>1, <1>2

(***************************************************************************)
(* Claim's contract holds as long as nothing is lost: no two dispatchers   *)
(* have the same entry.  (Run lost_session shows that it does not outlive  *)
(* the transaction behind the claim.)                                      *)
(***************************************************************************)
THEOREM ClaimsExclusiveUntilLoss == Spec => [](losses = 0 => ClaimsExclusive)
<1>1. Unbroken /\ LocksExclusive => (losses = 0 => ClaimsExclusive)
  BY DEF Unbroken, LocksExclusive, ClaimsExclusive
<1> QED BY <1>1, UnbrokenInductive, TypedInductive, LocksAreExclusive, PTL DEF Spec

-----------------------------------------------------------------------------
(***************************************************************************)
(* Until something goes wrong, an entry has been processed only if it is   *)
(* marked or its dispatcher knows of it, and no claim has a marked entry.  *)
(***************************************************************************)
Accounted ==
  faults + losses = 0 =>
    /\ \A d \in Dispatchers : at[d].claim \cap dispatched = {}
    /\ \A h \in Handlers : \A r \in handled[h] :
         r \in dispatched \/ \E d \in Dispatchers : r \in at[d].delivered

(***************************************************************************)
(* What has gone wrong stays so.                                           *)
(***************************************************************************)
LEMMA FaultsGrow ==
  ASSUME Typed, [Next]_vars, faults' + losses' = 0
  PROVE  faults + losses = 0 /\ faults' = faults /\ losses' = losses
<1>1. CASE UNCHANGED vars
  BY <1>1 DEF vars
<1>2. ASSUME NEW d \in Dispatchers, Acts(d) PROVE Fine \/ Fault \/ Loss
  BY <1>2, ActsFrame
<1>3. \/ GhostEnds \/ \E batch \in SUBSET (Rows \ rows) : Arrive(batch)
      => Fine
  BY DEF GhostEnds, Arrive
<1> QED BY <1>1, <1>2, <1>3 DEF Next, Dispatch, Acts, Fine, Fault, Loss, Typed, CountersOK

(***************************************************************************)
(* A step of a dispatcher that nothing goes wrong in.                      *)
(***************************************************************************)
LEMMA FlawlessEffects ==
  ASSUME Typed, Unbroken, NEW d \in Dispatchers, Acts(d), Fine, losses = 0
  PROVE  \/ /\ UNCHANGED <<dispatched, handled>>
            /\ \/ at'[d].claim = at[d].claim /\ at'[d].delivered = at[d].delivered
               \/ at'[d].claim = {} /\ at[d].delivered = {} /\ at'[d].delivered = {}
         \/ LockRow(d)
         \/ PublishOk(d)
         \/ CommitOk(d)
<1>1. at[d] \in Processes /\ at \in [Dispatchers -> Processes] /\ Shape(at[d])
  BY DEF Typed, AtOK
<1>2. ~at[d].cancelled /\ at[d].locks = at[d].claim
  BY DEF Unbroken
<1>3. CASE Elapse(d) \/ Stop(d) \/ BeginClaim(d) \/ ClaimReturns(d)
  BY <1>1, <1>3 DEF Elapse, Stop, BeginClaim, ClaimReturns, Inside, table, Processes
<1>4. CASE Restart(d)
  BY <1>1, <1>4, CrashMoves DEF Restart, Inside, table, Idle, Shape
<1>5. CASE FoundNothing(d) \/ ScanFails(d)
  BY <1>1, <1>5, ReturnIsIdle DEF FoundNothing, ScanFails, Inside, table, Idle, Shape
<1>6. CASE Release(d)
  BY <1>1, <1>6, ReturnIsIdle DEF Release, Settle, RolledBack, Idle
<1>7. ~Fault /\ ~Loss
  BY DEF Fine, Fault, Loss, Typed, CountersOK
<1>8. ~CommitFails(d)
  BY <1>1, <1>2, <1>7 DEF CommitFails, Committable, Shape
<1>9. ~BeginFails(d) /\ ~ClaimFails(d) /\ ~ClaimCut(d) /\ ~PublishFails(d) /\ ~LoseSession(d)
      /\ ~CommitCut(d) /\ ~Cancel(d) /\ ~Crash(d)
  BY <1>2, <1>7 DEF BeginFails, ClaimFails, ClaimCut, PublishFails, LoseSession, CommitCut,
     Cancel, Crash
<1> QED BY <1>3, <1>4, <1>5, <1>6, <1>8, <1>9 DEF Acts, Progress, Trouble

(***************************************************************************)
(* Nothing is forgotten or marked behind a dispatcher's back until         *)
(* something goes wrong: the locks keep others from claiming what is being *)
(* published, and the marks are set before the locks are dropped.          *)
(***************************************************************************)
LEMMA AccountedInductive ==
  /\ Init => Accounted
  /\ Typed /\ Unbroken /\ LocksExclusive /\ Accounted /\ [Next]_vars => Accounted'
<1>1. Init => Accounted
  BY DEF Init, Accounted, Started
<1>2. ASSUME Typed, Unbroken, LocksExclusive, Accounted, [Next]_vars PROVE Accounted'
  <2> SUFFICES ASSUME faults' + losses' = 0
               PROVE  /\ \A d \in Dispatchers : at'[d].claim \cap dispatched' = {}
                      /\ \A h \in Handlers : \A r \in handled'[h] :
                           r \in dispatched' \/ \E d \in Dispatchers : r \in at'[d].delivered
    BY DEF Accounted
  <2>0. /\ faults + losses = 0 /\ losses = 0 /\ ghosts = {} /\ Fine
        /\ \A d \in Dispatchers : at[d].claim \cap dispatched = {}
        /\ \A h \in Handlers : \A r \in handled[h] :
             r \in dispatched \/ \E d \in Dispatchers : r \in at[d].delivered
    BY <1>2, FaultsGrow DEF Accounted, Unbroken, Typed, CountersOK, Fine
  <2>1. CASE UNCHANGED vars
    BY <2>0, <2>1 DEF vars, table
  <2>2. ASSUME NEW d \in Dispatchers, Acts(d)
        PROVE  /\ \A e \in Dispatchers : at'[e].claim \cap dispatched' = {}
               /\ \A h \in Handlers : \A r \in handled'[h] :
                    r \in dispatched' \/ \E e \in Dispatchers : r \in at'[e].delivered
    <3>1. \A e \in Dispatchers : e # d => at'[e] = at[e]
      BY <1>2, <2>2, ActsMove DEF Moved
    <3>2. at[d] \in Processes /\ at \in [Dispatchers -> Processes]
      BY <1>2 DEF Typed, AtOK
    <3>3. CASE /\ UNCHANGED <<dispatched, handled>>
               /\ \/ at'[d].claim = at[d].claim /\ at'[d].delivered = at[d].delivered
                  \/ at'[d].claim = {} /\ at[d].delivered = {} /\ at'[d].delivered = {}
      BY <2>0, <3>1, <3>3
    <3>4. CASE LockRow(d)
      <4> DEFINE r == First(at[d].todo)
                 got == IF Skipped(r) THEN {} ELSE {r}
      <4>1. at'[d].claim = at[d].claim \cup got /\ at'[d].delivered = at[d].delivered
        BY <3>2, <3>4 DEF LockRow, Processes
      <4>2. got \cap dispatched = {}
        BY DEF Skipped
      <4>3. UNCHANGED <<dispatched, handled>>
        BY <3>4 DEF LockRow, Inside, table
      <4> HIDE DEF got
      <4> QED BY <2>0, <3>1, <4>1, <4>2, <4>3
    <3>5. CASE PublishOk(d)
      <4>1. at'[d].claim = at[d].claim /\ dispatched' = dispatched
        BY <3>2, <3>5 DEF PublishOk, table, Processes
      <4> QED BY <1>2, <2>0, <3>1, <3>5, <4>1, PublishOkDelivers
    <3>6. CASE CommitOk(d)
      <4>1. at'[d].claim = {} /\ dispatched' = dispatched \cup at[d].delivered /\ handled' = handled
        BY <1>2, <3>6, ReturnIsIdle DEF CommitOk, Settle, Marks, Idle
      <4>2. \A e \in Dispatchers : e # d => at[e].claim \cap at[d].delivered = {}
        BY <1>2, <2>0 DEF Unbroken, LocksExclusive, Typed, AtOK, Shape
      <4> QED BY <2>0, <3>1, <4>1, <4>2
    <3> QED BY <1>2, <2>0, <2>2, <3>3, <3>4, <3>5, <3>6, FlawlessEffects
  <2>3. ~GhostEnds
    BY <2>0 DEF GhostEnds
  <2>4. ASSUME NEW batch \in SUBSET (Rows \ rows), Arrive(batch)
        PROVE  /\ \A e \in Dispatchers : at'[e].claim \cap dispatched' = {}
               /\ \A h \in Handlers : \A r \in handled'[h] :
                    r \in dispatched' \/ \E e \in Dispatchers : r \in at'[e].delivered
    BY <2>0, <2>4 DEF Arrive
  <2> QED BY <1>2, <2>1, <2>2, <2>3, <2>4 DEF Next, Dispatch, Acts
<1> QED BY <1>1, <1>2

(***************************************************************************)
(* Only failures cause redelivery, however many dispatchers there are.     *)
(***************************************************************************)
THEOREM PublishedOnceWithoutFailure == Spec => OnceWithoutFailure
<1> DEFINE Once == \A d \in Dispatchers :
                     (faults + losses = 0 /\ PublishOk(d)) =>
                       \A h \in Handlers : Entry(d) \notin handled[h]
<1>1. ASSUME Typed, Unbroken, LocksExclusive, Accounted PROVE Once
  <2> SUFFICES ASSUME NEW d \in Dispatchers, faults + losses = 0, PublishOk(d), NEW h \in Handlers
               PROVE  Entry(d) \notin handled[h]
    OBVIOUS
  <2>1. Entry(d) \in at[d].claim \ at[d].delivered
    BY <1>1, EntryIsLeft DEF PublishOk
  <2>2. losses = 0
    BY <1>1 DEF Typed, CountersOK
  <2>3. Entry(d) \notin dispatched
    BY <1>1, <2>1 DEF Accounted
  <2>4. \A e \in Dispatchers : e # d => Entry(d) \notin at[e].delivered
    BY <1>1, <2>1, <2>2 DEF Unbroken, LocksExclusive, Typed, AtOK, Shape
  <2> QED BY <1>1, <2>1, <2>3, <2>4 DEF Accounted
<1>2. Typed /\ Unbroken /\ LocksExclusive /\ Accounted => [Once]_vars
  BY <1>1
<1> QED BY <1>2, AccountedInductive, UnbrokenInductive, TypedInductive, LocksAreExclusive,
           PTL DEF Spec, OnceWithoutFailure

-----------------------------------------------------------------------------
(***************************************************************************)
(* Order.  Rows have one id each, and what has arrived behind a row of its *)
(* stream has a larger one.                                                *)
(***************************************************************************)
Before(q, r) == SameStream(q, r) /\ q.id < r.id

UniqueIds == \A r, q \in rows : r.id = q.id => r = q

(***************************************************************************)
(* A set of entries that has, with each row, every earlier row of its      *)
(* stream in T.                                                            *)
(***************************************************************************)
Closed(S, T) == \A r \in S : \A q \in T : Before(q, r) => q \in S

(***************************************************************************)
(* The claim of a dispatcher that has the outbox to itself: no gap between *)
(* the marked rows and the claim, nor between the claim and what its query *)
(* has still to visit, and it publishes from the front.                    *)
(***************************************************************************)
InOrder(p) ==
  /\ (p.todo \cup p.claim) \cap dispatched = {}
  /\ Closed(p.todo \cup p.claim \cup dispatched, rows)
  /\ Closed(p.claim \cup dispatched, rows)
  /\ \A c \in p.claim, t \in p.todo : c.id <= t.id
  /\ \A r \in p.delivered, q \in p.claim \ p.delivered : r.id <= q.id

Sorted(d) ==
  losses = 0 =>
    /\ Closed(dispatched, rows)
    /\ \A h \in Handlers : Closed(handled[h], rows)
    /\ InOrder(at[d])

(***************************************************************************)
(* The bigserial draws no id twice.                                        *)
(***************************************************************************)
LEMMA UniqueIdsInductive ==
  /\ Init => UniqueIds
  /\ UniqueIds /\ Typed /\ [Next]_vars => UniqueIds'
<1>1. Init => UniqueIds
  BY DEF Init, UniqueIds
<1>2. ASSUME UniqueIds, Typed, [Next]_vars PROVE UniqueIds'
  <2>1. CASE rows' = rows
    BY <1>2, <2>1 DEF UniqueIds
  <2>2. ASSUME NEW batch \in SUBSET (Rows \ rows), Arrive(batch) PROVE UniqueIds'
    BY <1>2, <2>2 DEF Arrive, UniqueIds
  <2> QED BY <1>2, <2>1, <2>2, ActsMove DEF Next, Dispatch, Acts, GhostEnds, vars, table
<1> QED BY <1>1, <1>2

(***************************************************************************)
(* Rows that arrive come behind those of their stream.                     *)
(***************************************************************************)
LEMMA ArriveKeepsClosed ==
  ASSUME Typed, NEW batch \in SUBSET (Rows \ rows), Arrive(batch),
         NEW S \in SUBSET rows, Closed(S, rows)
  PROVE  Closed(S, rows')
<1> SUFFICES ASSUME NEW r \in S, NEW q \in rows', Before(q, r) PROVE q \in S
  BY DEF Closed, Before, SameStream
<1>1. CASE q \in rows
  BY <1>1 DEF Closed
<1>2. CASE q \in batch
  <2>1. r.id < q.id
    BY <1>2 DEF Arrive, Before, SameStream
  <2>2. r.id \in Nat /\ q.id \in Nat
    BY <1>2, DispatcherAssumption DEF Typed, TableOK
  <2> QED BY <2>1, <2>2 DEF Before
<1> QED BY <1>1, <1>2 DEF Arrive

(***************************************************************************)
(* The claim takes the next row in the order of the ids, or one that it    *)
(* has already.                                                            *)
(***************************************************************************)
LEMMA LockRowInOrder ==
  ASSUME Typed, Unbroken, losses = 0, NEW d, Dispatchers = {d}, LockRow(d), InOrder(at[d])
  PROVE  InOrder(at[d])'
<1> DEFINE r == First(at[d].todo)
           got == IF Skipped(r) THEN {} ELSE {r}
<1>1. at[d] \in Processes /\ at \in [Dispatchers -> Processes] /\ Shape(at[d])
      /\ rows \subseteq Rows /\ dispatched \subseteq rows
      /\ at[d].todo \cup at[d].claim \subseteq rows
  BY DEF Typed, AtOK, TableOK
<1>2. r \in at[d].todo /\ \A q \in at[d].todo : r.id <= q.id
  BY <1>1, FirstIsLeast DEF LockRow, Scanned, Processes
<1>3. /\ at'[d].todo = at[d].todo \ {r}
      /\ at'[d].claim = at[d].claim \cup got
      /\ at'[d].delivered = at[d].delivered /\ at[d].delivered = {}
      /\ UNCHANGED <<rows, dispatched>>
  BY <1>1 DEF LockRow, Inside, table, Processes, Shape
<1>4. got = {} => r \in at[d].claim
  BY <1>1, <1>2 DEF Skipped, Locked, Unbroken, InOrder
<1>5. got \subseteq {r}
  OBVIOUS
<1>6. \A q \in Rows : q.id \in Nat
  BY DispatcherAssumption
<1> HIDE DEF r, got
<1>7. at'[d].todo \cup at'[d].claim = at[d].todo \cup at[d].claim
  BY <1>2, <1>3, <1>4, <1>5
<1>8. Closed(at'[d].claim \cup dispatched, rows)
  <2> SUFFICES ASSUME NEW x \in at'[d].claim \cup dispatched, NEW q \in rows, Before(q, x)
               PROVE  q \in at'[d].claim \cup dispatched
    BY DEF Closed
  <2>1. CASE x \in at[d].claim \cup dispatched
    BY <1>3, <2>1 DEF InOrder, Closed
  <2>2. CASE x = r
    <3>1. q \in at[d].todo \cup at[d].claim \cup dispatched
      BY <1>2, <2>2 DEF InOrder, Closed
    <3>2. q \notin at[d].todo
      BY <1>1, <1>2, <1>6, <2>2 DEF Before
    <3> QED BY <1>3, <3>1, <3>2
  <2> QED BY <1>3, <1>5, <2>1, <2>2
<1>9. \A c \in at'[d].claim, x \in at'[d].todo : c.id <= x.id
  BY <1>2, <1>3, <1>5 DEF InOrder
<1>10. Closed(at'[d].todo \cup at'[d].claim \cup dispatched, rows)
  BY <1>7 DEF InOrder
<1>11. (at'[d].todo \cup at'[d].claim) \cap dispatched = {}
  BY <1>7 DEF InOrder
<1> QED BY <1>3, <1>8, <1>9, <1>10, <1>11 DEF InOrder, Closed, Before, SameStream

(***************************************************************************)
(* When the first entry left of a claim is due, every handler has          *)
(* processed the earlier rows of its stream.                               *)
(***************************************************************************)
LEMMA EntryIsDue ==
  ASSUME Typed, Backed, NEW d \in Dispatchers, at[d].pc = "publish", InOrder(at[d]),
         NEW h \in Handlers, NEW q \in rows, Before(q, Entry(d))
  PROVE  q \in handled[h]
<1>1. /\ Entry(d) \in at[d].claim \ at[d].delivered
      /\ \A x \in at[d].claim \ at[d].delivered : Entry(d).id <= x.id
      /\ Entry(d) \in rows
  BY EntryIsLeft
<1>2. q \in at[d].claim \cup dispatched
  BY <1>1 DEF InOrder, Closed
<1>3. Entry(d).id \in Nat /\ q.id \in Nat
  BY <1>1, DispatcherAssumption DEF Typed, TableOK
<1>4. q \notin at[d].claim \ at[d].delivered
  BY <1>1, <1>3 DEF Before
<1> QED BY <1>2, <1>4 DEF Backed

(***************************************************************************)
(* The marks that a commit adds to those of its stream leave no gap.       *)
(***************************************************************************)
LEMMA DeliveredIsClosed ==
  ASSUME Typed, UniqueIds, NEW d \in Dispatchers, InOrder(at[d]), Closed(dispatched, rows)
  PROVE  Closed(dispatched \cup at[d].delivered, rows)
<1> SUFFICES ASSUME NEW r \in at[d].delivered, NEW q \in rows, Before(q, r)
             PROVE  q \in dispatched \cup at[d].delivered
  BY DEF Closed
<1>1. r \in at[d].claim /\ r \in rows
  BY DEF Typed, AtOK, Shape
<1>2. q \in at[d].claim \cup dispatched
  BY <1>1 DEF InOrder, Closed
<1>3. r.id \in Nat /\ q.id \in Nat
  BY <1>1, DispatcherAssumption DEF Typed, TableOK
<1> QED BY <1>2, <1>3 DEF InOrder, Before

(***************************************************************************)
(* Publishing the first entry left keeps what a handler has processed free *)
(* of gaps.                                                                *)
(***************************************************************************)
LEMMA PublishSorted ==
  ASSUME Typed, Backed, UniqueIds, NEW d \in Dispatchers, at[d].pc = "publish", InOrder(at[d]),
         NEW h \in Handlers, Closed(handled[h], rows),
         NEW s \in SUBSET Handlers, Handled(Entry(d), s)
  PROVE  Closed(handled'[h], rows)
<1>1. handled'[h] \in {handled[h], handled[h] \cup {Entry(d)}}
  BY DEF Handled
<1>2. \A q \in rows : Before(q, Entry(d)) => q \in handled[h]
  BY EntryIsDue
<1> QED BY <1>1, <1>2 DEF Closed

(***************************************************************************)
(* The order survives every step of the dispatcher, failures included: a   *)
(* batch that stops gives up its tail, never its head.                     *)
(***************************************************************************)
LEMMA ActsSorted ==
  ASSUME Typed, Backed, Unbroken, UniqueIds, NEW d, Dispatchers = {d}, Acts(d), losses = 0,
         losses' = 0, Sorted(d)
  PROVE  Sorted(d)'
<1>1. at[d] \in Processes /\ at \in [Dispatchers -> Processes] /\ Shape(at[d])
      /\ rows \subseteq Rows /\ dispatched \subseteq rows /\ rows' = rows
  BY ActsMove DEF Typed, AtOK, TableOK
<1>2. Closed(dispatched, rows) /\ (\A h \in Handlers : Closed(handled[h], rows)) /\ InOrder(at[d])
  BY DEF Sorted
<1>3. ASSUME at'[d].todo = {}, at'[d].claim = {}, at'[d].delivered = {},
             Closed(dispatched', rows), handled' = handled
      PROVE  Sorted(d)'
  <2>1. /\ at'[d].todo \cup at'[d].claim \cup dispatched' = dispatched'
        /\ at'[d].claim \cup dispatched' = dispatched'
    BY <1>3
  <2>2. InOrder(at[d])'
    BY <1>1, <1>3, <2>1 DEF InOrder
  <2> QED BY <1>1, <1>2, <1>3, <2>2 DEF Sorted
<1>4. CASE Elapse(d) \/ Stop(d) \/ Cancel(d)
  <2>1. /\ at'[d].todo = at[d].todo /\ at'[d].claim = at[d].claim
        /\ at'[d].delivered = at[d].delivered
        /\ dispatched' = dispatched /\ handled' = handled
    BY <1>1, <1>4 DEF Elapse, Stop, Cancel, Inside, table, Processes
  <2>2. InOrder(at[d])'
    BY <1>1, <1>2, <2>1 DEF InOrder
  <2> QED BY <1>1, <1>2, <2>1, <2>2 DEF Sorted
<1>5. CASE PublishFails(d)
  <2>1. /\ at'[d].todo = at[d].todo /\ at'[d].claim = at[d].claim
        /\ at'[d].delivered = at[d].delivered
        /\ dispatched' = dispatched
    BY <1>1, <1>5 DEF PublishFails, table, Processes
  <2>2. InOrder(at[d])'
    BY <1>1, <1>2, <2>1 DEF InOrder
  <2>3. \A h \in Handlers : Closed(handled'[h], rows)
    BY <1>2, <1>5, PublishSorted DEF PublishFails
  <2> QED BY <1>1, <1>2, <2>1, <2>2, <2>3 DEF Sorted
<1>6. CASE PublishOk(d)
  <2>1. /\ at'[d].todo = at[d].todo /\ at'[d].claim = at[d].claim
        /\ at'[d].delivered = at[d].delivered \cup {Entry(d)}
        /\ dispatched' = dispatched
    BY <1>1, <1>6 DEF PublishOk, table, Processes
  <2>2. \A q \in at[d].claim \ at[d].delivered : Entry(d).id <= q.id
    BY <1>6, EntryIsLeft DEF PublishOk
  <2>3. InOrder(at[d])'
    BY <1>1, <1>2, <2>1, <2>2 DEF InOrder
  <2>4. \A h \in Handlers : Closed(handled'[h], rows)
    BY <1>2, <1>6, PublishSorted DEF PublishOk
  <2> QED BY <1>1, <1>2, <2>1, <2>3, <2>4 DEF Sorted
<1>7. CASE BeginClaim(d)
  <2>1. /\ at'[d].todo = rows \ dispatched /\ at'[d].claim = {} /\ at'[d].delivered = {}
        /\ dispatched' = dispatched /\ handled' = handled
    BY <1>1, <1>7 DEF BeginClaim, StartTick, Pending, Inside, table, Processes, Shape
  <2>2. Closed(rows, rows)
    BY DEF Closed
  <2>3. /\ at'[d].todo \cup at'[d].claim \cup dispatched = rows
        /\ at'[d].claim \cup dispatched = dispatched
    BY <1>1, <2>1
  <2>4. InOrder(at[d])'
    BY <1>1, <1>2, <2>1, <2>2, <2>3 DEF InOrder
  <2> QED BY <1>1, <1>2, <2>1, <2>4 DEF Sorted
<1>8. CASE LockRow(d)
  <2>1. UNCHANGED <<dispatched, handled>>
    BY <1>8 DEF LockRow, Inside, table
  <2> QED BY <1>1, <1>2, <1>8, <2>1, LockRowInOrder DEF Sorted
<1>9. CASE ClaimReturns(d)
  <2>1. /\ at'[d].todo = {} /\ at'[d].claim = at[d].claim /\ at'[d].delivered = at[d].delivered
        /\ dispatched' = dispatched /\ handled' = handled
    BY <1>1, <1>9 DEF ClaimReturns, Inside, table, Processes
  <2>2. at'[d].todo \cup at'[d].claim \cup dispatched = at[d].claim \cup dispatched
    BY <2>1
  <2>3. InOrder(at[d])'
    BY <1>1, <1>2, <2>1, <2>2 DEF InOrder
  <2> QED BY <1>1, <1>2, <2>1, <2>3 DEF Sorted
<1>10. CASE Restart(d)
  BY <1>1, <1>2, <1>3, <1>10, CrashMoves DEF Restart, Inside, table, Idle
<1>11. CASE BeginFails(d) \/ FoundNothing(d) \/ ScanFails(d) \/ ClaimFails(d) \/ ClaimCut(d)
            \/ Release(d) \/ CommitFails(d) \/ CommitCut(d)
  <2>1. \E n \in {0, Cardinality(at[d].claim)} : Return(d, n)
    BY <1>11 DEF BeginFails, FoundNothing, ScanFails, ClaimFails, ClaimCut, Release, CommitFails,
       CommitCut, Settle
  <2>2. dispatched' = dispatched /\ handled' = handled
    BY <1>11 DEF BeginFails, FoundNothing, ScanFails, ClaimFails, ClaimCut, Release, CommitFails,
       CommitCut, RolledBack, Inside, table
  <2> QED BY <1>2, <1>3, <2>1, <2>2, ReturnIsIdle DEF Idle
<1>12. CASE CommitOk(d)
  <2>1. dispatched' = dispatched \cup at[d].delivered /\ handled' = handled
    BY <1>12 DEF CommitOk, Marks
  <2>2. Closed(dispatched', rows)
    BY <1>2, <2>1, DeliveredIsClosed
  <2> QED BY <1>3, <1>12, <2>1, <2>2, ReturnIsIdle DEF CommitOk, Settle, Idle
<1>13. ~LoseSession(d) /\ ~Crash(d)
  BY DEF LoseSession, Crash, Loss, Typed, CountersOK
<1> QED
  BY <1>4, <1>5, <1>6, <1>7, <1>8, <1>9, <1>10, <1>11, <1>12, <1>13 DEF Acts, Progress, Trouble

(***************************************************************************)
(* The order survives the rows that arrive.                                *)
(***************************************************************************)
LEMMA ArriveSorted ==
  ASSUME Typed, NEW d \in Dispatchers, Sorted(d), losses = 0,
         NEW batch \in SUBSET (Rows \ rows), Arrive(batch)
  PROVE  Sorted(d)'
<1>1. dispatched \subseteq rows /\ handled \in [Handlers -> SUBSET rows]
      /\ at[d].todo \cup at[d].claim \subseteq rows
  BY DEF Typed, TableOK, BusOK, AtOK
<1>2. at' = at /\ dispatched' = dispatched /\ handled' = handled
  BY DEF Arrive
<1>3. Closed(dispatched, rows')
  BY <1>1, ArriveKeepsClosed DEF Sorted
<1>4. \A h \in Handlers : Closed(handled[h], rows')
  BY <1>1, ArriveKeepsClosed DEF Sorted
<1>5. InOrder(at[d])'
  <2>1. Closed(at[d].todo \cup at[d].claim \cup dispatched, rows')
    BY <1>1, ArriveKeepsClosed DEF Sorted, InOrder
  <2>2. Closed(at[d].claim \cup dispatched, rows')
    BY <1>1, ArriveKeepsClosed DEF Sorted, InOrder
  <2> QED BY <1>2, <2>1, <2>2 DEF Sorted, InOrder
<1> QED BY <1>2, <1>3, <1>4, <1>5 DEF Sorted

(***************************************************************************)
(* The order is inductive.                                                 *)
(***************************************************************************)
LEMMA SortedInductive ==
  ASSUME NEW d, Dispatchers = {d}
  PROVE  /\ Init => Sorted(d)
         /\ Typed /\ Backed /\ Unbroken /\ UniqueIds /\ Sorted(d) /\ [Next]_vars => Sorted(d)'
<1>1. Init => Sorted(d)
  BY DEF Init, Sorted, Closed, InOrder, Started
<1>2. ASSUME Typed, Backed, Unbroken, UniqueIds, Sorted(d), [Next]_vars PROVE Sorted(d)'
  <2> SUFFICES ASSUME losses' = 0 PROVE Sorted(d)'
    BY DEF Sorted
  <2>0. losses = 0
    BY <1>2, LossesGrow
  <2>1. CASE UNCHANGED vars
    BY <1>2, <2>1 DEF vars, table, Sorted, InOrder
  <2>2. CASE Acts(d)
    BY <1>2, <2>0, <2>2, ActsSorted
  <2>3. ~GhostEnds
    BY <1>2, <2>0 DEF GhostEnds, Unbroken
  <2>4. ASSUME NEW batch \in SUBSET (Rows \ rows), Arrive(batch) PROVE Sorted(d)'
    BY <1>2, <2>0, <2>4, ArriveSorted
  <2> QED BY <1>2, <2>1, <2>2, <2>3, <2>4 DEF Next, Dispatch, Acts
<1> QED BY <1>1, <1>2

(***************************************************************************)
(* A dispatcher that has the outbox to itself publishes and marks each     *)
(* stream in order until a session is lost, whatever fails and whatever    *)
(* the size of its batches.                                                *)
(***************************************************************************)
THEOREM NoneOvertaken ==
  ASSUME NEW d, Dispatchers = {d}
  PROVE  Spec => [](losses = 0 => NoOvertaking)
<1>1. Sorted(d) => (losses = 0 => NoOvertaking)
  BY DEF Sorted, Closed, Before, SameStream, NoOvertaking
<1> QED BY <1>1, SortedInductive, UniqueIdsInductive, UnbrokenInductive, BackedInductive,
           TypedInductive, PTL DEF Spec

(***************************************************************************)
(* Under the same conditions the marked rows of a stream are its head.     *)
(***************************************************************************)
THEOREM MarkedInOrder ==
  ASSUME NEW d, Dispatchers = {d}
  PROVE  Spec => [](losses = 0 => DispatchedInOrder)
<1>1. Sorted(d) => (losses = 0 => DispatchedInOrder)
  BY DEF Sorted, Closed, Before, SameStream, DispatchedInOrder
<1> QED BY <1>1, SortedInductive, UniqueIdsInductive, UnbrokenInductive, BackedInductive,
           TypedInductive, PTL DEF Spec
=============================================================================
