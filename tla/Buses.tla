------------------------------- MODULE Buses -------------------------------
(***************************************************************************)
(* The four tables of handlers that goaxon's goroutines share: the command *)
(* bus, the query bus, the registry of event types and the in-memory event *)
(* bus.  Each is a Go map behind a sync.RWMutex.  Registering takes the    *)
(* lock exclusively; Send, Ask, Unmarshal and Publish look the handlers up *)
(* under the read lock and run them after they have let go of it, so that  *)
(* a handler may itself use any of the tables, the one it was called from  *)
(* included.                                                               *)
(*                                                                         *)
(* A goroutine is a stack of calls.  The locks have no variables of their  *)
(* own: who holds one is a matter of where the goroutines are.             *)
(***************************************************************************)
EXTENDS Naturals, Sequences, SequencesExt

CONSTANTS
  Goroutines,
  Routed,       \* the tables with one handler a name: command, query, types
  EventBus,     \* the table with any number of handlers a name
  Names,        \* command, query and event types
  MaxCalls      \* bound on the calls made, nested ones included

ASSUME BusesAssumption ==
  /\ EventBus \notin Routed \cup {"commands", "queries"}
  /\ MaxCalls \in Nat

Tables == Routed \cup {EventBus}

VARIABLES
  handlers,     \* the handlers of each table and name, in order of registration
  stack,        \* the calls each goroutine is in, the innermost last
  calls         \* the calls made so far; they number the handlers registered

vars == <<handlers, stack, calls>>

(***************************************************************************)
(* A call: whether it registers, the table and name, where it is, the      *)
(* handler it brings, the slice it has read, how many of its handlers it   *)
(* has run, and whether one of them has failed.  "before" is a ghost: the  *)
(* handlers registered when the call was made.                             *)
(***************************************************************************)
Call(registers, t, n) ==
  [registers |-> registers, table |-> t, name |-> n,
   pc |-> IF registers THEN "lock" ELSE "rlock", handler |-> IF registers THEN calls + 1 ELSE 0,
   read |-> <<>>, ran |-> 0, failed |-> FALSE, before |-> handlers[t][n]]

Init ==
  /\ handlers = [t \in Tables |-> [n \in Names |-> <<>>]]
  /\ stack = [g \in Goroutines |-> <<>>]
  /\ calls = 0

Busy(g) == stack[g] # <<>>
Top(g)  == Last(stack[g])
At(g, pc) == Busy(g) /\ Top(g).pc = pc

Frames == UNION {Range(stack[g]) : g \in Goroutines}

-----------------------------------------------------------------------------
(* sync.RWMutex.                                                           *)

ReadsToTheEnd(f) == f.pc \in {"read", "run"}   \* mutant: the read lock is held while handlers run

HoldsRead(f) == f.pc = "read"

Writes(f) == f.pc \in {"check", "write"}

(***************************************************************************)
(* A writer announces itself, which keeps new readers out, and waits for   *)
(* the readers there are.                                                  *)
(***************************************************************************)
NoWriter(t)  == \A f \in Frames : f.table = t => f.pc # "drain" /\ ~Writes(f)
NoReader(t)  == \A f \in Frames : f.table = t => ~HoldsRead(f)

SharedLock(t) == TRUE   \* mutant: registering takes the lock like a reader

MayAnnounce(t) == NoWriter(t)

Becomes(g, f) == stack' = [stack EXCEPT ![g] = Append(Front(@), f)]
Move(g, pc) == Becomes(g, [Top(g) EXCEPT !.pc = pc])

Announce(g) ==
  /\ At(g, "lock") /\ MayAnnounce(Top(g).table)
  /\ Move(g, "drain")
  /\ UNCHANGED <<handlers, calls>>

Lock(g) ==
  /\ At(g, "drain") /\ NoReader(Top(g).table)
  /\ Move(g, "check")
  /\ UNCHANGED <<handlers, calls>>

RLock(g) ==
  /\ At(g, "rlock") /\ NoWriter(Top(g).table)
  /\ Move(g, "read")
  /\ UNCHANGED <<handlers, calls>>

-----------------------------------------------------------------------------
(* Registering.                                                            *)

(***************************************************************************)
(* A call comes from outside, or from the handler that the innermost call  *)
(* is running.  The decoders of the registry make none.                    *)
(***************************************************************************)
Calls(g) ==
  /\ calls < MaxCalls /\ calls' = calls + 1
  /\ Busy(g) => At(g, "run") /\ Top(g).ran < Len(Top(g).read) /\ Top(g).table # "types"
  /\ \E registers \in BOOLEAN, t \in Tables, n \in Names :
       stack' = [stack EXCEPT ![g] = Append(@, Call(registers, t, n))]
  /\ UNCHANGED handlers

NeverTaken(t, n) == FALSE   \* mutant: registering twice is not noticed

Taken(t, n) == t # EventBus /\ handlers[t][n] # <<>>

(***************************************************************************)
(* Under the lock: a name that is taken is a panic.  The deferred Unlock   *)
(* runs, and the panic ends every call the goroutine is in (net/http, say, *)
(* recovers it there).  Otherwise the table is written.                    *)
(***************************************************************************)
Check(g, t) ==
  /\ At(g, "check") /\ Top(g).table = t
  /\ IF Taken(t, Top(g).name)
     THEN stack' = [stack EXCEPT ![g] = <<>>]
     ELSE Becomes(g, [Top(g) EXCEPT !.pc = "write", !.read = handlers[t][Top(g).name]])
  /\ UNCHANGED <<handlers, calls>>

Write(g, t) ==
  /\ At(g, "write") /\ Top(g).table = t
  /\ handlers' = [handlers EXCEPT ![t][Top(g).name] = Append(Top(g).read, Top(g).handler)]
  /\ stack' = [stack EXCEPT ![g] = Front(@)]
  /\ UNCHANGED calls

RegisterCommand(g) == Check(g, "commands") \/ Write(g, "commands")
RegisterQuery(g)   == Check(g, "queries") \/ Write(g, "queries")
RegisterType(g)    == Check(g, "types") \/ Write(g, "types")
Subscribe(g)       == Check(g, EventBus) \/ Write(g, EventBus)

-----------------------------------------------------------------------------
(* Dispatching.                                                            *)

(***************************************************************************)
(* The lookup, with the read lock released after it.  What a routed table  *)
(* holds may not be there, or not be of the type the caller asks for: an   *)
(* error, and nothing is run.  (The registry's decoders all fit.)          *)
(***************************************************************************)
Lookup(g, t) ==
  /\ At(g, "read") /\ Top(g).table = t
  /\ LET found == handlers[t][Top(g).name]
     IN \E fits \in IF t \in {"commands", "queries"} THEN BOOLEAN ELSE {TRUE} :
          Becomes(g, [Top(g) EXCEPT !.pc = "run", !.read = IF fits THEN found ELSE <<>>,
                                    !.failed = t # EventBus /\ (found = <<>> \/ ~fits)])
  /\ UNCHANGED <<handlers, calls>>

UntilFailure(f) == f.ran < Len(f.read) /\ ~f.failed   \* mutant: Publish stops at the first error

GoesOn(f) == f.ran < Len(f.read)

(***************************************************************************)
(* The handler returns; its error is the call's, or one of them.           *)
(***************************************************************************)
Runs(g, t) ==
  /\ At(g, "run") /\ Top(g).table = t /\ GoesOn(Top(g))
  /\ \E fails \in BOOLEAN :
       Becomes(g, [Top(g) EXCEPT !.ran = @ + 1, !.failed = @ \/ fails])
  /\ UNCHANGED <<handlers, calls>>

Send(g)      == Lookup(g, "commands") \/ Runs(g, "commands")
Ask(g)       == Lookup(g, "queries") \/ Runs(g, "queries")
Unmarshal(g) == Lookup(g, "types") \/ Runs(g, "types")
Publish(g)   == Lookup(g, EventBus) \/ Runs(g, EventBus)

Returns(g) ==
  /\ At(g, "run") /\ ~GoesOn(Top(g))
  /\ stack' = [stack EXCEPT ![g] = Front(@)]
  /\ UNCHANGED <<handlers, calls>>

-----------------------------------------------------------------------------
Step(g) ==
  \/ Announce(g) \/ Lock(g) \/ RLock(g)
  \/ RegisterCommand(g) \/ RegisterQuery(g) \/ RegisterType(g) \/ Subscribe(g)
  \/ Send(g) \/ Ask(g) \/ Unmarshal(g) \/ Publish(g) \/ Returns(g)

Next == \E g \in Goroutines : Calls(g) \/ Step(g)

(***************************************************************************)
(* The scheduler runs every goroutine, and handlers return.                *)
(***************************************************************************)
Spec == Init /\ [][Next]_vars /\ \A g \in Goroutines : WF_vars(Step(g))

-----------------------------------------------------------------------------
(***************************************************************************)
(* The type invariant; a routed name has at most one handler.              *)
(***************************************************************************)
FrameOK(f) ==
  /\ f.registers \in BOOLEAN /\ f.failed \in BOOLEAN
  /\ f.table \in Tables /\ f.name \in Names
  /\ f.pc \in IF f.registers THEN {"lock", "drain", "check", "write"} ELSE {"rlock", "read", "run"}
  /\ f.handler \in 0..calls /\ f.ran \in 0..Len(f.read)

TypeOK ==
  /\ calls \in 0..MaxCalls
  /\ \A t \in Tables, n \in Names :
       /\ Range(handlers[t][n]) \subseteq 1..calls
       /\ t \in Routed => Len(handlers[t][n]) <= 1
  /\ \A f \in Frames : FrameOK(f)

(***************************************************************************)
(* Nothing that has been registered is displaced or lost, whoever          *)
(* registers at the same time: Register panics on a duplicate because      *)
(* "silently overwriting would hide it", and concurrent Subscribes do not  *)
(* drop each other's handlers.                                             *)
(***************************************************************************)
NeverDisplaced ==
  [][\A t \in Tables, n \in Names : IsPrefix(handlers[t][n], handlers'[t][n])]_vars

(***************************************************************************)
(* A Publish that returns has run every handler subscribed before it was   *)
(* called, none that is not, "in registration order" and "regardless of    *)
(* earlier failures"; a Send, Ask or Unmarshal finds what was registered   *)
(* before, and runs it or reports an error.                                *)
(***************************************************************************)
RunsTheRegistered ==
  [][\A g \in Goroutines :
       Returns(g) =>
         LET f   == Top(g)
             ran == SubSeq(f.read, 1, f.ran)
         IN \/ f.table # EventBus /\ f.failed
            \/ IsPrefix(f.before, ran) /\ IsPrefix(ran, handlers[f.table][f.name])]_vars

(***************************************************************************)
(* Every call returns, however calls nest and whoever registers meanwhile: *)
(* no handler waits for a lock that its own caller holds.                  *)
(***************************************************************************)
CallsReturn == \A g \in Goroutines : Busy(g) ~> ~Busy(g)
=============================================================================
