--------------------------- MODULE Buses_proofs ---------------------------
(***************************************************************************)
(* Proofs about Buses, for any goroutines, any names and any bound on the  *)
(* calls, nested or not.                                                   *)
(***************************************************************************)
EXTENDS Buses, SequenceTheorems, TLAPS

-----------------------------------------------------------------------------
(* Prefixes.                                                               *)

(***************************************************************************)
(* A prefix agrees with the longer sequence in every place it has.         *)
(***************************************************************************)
LEMMA PrefixElements ==
  ASSUME NEW s \in Seq(Nat), NEW t \in Seq(Nat)
  PROVE  IsPrefix(s, t) <=> Len(s) <= Len(t) /\ \A i \in 1..Len(s) : s[i] = t[i]
<1>1. CASE Len(s) <= Len(t)
  <2>1. /\ SubSeq(s, 1, Len(s)) \in Seq(Nat) /\ Len(SubSeq(s, 1, Len(s))) = Len(s)
        /\ \A i \in 1..Len(s) : SubSeq(s, 1, Len(s))[i] = s[i]
    BY SubSeqFull
  <2>2. /\ SubSeq(t, 1, Len(s)) \in Seq(Nat) /\ Len(SubSeq(t, 1, Len(s))) = Len(s)
        /\ \A i \in 1..Len(s) : SubSeq(t, 1, Len(s))[i] = t[i]
    BY <1>1
  <2>3. ASSUME \A i \in 1..Len(s) : s[i] = t[i]
        PROVE  SubSeq(s, 1, Len(s)) = SubSeq(t, 1, Len(s))
    BY <2>1, <2>2, <2>3, SeqEqual
  <2> QED
    BY <1>1, <2>1, <2>2, <2>3 DEF IsPrefix
<1> QED
  BY <1>1 DEF IsPrefix

(***************************************************************************)
(* A sequence is a prefix of itself.                                       *)
(***************************************************************************)
LEMMA PrefixReflexive ==
  ASSUME NEW s \in Seq(Nat)
  PROVE  IsPrefix(s, s)
BY PrefixElements

(***************************************************************************)
(* A prefix of a prefix is one.                                            *)
(***************************************************************************)
LEMMA PrefixTransitive ==
  ASSUME NEW s \in Seq(Nat), NEW t \in Seq(Nat), NEW u \in Seq(Nat), IsPrefix(s, t), IsPrefix(t, u)
  PROVE  IsPrefix(s, u)
BY PrefixElements

(***************************************************************************)
(* Appending extends.                                                      *)
(***************************************************************************)
LEMMA PrefixAppend ==
  ASSUME NEW s \in Seq(Nat), NEW x \in Nat
  PROVE  IsPrefix(s, Append(s, x)) /\ Append(s, x) \in Seq(Nat)
<1>1. Append(s, x) \in Seq(Nat) /\ Len(Append(s, x)) = Len(s) + 1
      /\ \A i \in 1..Len(s) : Append(s, x)[i] = s[i]
  OBVIOUS
<1>2. Len(s) <= Len(Append(s, x))
  BY <1>1
<1> QED
  BY <1>1, <1>2, PrefixElements

-----------------------------------------------------------------------------
(* The invariant.                                                          *)

(***************************************************************************)
(* A call, and what the variables are.                                     *)
(***************************************************************************)
Frame ==
  [registers : BOOLEAN, table : Tables, name : Names,
   pc : {"lock", "drain", "check", "write", "rlock", "read", "run"},
   handler : Nat, read : Seq(Nat), ran : Nat, failed : BOOLEAN, before : Seq(Nat)]

Shapes ==
  /\ calls \in 0..MaxCalls
  /\ handlers \in [Tables -> [Names -> Seq(Nat)]]
  /\ stack \in [Goroutines -> Seq(Frame)]

(***************************************************************************)
(* A table holds handlers of calls that were made, a routed one at most    *)
(* one for a name.                                                         *)
(***************************************************************************)
TablesOK ==
  \A t \in Tables, n \in Names :
    /\ \A i \in 1..Len(handlers[t][n]) : handlers[t][n][i] \in 1..calls
    /\ t # EventBus => Len(handlers[t][n]) <= 1

Positions(g) == 1..Len(stack[g])

(***************************************************************************)
(* What a call has read is what its table holds, or held when the handlers *)
(* that came later were not there yet.                                     *)
(***************************************************************************)
ReadsItsTable(f) ==
  LET held == handlers[f.table][f.name]
  IN /\ IsPrefix(f.before, held)
     /\ f.pc = "write" => f.read = held /\ (f.table # EventBus => f.read = <<>>)
     /\ f.pc = "run" => \/ f.table # EventBus /\ f.failed
                        \/ IsPrefix(f.before, f.read) /\ IsPrefix(f.read, held)

CallOK(f) ==
  /\ FrameOK(f)
  /\ f.pc # "run" => f.ran = 0
  /\ f.registers => f.handler # 0
  /\ ReadsItsTable(f)

CallsOK == \A g \in Goroutines : \A i \in Positions(g) : CallOK(stack[g][i])

(***************************************************************************)
(* One call at most has announced that it writes to a table.               *)
(***************************************************************************)
Claims(f) == f.pc \in {"drain", "check", "write"}

OneWriter ==
  \A g, h \in Goroutines : \A i \in Positions(g), j \in Positions(h) :
    /\ stack[g][i].table = stack[h][j].table
    /\ Claims(stack[g][i]) /\ Claims(stack[h][j])
    => g = h /\ i = j

BusesInv == Shapes /\ TablesOK /\ CallsOK /\ OneWriter

-----------------------------------------------------------------------------
(* What a step does to the stack of its goroutine.                         *)

(***************************************************************************)
(* A busy goroutine has an innermost call, at the end of its stack.        *)
(***************************************************************************)
LEMMA TopIsLast ==
  ASSUME Shapes, NEW g \in Goroutines, Busy(g)
  PROVE  /\ Len(stack[g]) \in Nat \ {0} /\ Len(stack[g]) \in Positions(g)
         /\ Top(g) = stack[g][Len(stack[g])] /\ Top(g) \in Frame
         /\ \A i \in Positions(g) : i = Len(stack[g]) \/ i \in 1..(Len(stack[g]) - 1)
<1>1. stack[g] \in Seq(Frame) /\ stack[g] # <<>>
  BY DEF Shapes, Busy
<1>2. Len(stack[g]) \in Nat \ {0}
  BY <1>1, EmptySeq
<1>3. stack[g][Len(stack[g])] \in Frame
  BY <1>1, <1>2
<1> QED
  BY <1>2, <1>3 DEF Positions, Top, Last

(***************************************************************************)
(* Without it the stack is what it was below.                              *)
(***************************************************************************)
LEMMA FrontDrops ==
  ASSUME Shapes, NEW g \in Goroutines, Busy(g)
  PROVE  /\ Front(stack[g]) \in Seq(Frame) /\ Len(Front(stack[g])) = Len(stack[g]) - 1
         /\ \A i \in 1..(Len(stack[g]) - 1) : Front(stack[g])[i] = stack[g][i]
<1>1. stack[g] \in Seq(Frame) /\ Len(stack[g]) \in Nat \ {0}
  BY TopIsLast DEF Shapes
<1> DEFINE F == Frame
<1>2. stack[g] \in Seq(F)
  BY <1>1
<1> HIDE DEF F
<1>3. PICK n \in Nat \ {0} : n = Len(stack[g])
  BY <1>1
<1>4. /\ SubSeq(stack[g], 1, n - 1) \in Seq(F) /\ Len(SubSeq(stack[g], 1, n - 1)) = n - 1
      /\ \A i \in 1..(n - 1) : SubSeq(stack[g], 1, n - 1)[i] = stack[g][i]
  BY <1>2, <1>3
<1> QED
  BY <1>3, <1>4 DEF F, Front

(***************************************************************************)
(* When the innermost call goes on, all other calls are where they were.   *)
(***************************************************************************)
LEMMA Replaced ==
  ASSUME Shapes, NEW g \in Goroutines, Busy(g), NEW f \in Frame, Becomes(g, f)
  PROVE  /\ stack' \in [Goroutines -> Seq(Frame)] /\ Len(stack'[g]) = Len(stack[g])
         /\ stack'[g][Len(stack[g])] = f
         /\ \A i \in 1..(Len(stack[g]) - 1) : stack'[g][i] = stack[g][i]
         /\ \A h \in Goroutines : h # g => stack'[h] = stack[h]
<1> DEFINE F == Frame
           s == Front(stack[g])
<1>1. s \in Seq(F) /\ f \in F /\ Len(s) = Len(stack[g]) - 1
      /\ \A i \in 1..(Len(stack[g]) - 1) : s[i] = stack[g][i]
  BY FrontDrops
<1>2. stack \in [Goroutines -> Seq(F)] /\ stack' = [stack EXCEPT ![g] = Append(s, f)]
  BY DEF Shapes, Becomes
<1>3. PICK n \in Nat \ {0} : n = Len(stack[g])
  BY TopIsLast
<1> HIDE DEF F, s
<1>4. /\ Append(s, f) \in Seq(F) /\ Len(Append(s, f)) = n /\ Append(s, f)[n] = f
      /\ \A i \in 1..(n - 1) : Append(s, f)[i] = s[i]
  BY <1>1, <1>3
<1>5. /\ stack' \in [Goroutines -> Seq(F)] /\ stack'[g] = Append(s, f)
      /\ \A h \in Goroutines : h # g => stack'[h] = stack[h]
  BY <1>2, <1>4
<1> QED
  BY <1>1, <1>3, <1>4, <1>5 DEF F

(***************************************************************************)
(* When the innermost call ends, all other calls are where they were.      *)
(***************************************************************************)
LEMMA Popped ==
  ASSUME Shapes, NEW g \in Goroutines, Busy(g), stack' = [stack EXCEPT ![g] = Front(@)]
  PROVE  /\ stack' \in [Goroutines -> Seq(Frame)] /\ Len(stack'[g]) = Len(stack[g]) - 1
         /\ \A i \in 1..(Len(stack[g]) - 1) : stack'[g][i] = stack[g][i]
         /\ \A h \in Goroutines : h # g => stack'[h] = stack[h]
<1> DEFINE F == Frame
           s == Front(stack[g])
<1>1. s \in Seq(F) /\ Len(s) = Len(stack[g]) - 1
      /\ \A i \in 1..(Len(stack[g]) - 1) : s[i] = stack[g][i]
  BY FrontDrops
<1>2. stack \in [Goroutines -> Seq(F)] /\ stack' = [stack EXCEPT ![g] = s]
  BY DEF Shapes
<1> HIDE DEF F, s
<1>3. /\ stack' \in [Goroutines -> Seq(F)] /\ stack'[g] = s
      /\ \A h \in Goroutines : h # g => stack'[h] = stack[h]
  BY <1>1, <1>2
<1> QED
  BY <1>1, <1>3 DEF F

(***************************************************************************)
(* When a call is made, the calls it is made from are where they were.     *)
(***************************************************************************)
LEMMA Pushed ==
  ASSUME Shapes, NEW g \in Goroutines, NEW f \in Frame, stack' = [stack EXCEPT ![g] = Append(@, f)]
  PROVE  /\ stack' \in [Goroutines -> Seq(Frame)] /\ Len(stack'[g]) = Len(stack[g]) + 1
         /\ stack'[g][Len(stack[g]) + 1] = f
         /\ \A i \in Positions(g) : stack'[g][i] = stack[g][i]
         /\ \A h \in Goroutines : h # g => stack'[h] = stack[h]
<1> DEFINE F == Frame
           s == stack[g]
<1>1. s \in Seq(F) /\ f \in F
  BY DEF Shapes
<1>2. stack \in [Goroutines -> Seq(F)] /\ stack' = [stack EXCEPT ![g] = Append(s, f)]
  BY DEF Shapes
<1> HIDE DEF F
<1>3. /\ Append(s, f) \in Seq(F) /\ Len(Append(s, f)) = Len(s) + 1 /\ Append(s, f)[Len(s) + 1] = f
      /\ \A i \in 1..Len(s) : Append(s, f)[i] = s[i]
  BY <1>1
<1>5. /\ stack' \in [Goroutines -> Seq(F)] /\ stack'[g] = Append(s, f)
      /\ \A h \in Goroutines : h # g => stack'[h] = stack[h]
  BY <1>2, <1>3
<1> QED
  BY <1>1, <1>3, <1>5 DEF F, Positions


-----------------------------------------------------------------------------
(* A call that goes on, without writing.                                   *)

(***************************************************************************)
(* A call in order stays so while the tables do not change.                *)
(***************************************************************************)
LEMMA CallStays ==
  ASSUME NEW f \in Frame, CallOK(f), UNCHANGED <<handlers, calls>>
  PROVE  CallOK(f)'
BY DEF CallOK, FrameOK, ReadsItsTable

(***************************************************************************)
(* What stacks hold are calls.                                             *)
(***************************************************************************)
LEMMA FrameOfCall ==
  ASSUME Shapes, NEW g \in Goroutines, NEW i \in Positions(g)
  PROVE  stack[g][i] \in Frame
<1> DEFINE F == Frame
<1>1. stack[g] \in Seq(F)
  BY DEF Shapes
<1> HIDE DEF F
<1>2. stack[g][i] \in F
  BY <1>1 DEF Positions
<1> QED
  BY <1>2 DEF F

(***************************************************************************)
(* The innermost call may go on to anything in order, and may claim its    *)
(* table if it has before or nobody does.                                  *)
(***************************************************************************)
LEMMA BecomesKeeps ==
  ASSUME BusesInv, NEW g \in Goroutines, Busy(g), NEW f \in Frame, Becomes(g, f),
         UNCHANGED <<handlers, calls>>, CallOK(f),
         Claims(f) => f.table = Top(g).table /\ (Claims(Top(g)) \/ NoWriter(f.table))
  PROVE  BusesInv'
<1> DEFINE top == Len(stack[g])
<1>1. Shapes
  BY DEF BusesInv
<1>2. /\ stack' \in [Goroutines -> Seq(Frame)] /\ Len(stack'[g]) = top
      /\ stack'[g][top] = f
      /\ \A i \in 1..(top - 1) : stack'[g][i] = stack[g][i]
      /\ \A h \in Goroutines : h # g => stack'[h] = stack[h]
  BY <1>1, Replaced
<1>3. /\ top \in Nat \ {0} /\ top \in Positions(g) /\ Top(g) = stack[g][top]
      /\ \A i \in Positions(g) : i = top \/ i \in 1..(top - 1)
  BY <1>1, TopIsLast
<1> HIDE DEF top
<1>4. \A h \in Goroutines : Positions(h)' = Positions(h)
  BY <1>2 DEF Positions, top
<1>5. \A h \in Goroutines : \A i \in Positions(h) :
        stack'[h][i] = IF h = g /\ i = top THEN f ELSE stack[h][i]
  BY <1>2, <1>3
<1>6. Shapes' /\ TablesOK'
  BY <1>2 DEF BusesInv, Shapes, TablesOK
<1>7. CallsOK'
  <2> SUFFICES ASSUME NEW h \in Goroutines, NEW i \in Positions(h)
               PROVE  CallOK(stack[h][i])'
    BY <1>4 DEF CallsOK
  <2>1. PICK x \in Frame : x = stack'[h][i] /\ CallOK(x)
    BY <1>1, <1>5, FrameOfCall DEF BusesInv, CallsOK
  <2>2. CallOK(x)'
    BY <2>1, CallStays
  <2> QED
    BY <2>1, <2>2
<1>8. OneWriter'
  <2> SUFFICES ASSUME NEW h \in Goroutines, NEW k \in Goroutines,
                      NEW i \in Positions(h), NEW j \in Positions(k),
                      stack'[h][i].table = stack'[k][j].table,
                      Claims(stack'[h][i]), Claims(stack'[k][j])
               PROVE  h = k /\ i = j
    BY <1>4 DEF OneWriter, Claims
  <2>1. CASE Claims(f) => Claims(Top(g))
    BY <1>3, <1>5, <2>1 DEF BusesInv, OneWriter
  <2>2. CASE NoWriter(f.table)
    <3>1. \A m \in Goroutines : \A l \in Positions(m) :
            stack[m][l].table = f.table => ~Claims(stack[m][l])
      BY <2>2 DEF NoWriter, Frames, Range, Positions, Claims, Writes
    <3> QED
      BY <1>5, <3>1 DEF BusesInv, OneWriter
  <2> QED
    BY <2>1, <2>2
<1> QED
  BY <1>6, <1>7, <1>8 DEF BusesInv

-----------------------------------------------------------------------------
(* Calls begin and end.                                                    *)

(***************************************************************************)
(* Ending calls, by return or by panic, keeps the invariant: their tables  *)
(* become free.                                                            *)
(***************************************************************************)
LEMMA PopKeeps ==
  ASSUME BusesInv, NEW g \in Goroutines, Busy(g), UNCHANGED <<handlers, calls>>,
         stack' = [stack EXCEPT ![g] = Front(@)] \/ stack' = [stack EXCEPT ![g] = <<>>]
  PROVE  BusesInv'
<1>1. Shapes
  BY DEF BusesInv
<1>2. /\ stack' \in [Goroutines -> Seq(Frame)]
      /\ \A h \in Goroutines : \A i \in Positions(h)' :
           i \in Positions(h) /\ stack'[h][i] = stack[h][i]
  <2>1. CASE stack' = [stack EXCEPT ![g] = Front(@)]
    <3>1. /\ stack' \in [Goroutines -> Seq(Frame)] /\ Len(stack'[g]) = Len(stack[g]) - 1
          /\ \A i \in 1..(Len(stack[g]) - 1) : stack'[g][i] = stack[g][i]
          /\ \A h \in Goroutines : h # g => stack'[h] = stack[h]
      BY <1>1, <2>1, Popped
    <3>2. Len(stack[g]) \in Nat
      BY <1>1, TopIsLast
    <3> QED
      BY <3>1, <3>2 DEF Positions
  <2>2. CASE stack' = [stack EXCEPT ![g] = <<>>]
    BY <1>1, <2>2 DEF Shapes, Positions
  <2> QED
    BY <2>1, <2>2
<1>3. Shapes' /\ TablesOK'
  BY <1>2 DEF BusesInv, Shapes, TablesOK
<1>4. CallsOK'
  <2> SUFFICES ASSUME NEW h \in Goroutines, NEW i \in Positions(h)'
               PROVE  CallOK(stack[h][i])'
    BY DEF CallsOK
  <2>1. PICK x \in Frame : x = stack'[h][i] /\ CallOK(x)
    BY <1>1, <1>2, FrameOfCall DEF BusesInv, CallsOK
  <2>2. CallOK(x)'
    BY <2>1, CallStays
  <2> QED
    BY <2>1, <2>2
<1>5. OneWriter'
  BY <1>2 DEF BusesInv, OneWriter, Claims
<1> QED
  BY <1>3, <1>4, <1>5 DEF BusesInv

(***************************************************************************)
(* Making a call keeps it: the call starts without a lock, with what is    *)
(* registered now as what it must find.                                    *)
(***************************************************************************)
LEMMA CallsKeep ==
  ASSUME BusesInv, NEW g \in Goroutines, Calls(g)
  PROVE  BusesInv'
<1>1. Shapes /\ calls' = calls + 1 /\ calls < MaxCalls /\ handlers' = handlers
  BY DEF BusesInv, Calls
<1>2. PICK registers \in BOOLEAN, t \in Tables, n \in Names :
        stack' = [stack EXCEPT ![g] = Append(@, Call(registers, t, n))]
  BY DEF Calls
<1>3. calls \in Nat /\ calls' \in 0..MaxCalls /\ calls <= calls'
  BY <1>1, BusesAssumption DEF Shapes
<1>4. handlers[t][n] \in Seq(Nat)
  BY <1>1 DEF Shapes
<1>5. PICK f \in Frame : f = Call(registers, t, n)
  <2>1. Call(registers, t, n) \in Frame
    BY <1>3, <1>4 DEF Call, Frame
  <2> QED
    BY <2>1
<1>6. CallOK(f)'
  <2>1. /\ f.registers = registers /\ f.table = t /\ f.name = n /\ f.ran = 0 /\ f.failed = FALSE
        /\ f.read = <<>> /\ f.before = handlers[t][n]
        /\ f.pc = (IF registers THEN "lock" ELSE "rlock")
        /\ f.handler = (IF registers THEN calls + 1 ELSE 0)
    BY <1>5 DEF Call
  <2>2. IsPrefix(f.before, handlers'[t][n])
    BY <1>1, <1>4, <2>1, PrefixReflexive
  <2>3. f.handler \in 0..calls' /\ f.ran \in 0..Len(f.read)
    BY <1>1, <1>3, <2>1
  <2>4. f.pc \in (IF f.registers THEN {"lock", "drain", "check", "write"}
                                   ELSE {"rlock", "read", "run"})
    BY <2>1
  <2>5. FrameOK(f)'
    BY <2>1, <2>3, <2>4 DEF FrameOK
  <2>6. f.registers => f.handler # 0
    BY <1>3, <2>1
  <2>7. f.pc # "write" /\ f.pc # "run"
    BY <2>1
  <2> QED
    BY <2>1, <2>2, <2>5, <2>6, <2>7 DEF CallOK, ReadsItsTable
<1>7. ~Claims(f)
  BY <1>5 DEF Call, Claims
<1>8. /\ stack' \in [Goroutines -> Seq(Frame)] /\ Len(stack'[g]) = Len(stack[g]) + 1
      /\ stack'[g][Len(stack[g]) + 1] = f
      /\ \A i \in Positions(g) : stack'[g][i] = stack[g][i]
      /\ \A h \in Goroutines : h # g => stack'[h] = stack[h]
  BY <1>1, <1>2, <1>5, Pushed
<1>9. Len(stack[g]) \in Nat
  BY <1>1 DEF Shapes
<1>10. \A h \in Goroutines : \A i \in Positions(h)' :
         \/ stack'[h][i] = f
         \/ i \in Positions(h) /\ stack'[h][i] = stack[h][i]
  BY <1>8, <1>9 DEF Positions
<1>11. Shapes'
  BY <1>1, <1>3, <1>8 DEF Shapes
<1>12. TablesOK'
  BY <1>1, <1>3 DEF BusesInv, TablesOK
<1>13. CallsOK'
  <2> SUFFICES ASSUME NEW h \in Goroutines, NEW i \in Positions(h)',
                      i \in Positions(h), stack'[h][i] = stack[h][i]
               PROVE  CallOK(stack[h][i])'
    BY <1>6, <1>10 DEF CallsOK
  <2>1. PICK x \in Frame : x = stack'[h][i] /\ CallOK(x)
    BY <1>1, FrameOfCall DEF BusesInv, CallsOK
  <2>2. CallOK(x)'
    <3>1. FrameOK(x)'
      BY <1>3, <2>1 DEF CallOK, FrameOK
    <3> QED
      BY <1>1, <2>1, <3>1 DEF CallOK, ReadsItsTable
  <2> QED
    BY <2>1, <2>2
<1>14. OneWriter'
  BY <1>7, <1>10 DEF BusesInv, OneWriter, Claims
<1> QED
  BY <1>11, <1>12, <1>13, <1>14 DEF BusesInv

-----------------------------------------------------------------------------
(* A write.                                                                *)

(***************************************************************************)
(* A write adds its handler to what the table holds: nobody else has       *)
(* written since the call read it, for the call has claimed the table all  *)
(* along.                                                                  *)
(***************************************************************************)
LEMMA WriteKeeps ==
  ASSUME BusesInv, NEW g \in Goroutines, NEW t \in Tables, Write(g, t)
  PROVE  /\ BusesInv'
         /\ \A u \in Tables, n \in Names :
              handlers[u][n] \in Seq(Nat) /\ IsPrefix(handlers[u][n], handlers'[u][n])
<1>1. Shapes /\ Busy(g)
  BY DEF BusesInv, Write, At
<1> DEFINE top == Len(stack[g])
<1>2. /\ top \in Nat \ {0} /\ top \in Positions(g) /\ Top(g) = stack[g][top]
      /\ \A i \in Positions(g) : i = top \/ i \in 1..(top - 1)
  BY <1>1, TopIsLast
<1>3. PICK f \in Frame : f = Top(g)
  BY <1>1, TopIsLast
<1>4. /\ f.pc = "write" /\ f.table = t
      /\ handlers' = [handlers EXCEPT ![t][f.name] = Append(f.read, f.handler)]
      /\ stack' = [stack EXCEPT ![g] = Front(@)] /\ calls' = calls
  BY <1>3 DEF Write, At
<1>5. CallOK(f)
  BY <1>2, <1>3 DEF BusesInv, CallsOK
<1>6. f.name \in Names /\ f.read \in Seq(Nat) /\ f.handler \in Nat /\ f.registers \in BOOLEAN
  BY DEF Frame
<1>7. /\ f.read = handlers[t][f.name] /\ (t # EventBus => f.read = <<>>)
      /\ f.handler \in 1..calls
  <2>1. f.registers
    BY <1>4, <1>5, <1>6 DEF CallOK, FrameOK
  <2>2. f.handler \in 0..calls /\ f.handler # 0
    BY <1>5, <2>1 DEF CallOK, FrameOK
  <2>3. calls \in Nat
    BY <1>1, BusesAssumption DEF Shapes
  <2> QED
    BY <1>4, <1>5, <2>2, <2>3 DEF CallOK, ReadsItsTable
<1>8. PICK new \in Seq(Nat) : new = Append(f.read, f.handler)
  <2>1. Append(f.read, f.handler) \in Seq(Nat)
    BY <1>6
  <2> QED
    BY <2>1
<1>9. /\ handlers' \in [Tables -> [Names -> Seq(Nat)]]
      /\ handlers'[t][f.name] = new
      /\ \A u \in Tables, n \in Names :
           ~(u = t /\ n = f.name) => handlers'[u][n] = handlers[u][n]
  BY <1>1, <1>4, <1>6, <1>8 DEF Shapes
<1>10. \A u \in Tables, n \in Names :
         handlers[u][n] \in Seq(Nat) /\ IsPrefix(handlers[u][n], handlers'[u][n])
  <2> SUFFICES ASSUME NEW u \in Tables, NEW n \in Names
               PROVE  handlers[u][n] \in Seq(Nat) /\ IsPrefix(handlers[u][n], handlers'[u][n])
    OBVIOUS
  <2>1. handlers[u][n] \in Seq(Nat)
    BY <1>1 DEF Shapes
  <2>2. IsPrefix(f.read, new)
    BY <1>6, <1>8, PrefixAppend
  <2> QED
    BY <1>7, <1>9, <2>1, <2>2, PrefixReflexive
<1>11. /\ stack' \in [Goroutines -> Seq(Frame)]
       /\ Len(stack'[g]) = top - 1
       /\ \A h \in Goroutines : h # g => stack'[h] = stack[h]
       /\ \A i \in 1..(top - 1) : stack'[g][i] = stack[g][i]
  BY <1>1, <1>4, Popped
<1> HIDE DEF top
<1>12. \A h \in Goroutines : \A i \in Positions(h)' :
         /\ i \in Positions(h) /\ stack'[h][i] = stack[h][i]
         /\ ~(h = g /\ i = top)
  <2>1. PICK n \in Nat \ {0} : n = top
    BY <1>2
  <2>2. 1..(n - 1) \subseteq 1..n /\ n \notin 1..(n - 1)
    OBVIOUS
  <2>3. Positions(g)' = 1..(n - 1) /\ Positions(g) = 1..n
    BY <1>11, <2>1 DEF Positions, top
  <2>4. \A h \in Goroutines : h # g => Positions(h)' = Positions(h)
    BY <1>11 DEF Positions
  <2> QED
    BY <1>11, <2>1, <2>2, <2>3, <2>4
<1>13. Shapes'
  BY <1>1, <1>4, <1>9, <1>11 DEF Shapes
<1>14. TablesOK'
  <2>1. /\ Len(new) = Len(f.read) + 1
        /\ \A i \in 1..Len(new) : i \in 1..Len(f.read) \/ i = Len(f.read) + 1
    BY <1>6, <1>8
  <2>2. new[Len(f.read) + 1] = f.handler /\ \A i \in 1..Len(f.read) : new[i] = f.read[i]
    BY <1>6, <1>8
  <2>3. \A i \in 1..Len(new) : new[i] \in 1..calls
    <3>1. \A i \in 1..Len(f.read) : f.read[i] \in 1..calls
      BY <1>6, <1>7 DEF BusesInv, TablesOK
    <3> QED
      BY <1>7, <2>1, <2>2, <3>1
  <2>4. t # EventBus => Len(new) <= 1
    BY <1>7, <2>1
  <2> SUFFICES ASSUME NEW u \in Tables, NEW n \in Names
               PROVE  /\ \A i \in 1..Len(handlers'[u][n]) : handlers'[u][n][i] \in 1..calls
                      /\ u # EventBus => Len(handlers'[u][n]) <= 1
    BY <1>4 DEF TablesOK
  <2>5. CASE u = t /\ n = f.name
    BY <1>9, <2>3, <2>4, <2>5
  <2>6. CASE ~(u = t /\ n = f.name)
    BY <1>9, <2>6 DEF BusesInv, TablesOK
  <2> QED
    BY <2>5, <2>6
<1>15. CallsOK'
  <2> SUFFICES ASSUME NEW h \in Goroutines, NEW i \in Positions(h)'
               PROVE  CallOK(stack[h][i])'
    BY DEF CallsOK
  <2>1. PICK x \in Frame : x = stack[h][i] /\ x = stack'[h][i] /\ CallOK(x)
    BY <1>1, <1>12, FrameOfCall DEF BusesInv, CallsOK
  <2>2. x.table \in Tables /\ x.name \in Names /\ x.before \in Seq(Nat) /\ x.read \in Seq(Nat)
    BY DEF Frame
  <2>3. /\ handlers[x.table][x.name] \in Seq(Nat) /\ handlers'[x.table][x.name] \in Seq(Nat)
        /\ IsPrefix(handlers[x.table][x.name], handlers'[x.table][x.name])
    BY <1>9, <1>10, <2>2
  <2>4. x.pc = "write" => handlers'[x.table][x.name] = handlers[x.table][x.name]
    <3>1. x.pc = "write" => x.table # t
      BY <1>2, <1>3, <1>4, <1>12, <2>1 DEF BusesInv, OneWriter, Claims
    <3> QED
      BY <1>9, <2>2, <3>1
  <2>5. FrameOK(x)'
    BY <1>4, <2>1 DEF CallOK, FrameOK
  <2>6. IsPrefix(x.before, handlers'[x.table][x.name])
    BY <2>1, <2>2, <2>3, PrefixTransitive DEF CallOK, ReadsItsTable
  <2>7. x.pc = "run" =>
          \/ x.table # EventBus /\ x.failed
          \/ IsPrefix(x.before, x.read) /\ IsPrefix(x.read, handlers'[x.table][x.name])
    BY <2>1, <2>2, <2>3, PrefixTransitive DEF CallOK, ReadsItsTable
  <2>8. CallOK(x)'
    BY <2>1, <2>4, <2>5, <2>6, <2>7 DEF CallOK, ReadsItsTable
  <2> QED
    BY <2>1, <2>8
<1>16. OneWriter'
  BY <1>12 DEF BusesInv, OneWriter, Claims
<1> QED
  BY <1>10, <1>13, <1>14, <1>15, <1>16 DEF BusesInv

-----------------------------------------------------------------------------
(* The steps.                                                              *)

(***************************************************************************)
(* The invariant holds before anything is registered.                      *)
(***************************************************************************)
LEMMA BusesInvInit == Init => BusesInv
<1> SUFFICES ASSUME Init PROVE BusesInv
  OBVIOUS
<1>1. Shapes
  BY BusesAssumption DEF Init, Shapes
<1>2. \A g \in Goroutines : Positions(g) = {}
  BY DEF Init, Positions
<1>3. TablesOK
  BY DEF Init, TablesOK
<1> QED
  BY <1>1, <1>2, <1>3 DEF BusesInv, CallsOK, OneWriter

(***************************************************************************)
(* Announcing a writer, and taking a lock, keep it.                        *)
(***************************************************************************)
LEMMA Moves ==
  ASSUME BusesInv, NEW g \in Goroutines, NEW from, At(g, from),
         NEW pc \in {"drain", "check", "read"}, Move(g, pc),
         UNCHANGED <<handlers, calls>>,
         \/ from = "lock" /\ pc = "drain" /\ NoWriter(Top(g).table)
         \/ from = "drain" /\ pc = "check"
         \/ from = "rlock" /\ pc = "read"
  PROVE  BusesInv'
<1>1. Busy(g) /\ Shapes
  BY DEF At, BusesInv
<1>2. PICK e \in Frame : e = Top(g) /\ e.pc = from /\ CallOK(e)
  BY <1>1, TopIsLast DEF At, BusesInv, CallsOK
<1>3. PICK f \in Frame : f = [e EXCEPT !.pc = pc]
  <2>1. [e EXCEPT !.pc = pc] \in Frame
    BY DEF Frame
  <2> QED
    BY <2>1
<1>4. /\ f.registers = e.registers /\ f.table = e.table /\ f.name = e.name /\ f.pc = pc
      /\ f.handler = e.handler /\ f.read = e.read /\ f.ran = e.ran /\ f.failed = e.failed
      /\ f.before = e.before
  BY <1>3 DEF Frame
<1>5. CallOK(f)
  BY <1>2, <1>4 DEF CallOK, FrameOK, ReadsItsTable
<1>6. Becomes(g, f)
  BY <1>2, <1>3 DEF Move
<1>7. Claims(f) => f.table = Top(g).table /\ (Claims(Top(g)) \/ NoWriter(f.table))
  BY <1>2, <1>4 DEF Claims
<1> QED
  BY <1>1, <1>5, <1>6, <1>7, BecomesKeeps

(***************************************************************************)
(* The check for a duplicate keeps it: a routed name that is free is       *)
(* written as the first of its handlers.                                   *)
(***************************************************************************)
LEMMA CheckKeeps ==
  ASSUME BusesInv, NEW g \in Goroutines, NEW t \in Tables, Check(g, t)
  PROVE  BusesInv'
<1>1. Busy(g) /\ Shapes /\ UNCHANGED <<handlers, calls>>
  BY DEF Check, At, BusesInv
<1>2. PICK e \in Frame : e = Top(g) /\ e.pc = "check" /\ e.table = t /\ CallOK(e)
  BY <1>1, TopIsLast DEF Check, At, BusesInv, CallsOK
<1>3. e.name \in Names /\ e.read \in Seq(Nat) /\ handlers[t][e.name] \in Seq(Nat)
  BY <1>1 DEF Frame, Shapes
<1>4. CASE Taken(t, e.name)
  <2>1. stack' = [stack EXCEPT ![g] = <<>>]
    BY <1>2, <1>4 DEF Check
  <2> QED
    BY <1>1, <2>1, PopKeeps
<1>5. CASE ~Taken(t, e.name)
  <2>1. PICK f \in Frame : f = [e EXCEPT !.pc = "write", !.read = handlers[t][e.name]]
    <3>1. [e EXCEPT !.pc = "write", !.read = handlers[t][e.name]] \in Frame
      BY <1>3 DEF Frame
    <3> QED
      BY <3>1
  <2>2. /\ f.registers = e.registers /\ f.table = t /\ f.name = e.name /\ f.pc = "write"
        /\ f.handler = e.handler /\ f.read = handlers[t][e.name] /\ f.ran = e.ran
        /\ f.failed = e.failed /\ f.before = e.before
    BY <1>2, <2>1 DEF Frame
  <2>3. t # EventBus => f.read = <<>>
    BY <1>5, <2>2 DEF Taken
  <2>4. e.ran = 0 /\ 0 \in 0..Len(f.read)
    BY <1>2, <1>3, <2>2 DEF CallOK
  <2>5. FrameOK(f)
    BY <1>2, <2>2, <2>4 DEF CallOK, FrameOK
  <2>6. CallOK(f)
    BY <1>2, <2>2, <2>3, <2>4, <2>5 DEF CallOK, ReadsItsTable
  <2>7. Becomes(g, f)
    BY <1>2, <1>5, <2>1 DEF Check
  <2>8. Claims(Top(g)) /\ f.table = Top(g).table
    BY <1>2, <2>2 DEF Claims
  <2> QED
    BY <1>1, <2>6, <2>7, <2>8, BecomesKeeps
<1> QED
  BY <1>4, <1>5

(***************************************************************************)
(* A lookup keeps it: the call runs what is registered, or fails.          *)
(***************************************************************************)
LEMMA LookupKeeps ==
  ASSUME BusesInv, NEW g \in Goroutines, NEW t \in Tables, Lookup(g, t)
  PROVE  BusesInv'
<1>1. Busy(g) /\ Shapes /\ UNCHANGED <<handlers, calls>>
  BY DEF Lookup, At, BusesInv
<1>2. PICK e \in Frame : e = Top(g) /\ e.pc = "read" /\ e.table = t /\ CallOK(e)
  BY <1>1, TopIsLast DEF Lookup, At, BusesInv, CallsOK
<1>3. PICK found \in Seq(Nat) : found = handlers[t][e.name] /\ e.name \in Names
  BY <1>1 DEF Frame, Shapes
<1>4. PICK fits \in (IF t \in {"commands", "queries"} THEN BOOLEAN ELSE {TRUE}) :
        Becomes(g, [e EXCEPT !.pc = "run", !.read = IF fits THEN found ELSE <<>>,
                             !.failed = t # EventBus /\ (found = <<>> \/ ~fits)])
  BY <1>2, <1>3 DEF Lookup
<1>5. fits \in BOOLEAN /\ (~fits => t # EventBus)
  BY BusesAssumption
<1>6. PICK read \in Seq(Nat) : read = IF fits THEN found ELSE <<>>
  <2>1. (IF fits THEN found ELSE <<>>) \in Seq(Nat)
    OBVIOUS
  <2> QED
    BY <2>1
<1>7. PICK failed \in BOOLEAN : failed = (t # EventBus /\ (found = <<>> \/ ~fits))
  <2>1. (t # EventBus /\ (found = <<>> \/ ~fits)) \in BOOLEAN
    OBVIOUS
  <2> QED
    BY <2>1
<1>8. PICK f \in Frame : f = [e EXCEPT !.pc = "run", !.read = read, !.failed = failed]
  <2>1. [e EXCEPT !.pc = "run", !.read = read, !.failed = failed] \in Frame
    BY DEF Frame
  <2> QED
    BY <2>1
<1>9. /\ f.registers = e.registers /\ f.table = t /\ f.name = e.name /\ f.pc = "run"
      /\ f.handler = e.handler /\ f.read = read /\ f.ran = e.ran
      /\ f.failed = failed /\ f.before = e.before
  BY <1>2, <1>8 DEF Frame
<1>10. e.ran = 0 /\ 0 \in 0..Len(read) /\ e.registers = FALSE
  BY <1>2 DEF CallOK, FrameOK, Frame
<1>11. FrameOK(f)
  BY <1>2, <1>9, <1>10 DEF CallOK, FrameOK
<1>12. \/ t # EventBus /\ failed
       \/ read = found
  BY <1>5, <1>6, <1>7
<1>13. IsPrefix(found, found) /\ IsPrefix(f.before, found)
  BY <1>2, <1>3, <1>9, PrefixReflexive DEF CallOK, ReadsItsTable
<1>14. CallOK(f)
  BY <1>3, <1>9, <1>10, <1>11, <1>12, <1>13 DEF CallOK, ReadsItsTable
<1>15. Becomes(g, f)
  BY <1>4, <1>6, <1>7, <1>8
<1>16. ~Claims(f)
  BY <1>9 DEF Claims
<1> QED
  BY <1>1, <1>14, <1>15, <1>16, BecomesKeeps

(***************************************************************************)
(* Running a handler keeps it.                                             *)
(***************************************************************************)
LEMMA RunsKeeps ==
  ASSUME BusesInv, NEW g \in Goroutines, NEW t, Runs(g, t)
  PROVE  BusesInv'
<1>1. Busy(g) /\ Shapes /\ UNCHANGED <<handlers, calls>>
  BY DEF Runs, At, BusesInv
<1>2. PICK e \in Frame : e = Top(g) /\ e.pc = "run" /\ e.ran < Len(e.read) /\ CallOK(e)
  BY <1>1, TopIsLast DEF Runs, At, GoesOn, BusesInv, CallsOK
<1>3. PICK fails \in BOOLEAN : Becomes(g, [e EXCEPT !.ran = @ + 1, !.failed = @ \/ fails])
  BY <1>2 DEF Runs
<1>4. /\ e.ran \in Nat /\ Len(e.read) \in Nat /\ e.failed \in BOOLEAN
      /\ e.ran + 1 \in Nat /\ e.ran + 1 \in 0..Len(e.read)
  <2>1. e.ran \in Nat /\ e.read \in Seq(Nat) /\ e.failed \in BOOLEAN
    BY DEF Frame
  <2> QED
    BY <1>2, <2>1
<1>5. PICK failed \in BOOLEAN : failed = (e.failed \/ fails)
  <2>1. (e.failed \/ fails) \in BOOLEAN
    OBVIOUS
  <2> QED
    BY <2>1
<1>6. PICK f \in Frame : f = [e EXCEPT !.ran = e.ran + 1, !.failed = failed]
  <2>1. [e EXCEPT !.ran = e.ran + 1, !.failed = failed] \in Frame
    BY <1>4 DEF Frame
  <2> QED
    BY <2>1
<1>7. /\ f.registers = e.registers /\ f.table = e.table /\ f.name = e.name /\ f.pc = "run"
      /\ f.handler = e.handler /\ f.read = e.read /\ f.ran = e.ran + 1
      /\ f.failed = failed /\ f.before = e.before
  BY <1>2, <1>6 DEF Frame
<1>8. FrameOK(f)
  BY <1>2, <1>4, <1>7 DEF CallOK, FrameOK
<1>9. e.failed => f.failed
  BY <1>5, <1>7
<1>10. CallOK(f)
  BY <1>2, <1>7, <1>8, <1>9 DEF CallOK, ReadsItsTable
<1>11. Becomes(g, f)
  BY <1>3, <1>5, <1>6
<1>12. ~Claims(f)
  BY <1>7 DEF Claims
<1> QED
  BY <1>1, <1>10, <1>11, <1>12, BecomesKeeps

-----------------------------------------------------------------------------
(* The theorems.                                                           *)

TopOf(g, t) == Busy(g) /\ Top(g).table = t

(***************************************************************************)
(* The table a call is about is one.                                       *)
(***************************************************************************)
LEMMA TopsTable ==
  ASSUME Shapes, NEW g \in Goroutines, NEW t, TopOf(g, t)
  PROVE  t \in Tables
BY TopIsLast DEF TopOf, Frame

(***************************************************************************)
(* The steps, whichever table they are about.                              *)
(***************************************************************************)
StepKinds(g) ==
  \/ Calls(g) \/ Announce(g) \/ Lock(g) \/ RLock(g) \/ Returns(g)
  \/ \E t \in Tables : Check(g, t) \/ Write(g, t) \/ Lookup(g, t) \/ Runs(g, t)

(***************************************************************************)
(* These are the steps of a goroutine.                                     *)
(***************************************************************************)
LEMMA StepsAreOfKinds ==
  ASSUME Shapes, NEW g \in Goroutines, Calls(g) \/ Step(g)
  PROVE  StepKinds(g)
<1>1. ASSUME NEW t, Check(g, t) \/ Write(g, t) \/ Lookup(g, t) \/ Runs(g, t)
      PROVE  StepKinds(g)
  <2>1. t \in Tables
    BY <1>1, TopsTable DEF TopOf, Check, Write, Lookup, Runs, At
  <2> QED
    BY <1>1, <2>1 DEF StepKinds
<1>2. ASSUME Calls(g) \/ Announce(g) \/ Lock(g) \/ RLock(g) \/ Returns(g)
      PROVE  StepKinds(g)
  BY <1>2 DEF StepKinds
<1> QED
  BY <1>1, <1>2 DEF Step, RegisterCommand, RegisterQuery, RegisterType, Subscribe,
     Send, Ask, Unmarshal, Publish

(***************************************************************************)
(* Every step keeps the invariant.                                         *)
(***************************************************************************)
LEMMA BusesInvStep == BusesInv /\ [Next]_vars => BusesInv'
<1> SUFFICES ASSUME BusesInv, [Next]_vars PROVE BusesInv'
  OBVIOUS
<1>1. CASE UNCHANGED vars
  BY <1>1 DEF vars, BusesInv, Shapes, TablesOK, CallsOK, OneWriter, Positions, CallOK, FrameOK,
     ReadsItsTable
<1>2. ASSUME NEW g \in Goroutines, StepKinds(g) PROVE BusesInv'
  <2>1. CASE Calls(g)
    BY <2>1, CallsKeep
  <2>2. CASE Announce(g)
    BY <2>2, Moves DEF Announce, MayAnnounce
  <2>3. CASE Lock(g)
    BY <2>3, Moves DEF Lock
  <2>4. CASE RLock(g)
    BY <2>4, Moves DEF RLock
  <2>5. CASE Returns(g)
    BY <2>5, PopKeeps DEF Returns, At
  <2>6. ASSUME NEW t \in Tables, Check(g, t) \/ Write(g, t) \/ Lookup(g, t) \/ Runs(g, t)
        PROVE  BusesInv'
    BY <2>6, CheckKeeps, WriteKeeps, LookupKeeps, RunsKeeps
  <2> QED
    BY <1>2, <2>1, <2>2, <2>3, <2>4, <2>5, <2>6 DEF StepKinds
<1> QED
  BY <1>1, <1>2, StepsAreOfKinds DEF Next, BusesInv

(***************************************************************************)
(* The inductive invariant holds in every state: one call at most writes   *)
(* to a table, and every call has read what its table holds, or what it    *)
(* held before later handlers came.                                        *)
(***************************************************************************)
THEOREM Invariant == Spec => []BusesInv
  BY BusesInvInit, BusesInvStep, PTL DEF Spec

(***************************************************************************)
(* Variables keep their types: among them, a command, a query or an event  *)
(* type never gets a second handler.                                       *)
(***************************************************************************)
THEOREM Typing == Spec => []TypeOK
<1>1. BusesInv => TypeOK
  <2> SUFFICES ASSUME BusesInv PROVE TypeOK
    OBVIOUS
  <2>1. \A t \in Tables, n \in Names :
          Range(handlers[t][n]) \subseteq 1..calls /\ (t \in Routed => Len(handlers[t][n]) <= 1)
    <3> SUFFICES ASSUME NEW t \in Tables, NEW n \in Names
                 PROVE  /\ Range(handlers[t][n]) \subseteq 1..calls
                        /\ t \in Routed => Len(handlers[t][n]) <= 1
      OBVIOUS
    <3>1. handlers[t][n] \in Seq(Nat)
      BY DEF BusesInv, Shapes
    <3>2. DOMAIN handlers[t][n] = 1..Len(handlers[t][n])
      BY <3>1
    <3> QED
      BY <3>2, BusesAssumption DEF BusesInv, TablesOK, Range
  <2>2. \A f \in Frames : FrameOK(f)
    <3> SUFFICES ASSUME NEW g \in Goroutines, NEW f \in Range(stack[g]) PROVE FrameOK(f)
      BY DEF Frames
    <3>1. stack[g] \in Seq(Frame)
      BY DEF BusesInv, Shapes
    <3>2. PICK i \in Positions(g) : f = stack[g][i]
      BY <3>1 DEF Range, Positions
    <3> QED
      BY <3>2 DEF BusesInv, CallsOK, CallOK
  <2> QED
    BY <2>1, <2>2 DEF BusesInv, Shapes, TypeOK
<1> QED
  BY <1>1, Invariant, PTL

(***************************************************************************)
(* A step leaves the handlers of a name, or adds to them.                  *)
(***************************************************************************)
LEMMA StepDisplacesNone ==
  ASSUME BusesInv, [Next]_vars, NEW t \in Tables, NEW n \in Names
  PROVE  IsPrefix(handlers[t][n], handlers'[t][n])
<1>1. CASE handlers' = handlers
  <2>1. handlers[t][n] \in Seq(Nat)
    BY DEF BusesInv, Shapes
  <2> QED
    BY <1>1, <2>1, PrefixReflexive
<1>2. ASSUME NEW g \in Goroutines, NEW u \in Tables, Write(g, u)
      PROVE  IsPrefix(handlers[t][n], handlers'[t][n])
  BY <1>2, WriteKeeps
<1>3. ASSUME NEW g \in Goroutines, StepKinds(g)
      PROVE  handlers' = handlers \/ \E u \in Tables : Write(g, u)
  BY <1>3 DEF StepKinds, Calls, Announce, Lock, RLock, Returns, Check, Lookup, Runs
<1> QED
  BY <1>1, <1>2, <1>3, StepsAreOfKinds DEF Next, BusesInv, vars

(***************************************************************************)
(* Nothing that has been registered is displaced or lost, whoever          *)
(* registers at the same time.                                             *)
(***************************************************************************)
THEOREM NothingIsDisplaced == Spec => NeverDisplaced
<1>1. BusesInv /\ [Next]_vars =>
        [\A t \in Tables, n \in Names : IsPrefix(handlers[t][n], handlers'[t][n])]_vars
  BY StepDisplacesNone
<1> QED
  BY <1>1, Invariant, PTL DEF Spec, NeverDisplaced

(***************************************************************************)
(* A call that returns has run all it has read.                            *)
(***************************************************************************)
LEMMA ReturnsAfterAll ==
  ASSUME BusesInv, NEW g \in Goroutines, Returns(g)
  PROVE  LET f   == Top(g)
             ran == SubSeq(f.read, 1, f.ran)
         IN \/ f.table # EventBus /\ f.failed
            \/ IsPrefix(f.before, ran) /\ IsPrefix(ran, handlers[f.table][f.name])
<1>1. Busy(g) /\ Shapes
  BY DEF Returns, At, BusesInv
<1>2. PICK f \in Frame : f = Top(g) /\ f.pc = "run" /\ ~(f.ran < Len(f.read)) /\ CallOK(f)
  BY <1>1, TopIsLast DEF Returns, At, GoesOn, BusesInv, CallsOK
<1>3. f.read \in Seq(Nat) /\ f.ran \in Nat
  BY DEF Frame
<1>4. f.ran = Len(f.read)
  <2>1. f.ran \in 0..Len(f.read) /\ Len(f.read) \in Nat
    BY <1>2, <1>3 DEF CallOK, FrameOK
  <2> QED
    BY <1>2, <1>3, <2>1
<1>5. SubSeq(f.read, 1, f.ran) = f.read
  BY <1>3, <1>4, SubSeqFull
<1> QED
  BY <1>2, <1>5 DEF CallOK, ReadsItsTable

(***************************************************************************)
(* A Publish that returns has run every handler subscribed before it was   *)
(* called, in the order of registration and whatever failed, and none that *)
(* is not subscribed; a Send, an Ask or an Unmarshal has run what was      *)
(* registered before, or reports an error.                                 *)
(***************************************************************************)
THEOREM RegisteredIsRun == Spec => RunsTheRegistered
<1>1. BusesInv /\ [Next]_vars =>
        [\A g \in Goroutines :
           Returns(g) =>
             LET f   == Top(g)
                 ran == SubSeq(f.read, 1, f.ran)
             IN \/ f.table # EventBus /\ f.failed
                \/ IsPrefix(f.before, ran) /\ IsPrefix(ran, handlers[f.table][f.name])]_vars
  BY ReturnsAfterAll
<1> QED
  BY <1>1, Invariant, PTL DEF Spec, RunsTheRegistered

=============================================================================
