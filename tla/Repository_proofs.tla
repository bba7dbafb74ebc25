-------------------------- MODULE Repository_proofs -------------------------
(***************************************************************************)
(* Theorems about Repository, for every set of aggregates and workers and  *)
(* every bound on the events: what is stored was decided on the history    *)
(* before it, once, and Save and Publish tell of nothing else.             *)
(***************************************************************************)
EXTENDS Repository, SequenceTheorems, TLAPS

Live(w) == object[w] # NoObject

(***************************************************************************)
(* The type invariant, with what the program counter of a worker says      *)
(* about its object.                                                       *)
(***************************************************************************)
Appends == [agg : Aggregates, expected : Nat, envelopes : Seq(Envelopes)]

Versions(o) == o.committed + Len(o.uncommitted) = Len(o.applied)

Stage(w) ==
  /\ pc[w] # "ready" => Live(w)
  /\ pc[w] = "append" => object[w].uncommitted # <<>>
  /\ pc[w] = "publish" => object[w].uncommitted = <<>>
  /\ outgoing[w] # <<>> <=> pc[w] = "publish"

WorkersOK ==
  /\ object \in [Workers -> Objects \cup {NoObject}]
  /\ pc \in [Workers -> {"ready", "append", "publish"}]
  /\ outgoing \in [Workers -> Seq(Envelopes)]
  /\ raised \in [Workers -> 0..MaxRaised]
  /\ \A w \in Workers : Stage(w) /\ (Live(w) => Versions(object[w]))

StoreOK ==
  /\ hasOutbox \in BOOLEAN
  /\ streams \in [Aggregates -> Seq(Envelopes)]
  /\ late \subseteq Appends
  /\ published \subseteq Names /\ saved \subseteq Names

Typed == WorkersOK /\ StoreOK

(***************************************************************************)
(* An empty sequence is one of length 0.                                   *)
(***************************************************************************)
LEMMA EmptyIsShort ==
  ASSUME NEW S, NEW s \in Seq(S)
  PROVE  s = <<>> <=> Len(s) = 0
BY EmptySeq

(***************************************************************************)
(* The names of the events of a stream, position by position.              *)
(***************************************************************************)
LEMMA NamesOfStream ==
  ASSUME NEW s \in Seq(Envelopes)
  PROVE  /\ NamesOf(s) \in Seq(Names) /\ Len(NamesOf(s)) = Len(s)
         /\ \A i \in 1..Len(s) : s[i] \in Envelopes /\ NamesOf(s)[i] = s[i].event.name
<1>1. \A i \in 1..Len(s) : s[i] \in Envelopes /\ s[i].event.name \in Names
  <2>1. \A i \in 1..Len(s) : s[i] \in Envelopes
    OBVIOUS
  <2>2. \A e \in Envelopes : e.event.name \in Names
    BY DEF Envelopes, Events
  <2> QED BY <2>1, <2>2
<1>2. DOMAIN s = 1..Len(s) /\ Len(s) \in Nat
  OBVIOUS
<1>3. NamesOf(s) = [i \in 1..Len(s) |-> s[i].event.name]
  BY <1>2 DEF NamesOf
<1> QED BY <1>1, <1>2, <1>3

(***************************************************************************)
(* The types of the parts of an object.                                    *)
(***************************************************************************)
LEMMA LiveObject ==
  ASSUME Typed, NEW w \in Workers, Live(w)
  PROVE  /\ object[w] \in Objects /\ Versions(object[w])
         /\ object[w].agg \in Aggregates /\ object[w].committed \in Nat
         /\ object[w].applied \in Seq(Names) /\ object[w].uncommitted \in Seq(Events)
BY DEF Typed, WorkersOK, Live, Objects

(***************************************************************************)
(* What Save would ask the store to append for an object.                  *)
(***************************************************************************)
EnvelopesOf(o) ==
  [i \in DOMAIN o.uncommitted |-> [event |-> o.uncommitted[i], sequence |-> o.committed + i]]

BatchOf(o) == [agg |-> o.agg, expected |-> o.committed, envelopes |-> EnvelopesOf(o)]

(***************************************************************************)
(* The envelopes of an object, numbered from its committed version.        *)
(***************************************************************************)
LEMMA EnvelopesOfObject ==
  ASSUME NEW o \in Objects
  PROVE  /\ EnvelopesOf(o) \in Seq(Envelopes) /\ Len(EnvelopesOf(o)) = Len(o.uncommitted)
         /\ \A i \in 1..Len(o.uncommitted) :
              EnvelopesOf(o)[i] = [event |-> o.uncommitted[i], sequence |-> o.committed + i]
         /\ BatchOf(o) \in Appends
<1>1. o.uncommitted \in Seq(Events) /\ o.committed \in Nat /\ o.agg \in Aggregates
  BY DEF Objects
<1> DEFINE u == o.uncommitted
           c == o.committed
<1> HIDE DEF u, c
<1>2. u \in Seq(Events) /\ c \in Nat
  BY <1>1 DEF u, c
<1>3. DOMAIN u = 1..Len(u) /\ Len(u) \in Nat
  BY <1>2
<1>4. \A i \in 1..Len(u) : [event |-> u[i], sequence |-> c + i] \in Envelopes
  BY <1>2 DEF Envelopes
<1>5. EnvelopesOf(o) = [i \in 1..Len(u) |-> [event |-> u[i], sequence |-> c + i]]
  BY <1>3 DEF EnvelopesOf, u, c
<1>6. EnvelopesOf(o) \in Seq(Envelopes)
  BY <1>3, <1>4, <1>5
<1> QED BY <1>1, <1>3, <1>5, <1>6 DEF BatchOf, Appends, u, c

(***************************************************************************)
(* What Save appends are the envelopes of the worker's object.             *)
(***************************************************************************)
LEMMA PendingEnvelopes ==
  ASSUME Typed, NEW w \in Workers, Live(w)
  PROVE  /\ Pending(w) = EnvelopesOf(object[w])
         /\ Pending(w) \in Seq(Envelopes) /\ Len(Pending(w)) = Len(object[w].uncommitted)
<1>1. Pending(w) = EnvelopesOf(object[w])
  BY DEF Pending, ExpectedVersion, EnvelopesOf
<1> QED BY <1>1, LiveObject, EnvelopesOfObject

(***************************************************************************)
(* Appending a batch to a stream.                                          *)
(***************************************************************************)
LEMMA ExtendStream ==
  ASSUME streams \in [Aggregates -> Seq(Envelopes)], NEW g \in Aggregates,
         NEW e \in Seq(Envelopes), Extend(g, e)
  PROVE  /\ streams' \in [Aggregates -> Seq(Envelopes)]
         /\ Len(streams'[g]) = Len(streams[g]) + Len(e)
         /\ \A i \in 1..Len(streams[g]) : streams'[g][i] = streams[g][i]
         /\ \A i \in 1..Len(e) : streams'[g][Len(streams[g]) + i] = e[i]
         /\ \A k \in Aggregates : k # g => streams'[k] = streams[k]
<1>1. streams[g] \in Seq(Envelopes)
  OBVIOUS
<1>2. streams'[g] = streams[g] \o e
  BY DEF Extend
<1>3. streams'[g] \in Seq(Envelopes)
  BY <1>1, <1>2
<1> QED BY <1>1, <1>2, <1>3 DEF Extend

-----------------------------------------------------------------------------
(***************************************************************************)
(* The initial states are typed.                                           *)
(***************************************************************************)
LEMMA InitTyped == Init => Typed
BY RepositoryAssumption DEF Init, Typed, WorkersOK, StoreOK, Stage, Live

(***************************************************************************)
(* Replacing the state of one worker.                                      *)
(***************************************************************************)
Others(w) ==
  \A x \in Workers : x # w =>
     /\ object'[x] = object[x] /\ pc'[x] = pc[x]
     /\ outgoing'[x] = outgoing[x] /\ raised'[x] = raised[x]

(***************************************************************************)
(* A step of one worker keeps the rest typed.                              *)
(***************************************************************************)
LEMMA OthersOK ==
  ASSUME Typed, NEW w \in Workers, Others(w),
         object' \in [Workers -> Objects \cup {NoObject}],
         pc' \in [Workers -> {"ready", "append", "publish"}],
         outgoing' \in [Workers -> Seq(Envelopes)],
         raised' \in [Workers -> 0..MaxRaised],
         Stage(w)', Live(w)' => Versions(object'[w])
  PROVE  WorkersOK'
BY DEF Typed, WorkersOK, Others, Stage, Live

(***************************************************************************)
(* New and Load hand out an object whose versions agree.                   *)
(***************************************************************************)
LEMMA CreateTyped ==
  ASSUME Typed, NEW w \in Workers, NEW g \in Aggregates, New(w, g) \/ Load(w, g)
  PROVE  Typed'
<1>1. PICK o \in Objects : Versions(o) /\ object' = [object EXCEPT ![w] = o]
  <2>1. CASE New(w, g)
    <3> DEFINE o == [agg |-> g, applied |-> <<>>, committed |-> 0, uncommitted |-> <<>>]
    <3>1. o \in Objects /\ Versions(o)
      BY DEF Objects, Versions
    <3> QED BY <2>1, <3>1 DEF New
  <2>2. CASE Load(w, g)
    <3> DEFINE o == [agg |-> g, applied |-> NamesOf(streams[g]), committed |-> Len(streams[g]),
                     uncommitted |-> <<>>]
    <3>1. streams[g] \in Seq(Envelopes)
      BY DEF Typed, StoreOK
    <3>2. NamesOf(streams[g]) \in Seq(Names) /\ Len(NamesOf(streams[g])) = Len(streams[g])
      BY <3>1, NamesOfStream
    <3>3. o \in Objects /\ Versions(o)
      BY <3>1, <3>2 DEF Objects, Versions
    <3> QED BY <2>2, <3>3 DEF Load
  <2> QED BY <2>1, <2>2
<1>2. /\ pc[w] = "ready"
      /\ UNCHANGED <<hasOutbox, streams, late, pc, outgoing, published, saved, raised>>
  BY DEF New, Load
<1>3. object' \in [Workers -> Objects \cup {NoObject}] /\ object'[w] = o
      /\ \A x \in Workers : x # w => object'[x] = object[x]
  BY <1>1 DEF Typed, WorkersOK
<1>4. Stage(w)'
  BY <1>2 DEF Typed, WorkersOK, Stage
<1> QED BY <1>1, <1>2, <1>3, <1>4, OthersOK DEF Others, Typed, WorkersOK, StoreOK

(***************************************************************************)
(* What Raise does to the object and to the counter of its worker.         *)
(***************************************************************************)
LEMMA RaiseEffect ==
  ASSUME Typed, NEW w \in Workers, Raise(w)
  PROVE  LET o == object[w]
             name == <<w, raised[w] + 1>>
             event == [name |-> name, basis |-> o.applied]
         IN /\ name \in Names /\ event \in Events
            /\ object'[w] = [o EXCEPT !.applied = Append(@, name), !.uncommitted = Append(@, event)]
            /\ object'[w] \in Objects /\ Versions(object'[w])
            /\ object' \in [Workers -> Objects \cup {NoObject}]
            /\ raised' \in [Workers -> 0..MaxRaised] /\ raised'[w] = raised[w] + 1
            /\ \A x \in Workers : x # w => object'[x] = object[x] /\ raised'[x] = raised[x]
<1> DEFINE o == object[w]
           name == <<w, raised[w] + 1>>
           event == [name |-> name, basis |-> o.applied]
           o2 == [o EXCEPT !.applied = Append(@, name), !.uncommitted = Append(@, event)]
<1>1. o \in Objects /\ Versions(o) /\ o.applied \in Seq(Names) /\ o.uncommitted \in Seq(Events)
      /\ o.committed \in Nat
  BY LiveObject DEF Raise, Ready, Live
<1>2. raised[w] \in Nat /\ raised[w] + 1 \in 1..MaxRaised
  BY RepositoryAssumption DEF Raise, Typed, WorkersOK
<1>3. name \in Names
  BY <1>2 DEF Names
<1> HIDE DEF name
<1>4. event \in Events
  BY <1>1, <1>3 DEF Events
<1>5. object' = [object EXCEPT ![w] = o2]
  BY DEF Raise, name
<1> HIDE DEF event, o
<1>6. /\ Append(o.applied, name) \in Seq(Names) /\ Len(Append(o.applied, name)) = Len(o.applied) + 1
      /\ Append(o.uncommitted, event) \in Seq(Events)
      /\ Len(Append(o.uncommitted, event)) = Len(o.uncommitted) + 1
  BY <1>1, <1>3, <1>4, SMTT(20)
<1>7. o2 \in Objects /\ Versions(o2)
  <2> DEFINE applied == Append(o.applied, name)
             uncommitted == Append(o.uncommitted, event)
  <2>1. applied \in Seq(Names) /\ uncommitted \in Seq(Events)
        /\ o.committed + Len(uncommitted) = Len(applied)
    BY <1>1, <1>6, SMTT(30) DEF Versions
  <2>2. o2 = [o EXCEPT !.applied = applied, !.uncommitted = uncommitted]
    OBVIOUS
  <2> HIDE DEF applied, uncommitted, o2
  <2> QED BY <1>1, <2>1, <2>2 DEF Objects, Versions
<1> USE DEF o
<1>8. /\ object'[w] = o2 /\ object' \in [Workers -> Objects \cup {NoObject}]
      /\ \A x \in Workers : x # w => object'[x] = object[x]
  BY <1>5, <1>7 DEF Typed, WorkersOK
<1>9. /\ raised' \in [Workers -> 0..MaxRaised] /\ raised'[w] = raised[w] + 1
      /\ \A x \in Workers : x # w => raised'[x] = raised[x]
  BY <1>2 DEF Raise, Typed, WorkersOK
<1> QED BY <1>3, <1>4, <1>7, <1>8, <1>9 DEF name, event

(***************************************************************************)
(* Raise keeps the types.                                                  *)
(***************************************************************************)
LEMMA RaiseTyped ==
  ASSUME Typed, NEW w \in Workers, Raise(w)
  PROVE  Typed'
<1>1. pc[w] = "ready" /\ UNCHANGED <<hasOutbox, streams, late, pc, outgoing, published, saved>>
  BY DEF Raise, Ready
<1>2. Stage(w)'
  BY <1>1 DEF Typed, WorkersOK, Stage
<1> QED BY <1>1, <1>2, RaiseEffect, OthersOK DEF Others, Typed, WorkersOK, StoreOK

(***************************************************************************)
(* What a successful Append and markCommitted do to the object and the     *)
(* stream.                                                                 *)
(***************************************************************************)
LEMMA AppendOkEffect ==
  ASSUME Typed, NEW w \in Workers, AppendOk(w)
  PROVE  LET o == object[w]
         IN /\ Live(w) /\ o.agg \in Aggregates
            /\ Len(streams[o.agg]) = o.committed
            /\ Extend(o.agg, Pending(w))
            /\ object'[w] = [o EXCEPT !.uncommitted = <<>>, !.committed = Len(o.applied)]
            /\ object'[w] \in Objects /\ Versions(object'[w])
            /\ object' \in [Workers -> Objects \cup {NoObject}]
            /\ \A x \in Workers : x # w => object'[x] = object[x]
<1> DEFINE o == object[w]
           o2 == [o EXCEPT !.uncommitted = <<>>, !.committed = Len(o.applied)]
<1>1. Live(w)
  BY DEF AppendOk, Typed, WorkersOK, Stage
<1>2. o \in Objects /\ o.applied \in Seq(Names) /\ o.agg \in Aggregates
  BY <1>1, LiveObject
<1>3. o2 \in Objects /\ Versions(o2)
  <2> HIDE DEF o
  <2> DEFINE none == <<>>
  <2>1. Len(o.applied) \in Nat /\ none \in Seq(Events) /\ Len(none) = 0
    BY <1>2, EmptySeq
  <2>2. o2 = [o EXCEPT !.uncommitted = none, !.committed = Len(o.applied)]
    OBVIOUS
  <2> HIDE DEF none, o2
  <2>3. o2.applied = o.applied /\ o2.uncommitted = none /\ o2.committed = Len(o.applied)
    BY <1>2, <2>2 DEF Objects
  <2>4. Versions(o2)
    BY <2>1, <2>3 DEF Versions
  <2>5. o2 \in Objects
    BY <1>2, <2>1, <2>2 DEF Objects
  <2> QED BY <2>4, <2>5
<1>4. object' = [object EXCEPT ![w] = o2]
  BY DEF AppendOk, MarkCommitted
<1>5. /\ object'[w] = o2 /\ object' \in [Workers -> Objects \cup {NoObject}]
      /\ \A x \in Workers : x # w => object'[x] = object[x]
  BY <1>3, <1>4 DEF Typed, WorkersOK
<1>6. Len(streams[o.agg]) = o.committed /\ Extend(o.agg, Pending(w))
  BY DEF AppendOk, HeadFits, ExpectedVersion
<1> QED BY <1>1, <1>2, <1>3, <1>5, <1>6

(***************************************************************************)
(* What an object has applied are names of events.                         *)
(***************************************************************************)
LEMMA AppliedNames ==
  ASSUME Typed, NEW w \in Workers, Live(w)
  PROVE  Range(object[w].applied) \subseteq Names
<1>1. object[w].applied \in Seq(Names)
  BY LiveObject
<1>2. \A i \in DOMAIN object[w].applied : object[w].applied[i] \in Names
  BY <1>1
<1> QED BY <1>2 DEF Range

(***************************************************************************)
(* A successful Append keeps the types.                                    *)
(***************************************************************************)
LEMMA AppendOkTyped ==
  ASSUME Typed, NEW w \in Workers, AppendOk(w)
  PROVE  Typed'
<1>1. Live(w) /\ Pending(w) \in Seq(Envelopes) /\ Pending(w) # <<>>
      /\ object[w].uncommitted \in Seq(Events)
  <2>1. Live(w) /\ object[w].uncommitted # <<>>
    BY DEF AppendOk, Typed, WorkersOK, Stage
  <2>2. Pending(w) \in Seq(Envelopes) /\ Len(Pending(w)) = Len(object[w].uncommitted)
        /\ object[w].uncommitted \in Seq(Events)
    BY <2>1, LiveObject, PendingEnvelopes
  <2> QED BY <2>1, <2>2
<1>2. /\ pc' \in [Workers -> {"ready", "append", "publish"}]
      /\ outgoing' \in [Workers -> Seq(Envelopes)]
      /\ pc'[w] = IF hasOutbox THEN "ready" ELSE "publish"
      /\ outgoing'[w] = IF hasOutbox THEN <<>> ELSE Pending(w)
      /\ \A x \in Workers : x # w => pc'[x] = pc[x] /\ outgoing'[x] = outgoing[x]
  BY <1>1, ZenonT(30) DEF AppendOk, Typed, WorkersOK, Stage
<1>3. Stage(w)'
  BY <1>1, <1>2, AppendOkEffect, ZenonT(30)
  DEF Stage, Live, Typed, StoreOK, Objects, NoObject
<1>4. StoreOK'
  <2>1. streams' \in [Aggregates -> Seq(Envelopes)]
    BY <1>1, AppendOkEffect, ExtendStream DEF Typed, StoreOK
  <2>2. saved' \subseteq Names
    BY <1>1, AppliedNames DEF AppendOk, Typed, StoreOK
  <2> QED BY <2>1, <2>2 DEF AppendOk, Typed, StoreOK
<1> QED BY <1>2, <1>3, <1>4, AppendOkEffect, OthersOK DEF AppendOk, Others, Typed, WorkersOK

(***************************************************************************)
(* Every other step of Save keeps the types.                               *)
(***************************************************************************)
LEMMA SaveTyped ==
  ASSUME Typed, NEW w \in Workers, Save(w) \/ Discard(w)
  PROVE  Typed'
<1>1. CASE NothingToSave(w)
  <2>1. saved' \subseteq Names
    BY <1>1, AppliedNames DEF NothingToSave, Ready, Live, Typed, StoreOK
  <2> QED BY <1>1, <2>1 DEF NothingToSave, Typed, StoreOK, WorkersOK, Stage, Live
<1>2. CASE BeginSave(w) \/ AppendConflict(w) \/ AppendFails(w)
  BY <1>2 DEF BeginSave, AppendConflict, AppendFails, Ready, Typed, StoreOK, WorkersOK, Stage, Live
<1>3. CASE AppendOk(w)
  BY <1>3, AppendOkTyped
<1>4. CASE AppendGivenUp(w)
  <2>1. Live(w)
    BY <1>4 DEF AppendGivenUp, Typed, WorkersOK, Stage
  <2>2. [agg |-> object[w].agg, expected |-> ExpectedVersion(w), envelopes |-> Pending(w)]
          \in Appends
    BY <2>1, LiveObject, PendingEnvelopes DEF Appends, ExpectedVersion
  <2>3. late' \subseteq Appends
    BY <1>4, <2>2 DEF AppendGivenUp, Typed, StoreOK
  <2> QED BY <1>4, <2>3 DEF AppendGivenUp, Typed, StoreOK, WorkersOK, Stage, Live
<1>5. CASE PublishOk(w)
  <2>1. Live(w) /\ outgoing[w] \in Seq(Envelopes) /\ outgoing[w] # <<>>
    BY <1>5 DEF PublishOk, Typed, WorkersOK, Stage
  <2>2. Head(outgoing[w]) \in Envelopes /\ Tail(outgoing[w]) \in Seq(Envelopes)
        /\ Len(Tail(outgoing[w])) = Len(outgoing[w]) - 1
    BY <2>1
  <2>3. Head(outgoing[w]).event.name \in Names
    BY <2>2 DEF Envelopes, Events
  <2>4. saved' \subseteq Names /\ published' \subseteq Names
    BY <1>5, <2>1, <2>3, AppliedNames DEF PublishOk, Typed, StoreOK
  <2>5. /\ outgoing' \in [Workers -> Seq(Envelopes)] /\ outgoing'[w] = Tail(outgoing[w])
        /\ pc' \in [Workers -> {"ready", "append", "publish"}]
        /\ pc'[w] = IF Len(outgoing[w]) = 1 THEN "ready" ELSE "publish"
        /\ \A x \in Workers : x # w => pc'[x] = pc[x] /\ outgoing'[x] = outgoing[x]
    BY <1>5, <2>2 DEF PublishOk, Typed, WorkersOK
  <2>6. Tail(outgoing[w]) = <<>> <=> Len(outgoing[w]) = 1
    <3> DEFINE rest == Tail(outgoing[w])
    <3>1. Len(outgoing[w]) \in Nat /\ Len(rest) = Len(outgoing[w]) - 1
      BY <2>1, <2>2
    <3>2. rest = <<>> <=> Len(rest) = 0
      BY <2>2, EmptyIsShort
    <3> QED BY <3>1, <3>2
  <2>7. Stage(w)'
    BY <1>5, <2>1, <2>5, <2>6 DEF PublishOk, Typed, WorkersOK, Stage, Live
  <2>8. WorkersOK'
    BY <1>5, <2>5, <2>7, OthersOK DEF PublishOk, Others, Typed, WorkersOK, Live
  <2> QED BY <1>5, <2>4, <2>8 DEF PublishOk, Typed, StoreOK
<1>6. CASE PublishFails(w)
  BY <1>6 DEF PublishFails, Typed, StoreOK, WorkersOK, Stage, Live
<1>7. CASE Discard(w)
  BY <1>7 DEF Discard, Ready, Typed, StoreOK, WorkersOK, Stage, Live
<1> QED BY <1>1, <1>2, <1>3, <1>4, <1>5, <1>6, <1>7 DEF Save

(***************************************************************************)
(* The store deciding a given-up Append keeps the types.                   *)
(***************************************************************************)
LEMMA DecideLateTyped ==
  ASSUME Typed, DecideLate
  PROVE  Typed'
<1>1. PICK a \in late :
        /\ late' = late \ {a}
        /\ \/ Len(streams[a.agg]) = a.expected /\ Extend(a.agg, a.envelopes)
           \/ UNCHANGED streams
        /\ UNCHANGED <<hasOutbox, object, pc, outgoing, published, saved, raised>>
  BY DEF DecideLate
<1>2. a.agg \in Aggregates /\ a.envelopes \in Seq(Envelopes)
  BY DEF Typed, StoreOK, Appends
<1>3. streams' \in [Aggregates -> Seq(Envelopes)]
  BY <1>1, <1>2, ExtendStream DEF Typed, StoreOK
<1> QED BY <1>1, <1>3 DEF Typed, StoreOK, WorkersOK, Stage, Live

(***************************************************************************)
(* The type invariant is inductive.                                        *)
(***************************************************************************)
LEMMA TypedInductive ==
  /\ Init => Typed
  /\ Typed /\ [Next]_vars => Typed'
<1>1. ASSUME Typed, UNCHANGED vars PROVE Typed'
  BY <1>1 DEF vars, Typed, WorkersOK, StoreOK, Stage, Live
<1> QED BY <1>1, InitTyped, CreateTyped, RaiseTyped, SaveTyped, DecideLateTyped DEF Next

(***************************************************************************)
(* Every state is well typed, and the versions of an object count its      *)
(* events.                                                                 *)
(***************************************************************************)
THEOREM Typing == Spec => []TypeOK
<1>1. ASSUME Typed PROVE TypeOK
  <2>1. \A g \in Aggregates : \A i \in DOMAIN streams[g] :
          streams[g][i].event.name \in Names /\ streams[g][i].sequence \in Nat \ {0}
    <3> SUFFICES ASSUME NEW g \in Aggregates, NEW i \in DOMAIN streams[g]
                 PROVE  streams[g][i].event.name \in Names /\ streams[g][i].sequence \in Nat \ {0}
      OBVIOUS
    <3>1. streams[g] \in Seq(Envelopes)
      BY <1>1 DEF Typed, StoreOK
    <3>2. streams[g][i] \in Envelopes
      BY <3>1
    <3> QED BY <3>2 DEF Envelopes, Events
  <2>2. \A w \in Workers : object[w] = NoObject \/ ObjectOK(object[w])
    BY <1>1, LiveObject DEF ObjectOK, Versions, Live
  <2> QED BY <1>1, <2>1, <2>2 DEF Typed, StoreOK, WorkersOK, Stage, TypeOK
<1> QED BY <1>1, TypedInductive, PTL DEF Spec

-----------------------------------------------------------------------------
(***************************************************************************)
(* The batches that may still reach the store: those of the objects, and   *)
(* those of Appends that their callers have given up.                      *)
(***************************************************************************)
Batches == late \cup {BatchOf(object[w]) : w \in {x \in Workers : Live(x)}}

NameIn(b, i) == b.envelopes[i].event.name

NameAt(g, i) == streams[g][i].event.name

IsStored(n) == \E g \in Aggregates : \E i \in 1..Len(streams[g]) : NameAt(g, i) = n

(***************************************************************************)
(* A batch continues the stream it was raised on.                          *)
(***************************************************************************)
Continues(b, i) ==
  LET basis == b.envelopes[i].event.basis
  IN /\ b.envelopes[i].sequence = b.expected + i
     /\ Len(basis) = b.expected + i - 1
     /\ \A j \in 1..b.expected : basis[j] = NameAt(b.agg, j)
     /\ \A j \in 1..(i - 1) : basis[b.expected + j] = NameIn(b, j)

Grounded(b) ==
  /\ b.expected <= Len(streams[b.agg])
  /\ \A i \in 1..Len(b.envelopes) : Continues(b, i)

(***************************************************************************)
(* Its names are its own, and once one of them is stored it no longer fits *)
(* the head of its stream.                                                 *)
(***************************************************************************)
Fresh(b) ==
  /\ \A i, j \in 1..Len(b.envelopes) : NameIn(b, i) = NameIn(b, j) => i = j
  /\ \A i \in 1..Len(b.envelopes) :
       /\ NameIn(b, i)[2] <= raised[NameIn(b, i)[1]]
       /\ IsStored(NameIn(b, i)) => b.expected < Len(streams[b.agg])

(***************************************************************************)
(* Batches with an event in common are attempts to append it at the same   *)
(* place.                                                                  *)
(***************************************************************************)
Rivals(b, c) ==
  \A i \in 1..Len(b.envelopes), j \in 1..Len(c.envelopes) :
     NameIn(b, i) = NameIn(c, j) => b.agg = c.agg /\ b.expected = c.expected

BatchesOK ==
  /\ \A b \in Batches : Grounded(b) /\ Fresh(b)
  /\ \A b, c \in Batches : Rivals(b, c)

(***************************************************************************)
(* What a stream holds at position i.                                      *)
(***************************************************************************)
Placed(g, i) ==
  LET basis == streams[g][i].event.basis
  IN /\ streams[g][i].sequence = i
     /\ Len(basis) = i - 1
     /\ \A j \in 1..(i - 1) : basis[j] = NameAt(g, j)

StreamsOK ==
  /\ \A g \in Aggregates : \A i \in 1..Len(streams[g]) : Placed(g, i)
  /\ StoredOnce
  /\ \A n \in Names : IsStored(n) => n[2] <= raised[n[1]]

(***************************************************************************)
(* An object has applied the stored events it counts as committed, and     *)
(* then those it has raised.                                               *)
(***************************************************************************)
Coherent(w) ==
  LET o == object[w]
  IN /\ o.committed <= Len(streams[o.agg])
     /\ \A i \in 1..o.committed : o.applied[i] = NameAt(o.agg, i)
     /\ \A i \in 1..Len(o.uncommitted) : o.applied[o.committed + i] = o.uncommitted[i].name

ObjectsOK == \A w \in Workers : Live(w) => Coherent(w)

(***************************************************************************)
(* The types of the parts of a batch.                                      *)
(***************************************************************************)
LEMMA BatchTyped ==
  ASSUME Typed, NEW b \in Batches
  PROVE  /\ b \in Appends /\ b.agg \in Aggregates /\ b.expected \in Nat
         /\ b.envelopes \in Seq(Envelopes) /\ streams[b.agg] \in Seq(Envelopes)
         /\ \A i \in 1..Len(b.envelopes) : b.envelopes[i] \in Envelopes /\ NameIn(b, i) \in Names
<1>1. b \in Appends
  BY LiveObject, EnvelopesOfObject DEF Batches, Typed, StoreOK
<1>2. b.agg \in Aggregates /\ b.expected \in Nat /\ b.envelopes \in Seq(Envelopes)
  BY <1>1 DEF Appends
<1>3. \A i \in 1..Len(b.envelopes) : b.envelopes[i] \in Envelopes
  BY <1>2
<1>4. \A e \in Envelopes : e.event.name \in Names
  BY DEF Envelopes, Events
<1> QED BY <1>1, <1>2, <1>3, <1>4 DEF Typed, StoreOK, NameIn

(***************************************************************************)
(* What an Append that takes effect does.                                  *)
(***************************************************************************)
Takes(b) ==
  /\ b \in Batches
  /\ Len(streams[b.agg]) = b.expected
  /\ Extend(b.agg, b.envelopes)
  /\ UNCHANGED raised

(***************************************************************************)
(* A batch that the store takes ends up at the end of its stream, and all  *)
(* the rest of the store stays.                                            *)
(***************************************************************************)
LEMMA TakesEffect ==
  ASSUME Typed, NEW b, Takes(b)
  PROVE  /\ \A g \in Aggregates : \A i \in 1..Len(streams[g]) :
              streams'[g][i] = streams[g][i]
         /\ \A g \in Aggregates \ {b.agg} : streams'[g] = streams[g]
         /\ Len(streams'[b.agg]) = b.expected + Len(b.envelopes)
         /\ \A i \in 1..Len(b.envelopes) : streams'[b.agg][b.expected + i] = b.envelopes[i]
         /\ \A g \in Aggregates : Len(streams[g]) <= Len(streams'[g])
                                  /\ Len(streams'[g]) \in Nat /\ Len(streams[g]) \in Nat
         /\ \A i \in (b.expected + 1)..(b.expected + Len(b.envelopes)) :
              /\ i - b.expected \in 1..Len(b.envelopes)
              /\ streams'[b.agg][i] = b.envelopes[i - b.expected]
         /\ b.agg \in Aggregates /\ b.expected \in Nat /\ Len(b.envelopes) \in Nat
<1>1. /\ b.agg \in Aggregates /\ b.expected \in Nat /\ b.envelopes \in Seq(Envelopes)
      /\ streams \in [Aggregates -> Seq(Envelopes)] /\ Len(streams[b.agg]) = b.expected
      /\ Extend(b.agg, b.envelopes)
  BY BatchTyped DEF Takes, Typed, StoreOK
<1>2. /\ streams' \in [Aggregates -> Seq(Envelopes)]
      /\ Len(streams'[b.agg]) = b.expected + Len(b.envelopes)
      /\ \A i \in 1..b.expected : streams'[b.agg][i] = streams[b.agg][i]
      /\ \A i \in 1..Len(b.envelopes) : streams'[b.agg][b.expected + i] = b.envelopes[i]
      /\ \A k \in Aggregates : k # b.agg => streams'[k] = streams[k]
  BY <1>1, ExtendStream, SMTT(20)
<1>3. \A g \in Aggregates : Len(streams[g]) \in Nat /\ Len(streams'[g]) \in Nat
  BY <1>1, <1>2
<1>4. Len(b.envelopes) \in Nat
  BY <1>1
<1>5. \A i \in (b.expected + 1)..(b.expected + Len(b.envelopes)) :
         /\ i - b.expected \in 1..Len(b.envelopes)
         /\ i = b.expected + (i - b.expected)
  BY <1>1, <1>4
<1>6. \A i \in (b.expected + 1)..(b.expected + Len(b.envelopes)) :
         streams'[b.agg][i] = b.envelopes[i - b.expected]
  BY <1>2, <1>5
<1>7. \A g \in Aggregates : \A i \in 1..Len(streams[g]) : streams'[g][i] = streams[g][i]
  BY <1>1, <1>2
<1>8. \A g \in Aggregates : Len(streams[g]) <= Len(streams'[g])
  <2> SUFFICES ASSUME NEW g \in Aggregates PROVE Len(streams[g]) <= Len(streams'[g])
    OBVIOUS
  <2>1. CASE g = b.agg
    BY <1>1, <1>2, <1>3, <1>4, <2>1
  <2>2. CASE g # b.agg
    BY <1>2, <1>3, <2>2
  <2> QED BY <2>1, <2>2
<1> QED BY <1>1, <1>2, <1>3, <1>4, <1>5, <1>6, <1>7, <1>8

(***************************************************************************)
(* What is stored after the store takes a batch: what was, and the batch.  *)
(***************************************************************************)
LEMMA TakesStored ==
  ASSUME Typed, NEW b, Takes(b), NEW n
  PROVE  /\ IsStored(n) => IsStored(n)'
         /\ IsStored(n)' => IsStored(n) \/ \E i \in 1..Len(b.envelopes) : NameIn(b, i) = n
<1>1. IsStored(n) => IsStored(n)'
  BY TakesEffect DEF IsStored, NameAt
<1>2. ASSUME NEW g \in Aggregates, NEW i \in 1..Len(streams'[g]), NameAt(g, i)' = n
      PROVE  IsStored(n) \/ \E j \in 1..Len(b.envelopes) : NameIn(b, j) = n
  <2>1. CASE i \in 1..Len(streams[g])
    BY <1>2, <2>1, TakesEffect DEF IsStored, NameAt
  <2>2. CASE i \notin 1..Len(streams[g])
    <3>1. g = b.agg /\ i \in (b.expected + 1)..(b.expected + Len(b.envelopes))
      BY <2>2, TakesEffect DEF Takes
    <3> QED BY <1>2, <3>1, TakesEffect DEF NameAt, NameIn
  <2> QED BY <2>1, <2>2
<1> QED BY <1>1, <1>2 DEF IsStored

(***************************************************************************)
(* A position in a sequence of m + k elements is in the first or the       *)
(* second part.                                                            *)
(***************************************************************************)
LEMMA Split ==
  ASSUME NEW m \in Nat, NEW k \in Nat, NEW j \in 1..(m + k)
  PROVE  j \in 1..m \/ (j - m \in 1..k /\ j = m + (j - m))
OBVIOUS

(***************************************************************************)
(* A batch that continues its stream still does once the stream grows.     *)
(***************************************************************************)
LEMMA GroundedStays ==
  ASSUME Typed, NEW b, Takes(b), NEW c \in Batches, Grounded(c)
  PROVE  Grounded(c)'
<1>1. c.agg \in Aggregates /\ c.expected \in Nat
  BY BatchTyped
<1>2. \A j \in 1..c.expected : NameAt(c.agg, j)' = NameAt(c.agg, j)
  BY <1>1, TakesEffect, SMTT(30) DEF Grounded, NameAt
<1>3. c.expected <= Len(streams'[c.agg])
  BY <1>1, TakesEffect DEF Grounded
<1>4. ASSUME NEW i \in 1..Len(c.envelopes) PROVE Continues(c, i)'
  BY <1>2, <1>4 DEF Grounded, Continues, NameIn
<1> QED BY <1>3, <1>4 DEF Grounded

(***************************************************************************)
(* A batch with an event in common with the one that is taken no longer    *)
(* fits.                                                                   *)
(***************************************************************************)
LEMMA FreshStays ==
  ASSUME Typed, BatchesOK, NEW b, Takes(b), NEW c \in Batches
  PROVE  Fresh(c)'
<1>1. c.agg \in Aggregates /\ c.expected \in Nat /\ Fresh(c) /\ Rivals(b, c)
  BY BatchTyped DEF BatchesOK, Takes
<1>2. ASSUME NEW i \in 1..Len(c.envelopes), IsStored(NameIn(c, i))'
      PROVE  c.expected < Len(streams'[c.agg])
  <2>1. CASE IsStored(NameIn(c, i))
    BY <1>1, <2>1, TakesEffect DEF Fresh
  <2>2. CASE \E j \in 1..Len(b.envelopes) : NameIn(b, j) = NameIn(c, i)
    BY <1>1, <2>2, TakesEffect DEF Rivals
  <2>3. NameIn(c, i)' = NameIn(c, i)
    BY DEF NameIn
  <2> QED BY <1>2, <2>1, <2>2, <2>3, TakesStored
<1> QED BY <1>1, <1>2 DEF Fresh, Takes, NameIn

(***************************************************************************)
(* Every event of the grown stream was decided on what is before it.       *)
(***************************************************************************)
LEMMA PlacedStays ==
  ASSUME Typed, BatchesOK, StreamsOK, NEW b, Takes(b), NEW g \in Aggregates,
         NEW i \in 1..Len(streams'[g])
  PROVE  Placed(g, i)'
<1>1. CASE i \in 1..Len(streams[g])
  <2>1. streams'[g][i] = streams[g][i] /\ Placed(g, i)
    BY <1>1, TakesEffect DEF StreamsOK
  <2>2. \A j \in 1..(i - 1) : NameAt(g, j)' = NameAt(g, j)
    BY <1>1, TakesEffect, SMTT(30) DEF NameAt
  <2> QED BY <2>1, <2>2 DEF Placed
<1>2. CASE i \notin 1..Len(streams[g])
  <2>1. g = b.agg /\ i \in (b.expected + 1)..(b.expected + Len(b.envelopes))
    BY <1>2, TakesEffect DEF Takes
  <2> DEFINE k == i - b.expected
  <2>2. k \in 1..Len(b.envelopes) /\ streams'[g][i] = b.envelopes[k] /\ i = b.expected + k
        /\ b.expected \in Nat /\ Len(b.envelopes) \in Nat
    BY <2>1, TakesEffect
  <2> HIDE DEF k
  <2>3. Continues(b, k)
    BY <2>2 DEF BatchesOK, Grounded, Takes
  <2>4. \A j \in 1..b.expected : NameAt(g, j)' = NameAt(g, j)
    BY <2>1, TakesEffect DEF NameAt, Takes
  <2>5. \A j \in 1..(k - 1) : NameAt(g, b.expected + j)' = NameIn(b, j)
    <3>1. \A j \in 1..(k - 1) : j \in 1..Len(b.envelopes)
      BY <2>2
    <3> QED BY <2>1, <3>1, TakesEffect DEF NameAt, NameIn
  <2>6. ASSUME NEW j \in 1..(i - 1) PROVE b.envelopes[k].event.basis[j] = NameAt(g, j)'
    <3>1. CASE j \in 1..b.expected
      BY <2>1, <2>3, <2>4, <3>1 DEF Continues
    <3>2. CASE j \notin 1..b.expected
      <4>1. j - b.expected \in 1..(k - 1) /\ j = b.expected + (j - b.expected)
        <5>1. k - 1 \in Nat /\ i - 1 = b.expected + (k - 1)
          BY <2>2
        <5> QED BY <2>2, <3>2, <5>1, Split
      <4> QED BY <2>3, <2>5, <4>1 DEF Continues
    <3> QED BY <3>1, <3>2
  <2>7. b.envelopes[k].sequence = i /\ Len(b.envelopes[k].event.basis) = i - 1
    BY <2>2, <2>3 DEF Continues
  <2> QED BY <2>2, <2>6, <2>7 DEF Placed
<1> QED BY <1>1, <1>2

(***************************************************************************)
(* The batch that is taken repeats no stored event.                        *)
(***************************************************************************)
LEMMA StoredOnceStays ==
  ASSUME Typed, BatchesOK, StreamsOK, NEW b, Takes(b)
  PROVE  StoredOnce'
<1> SUFFICES ASSUME NEW g \in Aggregates, NEW k \in Aggregates,
                    NEW i \in 1..Len(streams'[g]), NEW j \in 1..Len(streams'[k]),
                    NameAt(g, i)' = NameAt(k, j)'
             PROVE  g = k /\ i = j
  <2>1. \A x \in Aggregates : DOMAIN streams'[x] = 1..Len(streams'[x])
    <3>1. streams' \in [Aggregates -> Seq(Envelopes)]
      BY BatchTyped, ExtendStream DEF Takes, Typed, StoreOK
    <3> QED BY <3>1, SMTT(20)
  <2> QED BY <2>1, SMTT(30) DEF StoredOnce, NameAt
<1>1. \A x \in Aggregates : \A m \in 1..Len(streams'[x]) :
        \/ m \in 1..Len(streams[x]) /\ NameAt(x, m)' = NameAt(x, m)
        \/ /\ x = b.agg /\ m - b.expected \in 1..Len(b.envelopes)
           /\ NameAt(x, m)' = NameIn(b, m - b.expected)
  <2> SUFFICES ASSUME NEW x \in Aggregates, NEW m \in 1..Len(streams'[x]),
                      m \notin 1..Len(streams[x])
               PROVE  /\ x = b.agg /\ m - b.expected \in 1..Len(b.envelopes)
                      /\ NameAt(x, m)' = NameIn(b, m - b.expected)
    BY TakesEffect DEF NameAt
  <2>1. x = b.agg /\ m \in (b.expected + 1)..(b.expected + Len(b.envelopes))
    BY TakesEffect DEF Takes
  <2> QED BY <2>1, TakesEffect DEF NameAt, NameIn
<1>2. \A m \in 1..Len(b.envelopes) : ~IsStored(NameIn(b, m))
  BY TakesEffect DEF BatchesOK, Fresh, Takes
<1>3. \A x \in Aggregates : \A m \in 1..Len(streams[x]) : IsStored(NameAt(x, m))
  BY DEF IsStored
<1>4. \A x \in Aggregates : DOMAIN streams[x] = 1..Len(streams[x])
  BY DEF Typed, StoreOK
<1>5. CASE i \in 1..Len(streams[g]) /\ NameAt(g, i)' = NameAt(g, i)
  <2>1. CASE j \in 1..Len(streams[k]) /\ NameAt(k, j)' = NameAt(k, j)
    <3>1. NameAt(g, i) = NameAt(k, j)
      BY <1>5, <2>1
    <3>2. i \in DOMAIN streams[g] /\ j \in DOMAIN streams[k]
      BY <1>4, <1>5, <2>1
    <3> QED BY <3>1, <3>2 DEF StreamsOK, StoredOnce, NameAt
  <2>2. CASE j - b.expected \in 1..Len(b.envelopes) /\ NameAt(k, j)' = NameIn(b, j - b.expected)
    BY <1>2, <1>3, <1>5, <2>2
  <2> QED BY <1>1, <2>1, <2>2
<1>6. CASE /\ g = b.agg /\ i - b.expected \in 1..Len(b.envelopes)
           /\ NameAt(g, i)' = NameIn(b, i - b.expected)
  <2>1. CASE j \in 1..Len(streams[k]) /\ NameAt(k, j)' = NameAt(k, j)
    BY <1>2, <1>3, <1>6, <2>1
  <2>2. CASE /\ k = b.agg /\ j - b.expected \in 1..Len(b.envelopes)
             /\ NameAt(k, j)' = NameIn(b, j - b.expected)
    <3>1. i - b.expected = j - b.expected
      BY <1>6, <2>2 DEF BatchesOK, Fresh, Takes
    <3> QED BY <1>6, <2>2, <3>1, TakesEffect
  <2> QED BY <1>1, <2>1, <2>2
<1> QED BY <1>1, <1>5, <1>6

(***************************************************************************)
(* The three together: the store takes a batch.                            *)
(***************************************************************************)
LEMMA TakesKeeps ==
  ASSUME Typed, BatchesOK, StreamsOK, NEW b, Takes(b)
  PROVE  /\ StreamsOK'
         /\ \A c \in Batches : Grounded(c)' /\ Fresh(c)'
<1>1. \A c \in Batches : Grounded(c)' /\ Fresh(c)'
  BY GroundedStays, FreshStays DEF BatchesOK
<1>2. \A g \in Aggregates : \A i \in 1..Len(streams'[g]) : Placed(g, i)'
  BY PlacedStays
<1>3. ASSUME NEW n \in Names, IsStored(n)' PROVE n[2] <= raised'[n[1]]
  BY <1>3, TakesStored DEF StreamsOK, BatchesOK, Fresh, Takes
<1> QED BY <1>1, <1>2, <1>3, StoredOnceStays DEF StreamsOK

-----------------------------------------------------------------------------
(***************************************************************************)
(* An object without pending events has nothing to append.                 *)
(***************************************************************************)
Vacant(b) ==
  /\ b.agg \in Aggregates /\ b.envelopes = <<>>
  /\ b.expected <= Len(streams[b.agg])

(***************************************************************************)
(* No step but Raise makes a batch that is not vacant.                     *)
(***************************************************************************)
Inherited == \A b \in Batches' : b \in Batches \/ Vacant(b)'

(***************************************************************************)
(* If no batch is new but those without envelopes, the batches stay in     *)
(* order.                                                                  *)
(***************************************************************************)
LEMMA BatchesStay ==
  ASSUME Typed, BatchesOK, Inherited,
         \A c \in Batches : Grounded(c)' /\ Fresh(c)'
  PROVE  BatchesOK'
<1>1. ASSUME NEW b, Vacant(b)'
      PROVE  Grounded(b)' /\ Fresh(b)' /\ \A c : Rivals(b, c) /\ Rivals(c, b)
  <2>1. 1..Len(b.envelopes) = {}
    BY <1>1 DEF Vacant
  <2> QED BY <1>1, <2>1 DEF Vacant, Grounded, Fresh, Rivals
<1>2. \A b, c : Rivals(b, c)' <=> Rivals(b, c)
  BY DEF Rivals, NameIn
<1> QED BY <1>1, <1>2 DEF Inherited, BatchesOK

(***************************************************************************)
(* Nothing is stored: what is said of streams and batches stays true.      *)
(***************************************************************************)
LEMMA StoreUnchanged ==
  ASSUME BatchesOK, StreamsOK, UNCHANGED <<streams, raised>>
  PROVE  StreamsOK' /\ \A c \in Batches : Grounded(c)' /\ Fresh(c)'
BY DEF BatchesOK, StreamsOK, Placed, NameAt, NameIn, StoredOnce, IsStored, Grounded, Continues,
   Fresh

(***************************************************************************)
(* Raise adds an event to one batch.                                       *)
(***************************************************************************)
LEMMA RaiseBatch ==
  ASSUME Typed, BatchesOK, StreamsOK, ObjectsOK, NEW w \in Workers, Raise(w)
  PROVE  LET b == BatchOf(object[w])
             c == BatchOf(object'[w])
             n == Len(b.envelopes)
         IN /\ b \in Batches /\ c.agg = b.agg /\ c.expected = b.expected
            /\ n \in Nat /\ Len(c.envelopes) = n + 1
            /\ \A i \in 1..n : c.envelopes[i] = b.envelopes[i]
            /\ NameIn(c, n + 1) = <<w, raised[w] + 1>>
            /\ Continues(c, n + 1)
            /\ \A x \in Batches' : x \in Batches \/ x = c
<1> DEFINE o == object[w]
           q == object'[w]
           name == <<w, raised[w] + 1>>
           event == [name |-> name, basis |-> o.applied]
           b == BatchOf(o)
           c == BatchOf(q)
           n == Len(b.envelopes)
<1>1. /\ o \in Objects /\ q \in Objects /\ Live(w)
      /\ q = [o EXCEPT !.applied = Append(@, name), !.uncommitted = Append(@, event)]
      /\ \A x \in Workers : x # w => object'[x] = object[x]
  BY RaiseEffect, LiveObject DEF Raise, Ready, Live
<1>2. /\ o.applied \in Seq(Names) /\ o.uncommitted \in Seq(Events) /\ o.committed \in Nat
      /\ o.committed + Len(o.uncommitted) = Len(o.applied) /\ event \in Events
  BY <1>1, RaiseEffect, LiveObject DEF Versions
<1>3. b \in Batches
  BY <1>1 DEF Batches
<1>4. q.agg = o.agg /\ q.committed = o.committed /\ q.uncommitted = Append(o.uncommitted, event)
  BY <1>1 DEF Objects
<1>5. /\ n = Len(o.uncommitted) /\ n \in Nat /\ Len(q.uncommitted) = n + 1
      /\ \A i \in 1..n : q.uncommitted[i] = o.uncommitted[i]
      /\ q.uncommitted[n + 1] = event
  <2>1. n = Len(o.uncommitted)
    BY <1>1, EnvelopesOfObject DEF BatchOf
  <2> HIDE DEF event, o, q, n
  <2> QED BY <1>2, <1>4, <2>1
<1>6. /\ Len(c.envelopes) = n + 1
      /\ \A i \in 1..n : c.envelopes[i] = b.envelopes[i] /\ c.envelopes[i].event = o.uncommitted[i]
      /\ c.envelopes[n + 1] = [event |-> event, sequence |-> o.committed + (n + 1)]
  <2> DEFINE e == c.envelopes
             old == b.envelopes
             u == o.uncommitted
             v == q.uncommitted
             m == o.committed
  <2>1. /\ Len(e) = Len(v)
        /\ \A i \in 1..Len(v) : e[i] = [event |-> v[i], sequence |-> q.committed + i]
        /\ \A i \in 1..Len(u) : old[i] = [event |-> u[i], sequence |-> m + i]
    BY <1>1, EnvelopesOfObject DEF BatchOf
  <2>2. /\ n \in Nat /\ Len(v) = n + 1 /\ Len(u) = n /\ v[n + 1] = event /\ q.committed = m
        /\ \A i \in 1..n : v[i] = u[i]
    BY <1>4, <1>5
  <2> HIDE DEF b, c, event, o, q, n, e, old, u, v, m
  <2>3. n + 1 \in 1..Len(v) /\ \A i \in 1..n : i \in 1..Len(v)
    BY <2>2
  <2>4. e[n + 1] = [event |-> event, sequence |-> m + (n + 1)]
    BY <2>1, <2>2, <2>3
  <2>5. \A i \in 1..n : e[i] = [event |-> u[i], sequence |-> m + i] /\ old[i] = e[i]
    BY <2>1, <2>2, <2>3
  <2>6. Len(e) = n + 1
    BY <2>1, <2>2
  <2>7. ASSUME NEW i \in 1..n PROVE e[i] = old[i] /\ e[i].event = u[i]
    <3>1. e[i] = [event |-> u[i], sequence |-> m + i] /\ e[i] = old[i]
      BY <2>5
    <3> QED BY <3>1
  <2> QED BY <2>4, <2>6, <2>7, Zenon DEF e, old, u, m
<1>7. c.agg = b.agg /\ c.expected = b.expected /\ b.expected = o.committed /\ b.agg = o.agg
  BY <1>4 DEF BatchOf
<1>8. NameIn(c, n + 1) = name
  BY <1>6 DEF NameIn
<1>9. Continues(c, n + 1)
  <2>1. \A j \in 1..o.committed : o.applied[j] = NameAt(o.agg, j)
    BY <1>1 DEF ObjectsOK, Coherent
  <2>2. \A j \in 1..n : o.applied[o.committed + j] = NameIn(c, j)
    <3>1. \A j \in 1..n : o.applied[o.committed + j] = o.uncommitted[j].name
      BY <1>1, <1>5 DEF ObjectsOK, Coherent
    <3>2. \A j \in 1..n : c.envelopes[j].event = o.uncommitted[j]
      BY <1>6
    <3> QED BY <3>1, <3>2 DEF NameIn
  <2>3. (n + 1) - 1 = n /\ o.committed + (n + 1) - 1 = Len(o.applied)
    BY <1>2, <1>5
  <2>4. /\ c.envelopes[n + 1].event.basis = o.applied
        /\ c.envelopes[n + 1].sequence = o.committed + (n + 1)
    BY <1>6
  <2> HIDE DEF c, n, o
  <2> QED BY <1>7, <2>1, <2>2, <2>3, <2>4 DEF Continues
<1>10. \A x \in Batches' : x \in Batches \/ x = c
  <2> SUFFICES ASSUME NEW y \in Workers, Live(y)', y # w PROVE BatchOf(object'[y]) \in Batches
    BY DEF Raise, Batches
  <2> QED BY <1>1 DEF Batches, Live
<1> QED BY <1>3, <1>5, <1>6, <1>7, <1>8, <1>9, <1>10

(***************************************************************************)
(* The batch that Raise grows continues the stream, under a name of its    *)
(* own.                                                                    *)
(***************************************************************************)
LEMMA RaiseBatches ==
  ASSUME Typed, BatchesOK, StreamsOK, ObjectsOK, NEW w \in Workers, Raise(w)
  PROVE  BatchesOK' /\ StreamsOK'
<1> DEFINE name == <<w, raised[w] + 1>>
<1>0. PICK b, c : b = BatchOf(object[w]) /\ c = BatchOf(object'[w])
  OBVIOUS
<1> DEFINE n == Len(b.envelopes)
<1>1. /\ b \in Batches /\ c.agg = b.agg /\ c.expected = b.expected
      /\ n \in Nat /\ Len(c.envelopes) = n + 1
      /\ \A i \in 1..n : c.envelopes[i] = b.envelopes[i]
      /\ NameIn(c, n + 1) = name
      /\ Continues(c, n + 1)
      /\ \A x \in Batches' : x \in Batches \/ x = c
  BY <1>0, RaiseBatch
<1>2. /\ name \in Names /\ raised[w] \in Nat /\ \A x \in Workers : raised[x] \in Nat
      /\ raised'[w] = raised[w] + 1
      /\ \A x \in Workers : x # w => raised'[x] = raised[x]
      /\ streams' = streams
  <2>1. streams' = streams
    BY DEF Raise
  <2>2. \A x \in Workers : raised[x] \in Nat
    BY RepositoryAssumption DEF Typed, WorkersOK
  <2> QED BY <2>1, <2>2, RaiseEffect
<1>3. \A m \in Names : m = name \/ m[2] <= raised[m[1]] => m[2] <= raised'[m[1]]
  BY <1>2, RepositoryAssumption DEF Names
<1>4. \A m \in Names : m[2] <= raised[m[1]] => m # name
  BY <1>2
<1>5. \A m : IsStored(m)' <=> IsStored(m)
  BY <1>2 DEF IsStored, NameAt
<1>6. \A x \in Batches : \A i \in 1..Len(x.envelopes) :
         NameIn(x, i) \in Names /\ NameIn(x, i)[2] <= raised[NameIn(x, i)[1]] /\ NameIn(x, i) # name
  BY <1>4, BatchTyped DEF BatchesOK, Fresh
<1>7. ~IsStored(name)
  BY <1>2, <1>4 DEF StreamsOK
<1>8. StreamsOK'
  <2>1. StoredOnce' /\ \A g \in Aggregates : \A i \in 1..Len(streams[g]) : Placed(g, i)'
    BY <1>2 DEF StreamsOK, StoredOnce, Placed, NameAt
  <2>2. \A m \in Names : IsStored(m)' => m[2] <= raised'[m[1]]
    BY <1>3, <1>5 DEF StreamsOK
  <2> QED BY <1>2, <2>1, <2>2 DEF StreamsOK
<1> HIDE DEF name, n
<1>9. \A i \in 1..n : NameIn(c, i) = NameIn(b, i)
  BY <1>1 DEF NameIn
<1>10. \A i \in 1..(n + 1) : i \in 1..n \/ i = n + 1
  BY <1>1
<1>11. \A x \in Batches : Grounded(x)' /\ Fresh(x)'
  <2> SUFFICES ASSUME NEW x \in Batches PROVE Grounded(x)' /\ Fresh(x)'
    OBVIOUS
  <2>1. Grounded(x)'
    BY <1>2 DEF BatchesOK, Grounded, Continues, NameAt, NameIn
  <2>2. \A i \in 1..Len(x.envelopes) : NameIn(x, i)[2] <= raised'[NameIn(x, i)[1]]
    BY <1>3, <1>6
  <2>3. Fresh(x)'
    BY <1>2, <1>5, <2>2 DEF BatchesOK, Fresh, NameIn
  <2> QED BY <2>1, <2>3
<1>12. Grounded(c)'
  <2>1. c.expected <= Len(streams[c.agg])
    BY <1>1 DEF BatchesOK, Grounded
  <2>2. ASSUME NEW i \in 1..n PROVE Continues(c, i)
    <3>1. Continues(b, i) /\ c.envelopes[i] = b.envelopes[i]
      BY <1>1 DEF BatchesOK, Grounded, n
    <3>2. \A j \in 1..(i - 1) : NameIn(c, j) = NameIn(b, j)
      BY <1>1, <1>9
    <3> QED BY <1>1, <3>1, <3>2 DEF Continues
  <2>3. \A i \in 1..Len(c.envelopes) : Continues(c, i)
    BY <1>1, <1>10, <2>2
  <2> QED BY <1>2, <2>1, <2>3 DEF Grounded, Continues, NameAt, NameIn
<1>13. Fresh(c)'
  <2>1. \A i, j \in 1..(n + 1) : NameIn(c, i) = NameIn(c, j) => i = j
    <3>1. \A i, j \in 1..n : NameIn(b, i) = NameIn(b, j) => i = j
      BY <1>1 DEF BatchesOK, Fresh, n
    <3>2. \A i \in 1..n : NameIn(c, i) # name
      BY <1>1, <1>6, <1>9 DEF n
    <3> QED BY <1>1, <1>9, <1>10, <3>1, <3>2
  <2>2. \A i \in 1..(n + 1) :
          /\ NameIn(c, i)[2] <= raised'[NameIn(c, i)[1]]
          /\ IsStored(NameIn(c, i)) => c.expected < Len(streams[c.agg])
    <3>1. \A i \in 1..n : /\ NameIn(c, i)[2] <= raised'[NameIn(c, i)[1]]
                          /\ IsStored(NameIn(c, i)) => c.expected < Len(streams[c.agg])
      BY <1>1, <1>3, <1>6, <1>9 DEF BatchesOK, Fresh, n
    <3>2. name[2] <= raised'[name[1]]
      BY <1>2, <1>3
    <3> QED BY <1>1, <1>7, <1>10, <3>1, <3>2
  <2> QED BY <1>1, <1>2, <1>5, <2>1, <2>2 DEF Fresh, NameIn
<1>14. \A x \in Batches : Rivals(c, x) /\ Rivals(x, c)
  <2> SUFFICES ASSUME NEW x \in Batches, NEW i \in 1..(n + 1), NEW j \in 1..Len(x.envelopes),
                      NameIn(c, i) = NameIn(x, j)
               PROVE  c.agg = x.agg /\ c.expected = x.expected
    BY <1>1 DEF Rivals
  <2>1. i \in 1..n
    BY <1>1, <1>6, <1>10
  <2>2. NameIn(b, i) = NameIn(x, j)
    BY <1>9, <2>1
  <2> QED BY <1>1, <2>1, <2>2 DEF BatchesOK, Rivals, n
<1>15. Rivals(c, c) /\ \A x, y \in Batches : Rivals(x, y)
  BY DEF BatchesOK, Rivals
<1>16. \A x, y : Rivals(x, y)' <=> Rivals(x, y)
  BY DEF Rivals, NameIn
<1>17. BatchesOK'
  BY <1>1, <1>11, <1>12, <1>13, <1>14, <1>15, <1>16 DEF BatchesOK
<1> QED BY <1>8, <1>17

(***************************************************************************)
(* Raise applies to the object the event that it records.                  *)
(***************************************************************************)
LEMMA RaiseObjects ==
  ASSUME Typed, ObjectsOK, NEW w \in Workers, Raise(w)
  PROVE  ObjectsOK'
<1> DEFINE o == object[w]
           q == object'[w]
           name == <<w, raised[w] + 1>>
           event == [name |-> name, basis |-> o.applied]
<1>1. /\ o \in Objects /\ Live(w) /\ Versions(o) /\ Coherent(w)
      /\ q = [o EXCEPT !.applied = Append(@, name), !.uncommitted = Append(@, event)]
      /\ \A x \in Workers : x # w => object'[x] = object[x]
      /\ streams' = streams
  BY RaiseEffect, LiveObject DEF Raise, Ready, Live, ObjectsOK
<1>2. /\ o.applied \in Seq(Names) /\ o.uncommitted \in Seq(Events) /\ o.committed \in Nat
      /\ o.committed + Len(o.uncommitted) = Len(o.applied)
      /\ event \in Events /\ name \in Names /\ event.name = name
  BY <1>1, RaiseEffect, LiveObject DEF Versions
<1>3. /\ q.agg = o.agg /\ q.committed = o.committed
      /\ q.uncommitted = Append(o.uncommitted, event) /\ q.applied = Append(o.applied, name)
  BY <1>1 DEF Objects
<1>4. \A x \in Workers : x # w /\ Live(x)' => Coherent(x)'
  BY <1>1 DEF ObjectsOK, Live, Coherent, NameAt
<1>5. Coherent(w)'
  <2> DEFINE u == o.uncommitted
             a == o.applied
             m == o.committed
  <2>1. /\ m <= Len(streams[o.agg])
        /\ \A i \in 1..m : a[i] = NameAt(o.agg, i)
        /\ \A i \in 1..Len(u) : a[m + i] = u[i].name
    BY <1>1 DEF Coherent
  <2> HIDE DEF event, name, u, a, m
  <2>2. a \in Seq(Names) /\ u \in Seq(Events) /\ m \in Nat /\ m + Len(u) = Len(a) /\ Len(u) \in Nat
    BY <1>2 DEF u, a, m
  <2>3. \A i \in 1..m : Append(a, name)[i] = a[i]
    BY <1>2, <2>2
  <2>4. ASSUME NEW i \in 1..(Len(u) + 1)
        PROVE  Append(a, name)[m + i] = Append(u, event)[i].name
    <3>1. CASE i \in 1..Len(u)
      <4>1. Append(u, event)[i] = u[i] /\ Append(a, name)[m + i] = a[m + i]
        BY <1>2, <2>2, <3>1
      <4> QED BY <2>1, <3>1, <4>1
    <3>2. CASE i = Len(u) + 1
      <4>1. m + i = Len(a) + 1
        BY <2>2, <3>2
      <4>2. Append(u, event)[i] = event /\ Append(a, name)[m + i] = name
        BY <1>2, <2>2, <3>2, <4>1
      <4> QED BY <1>2, <4>2
    <3> QED BY <2>2, <3>1, <3>2
  <2>5. Len(Append(u, event)) = Len(u) + 1
    BY <1>2, <2>2
  <2>6. /\ q.committed = m /\ q.agg = o.agg
        /\ q.uncommitted = Append(u, event) /\ q.applied = Append(a, name)
    BY <1>3 DEF u, a, m
  <2>7. /\ q.committed <= Len(streams[q.agg])
        /\ \A i \in 1..q.committed : q.applied[i] = NameAt(q.agg, i)
        /\ \A i \in 1..Len(q.uncommitted) : q.applied[q.committed + i] = q.uncommitted[i].name
    BY <2>1, <2>3, <2>4, <2>5, <2>6
  <2> QED BY <1>1, <2>7 DEF Coherent, NameAt
<1> QED BY <1>4, <1>5 DEF ObjectsOK

(***************************************************************************)
(* An object with nothing uncommitted has a batch without envelopes.       *)
(***************************************************************************)
LEMMA VacantObject ==
  ASSUME NEW o \in Objects, o.uncommitted = <<>>
  PROVE  BatchOf(o).agg = o.agg /\ BatchOf(o).envelopes = <<>> /\ BatchOf(o).expected = o.committed
<1>1. EnvelopesOf(o) \in Seq(Envelopes) /\ Len(EnvelopesOf(o)) = 0
  BY EnvelopesOfObject, EmptySeq
<1>2. EnvelopesOf(o) = <<>>
  BY <1>1, EmptyIsShort
<1> QED BY <1>2 DEF BatchOf

(***************************************************************************)
(* The steps that leave the store as it is.                                *)
(***************************************************************************)
LEMMA CreateInherits ==
  ASSUME Typed, ObjectsOK, NEW w \in Workers, NEW g \in Aggregates, New(w, g) \/ Load(w, g)
  PROVE  Inherited /\ ObjectsOK' /\ UNCHANGED <<streams, late, raised>>
<1>1. streams' = streams /\ late' = late /\ raised' = raised
  BY DEF New, Load
<1>2. streams[g] \in Seq(Envelopes) /\ Len(streams[g]) \in Nat
  BY DEF Typed, StoreOK
<1>3. PICK o : /\ object' = [object EXCEPT ![w] = o]
               /\ o.agg = g /\ o.uncommitted = <<>>
               /\ o.committed \in Nat /\ o.applied \in Seq(Names)
               /\ o \in Objects
               /\ o.committed <= Len(streams[g])
               /\ \A i \in 1..o.committed : o.applied[i] = NameAt(g, i)
  <2>1. CASE New(w, g)
    <3> DEFINE o == [agg |-> g, applied |-> <<>>, committed |-> 0, uncommitted |-> <<>>]
    <3>1. o \in Objects
      BY DEF Objects
    <3>2. object' = [object EXCEPT ![w] = o]
      BY <2>1 DEF New
    <3>3. /\ o.agg = g /\ o.uncommitted = <<>> /\ o.committed = 0 /\ 1..o.committed = {}
          /\ o.applied \in Seq(Names)
      OBVIOUS
    <3> HIDE DEF o
    <3>4. /\ object' = [object EXCEPT ![w] = o]
          /\ o.agg = g /\ o.uncommitted = <<>>
          /\ o.committed \in Nat /\ o.applied \in Seq(Names)
          /\ o \in Objects
          /\ o.committed <= Len(streams[g])
          /\ \A i \in 1..o.committed : o.applied[i] = NameAt(g, i)
      BY <1>2, <3>1, <3>2, <3>3
    <3> QED BY <3>4, Zenon
  <2>2. CASE Load(w, g)
    <3> DEFINE a == NamesOf(streams[g])
               o == [agg |-> g, applied |-> a, committed |-> Len(streams[g]), uncommitted |-> <<>>]
    <3>1. a \in Seq(Names) /\ \A i \in 1..Len(streams[g]) : a[i] = NameAt(g, i)
      BY <1>2, NamesOfStream DEF NameAt
    <3>2. object' = [object EXCEPT ![w] = o]
      BY <2>2 DEF Load
    <3> HIDE DEF a
    <3>3. o \in Objects
      BY <1>2, <3>1 DEF Objects
    <3>4. o.agg = g /\ o.uncommitted = <<>> /\ o.committed = Len(streams[g]) /\ o.applied = a
      OBVIOUS
    <3> HIDE DEF o
    <3>5. /\ object' = [object EXCEPT ![w] = o]
          /\ o.agg = g /\ o.uncommitted = <<>>
          /\ o.committed \in Nat /\ o.applied \in Seq(Names)
          /\ o \in Objects
          /\ o.committed <= Len(streams[g])
          /\ \A i \in 1..o.committed : o.applied[i] = NameAt(g, i)
      BY <1>2, <3>1, <3>2, <3>3, <3>4
    <3> QED BY <3>5, Zenon
  <2> QED BY <2>1, <2>2
<1>4. object'[w] = o /\ \A x \in Workers : x # w => object'[x] = object[x]
  BY <1>3 DEF Typed, WorkersOK
<1>5. Vacant(BatchOf(o))
  BY <1>3, VacantObject DEF Vacant
<1>6. Inherited
  <2> SUFFICES ASSUME NEW x \in Workers, Live(x)'
               PROVE  BatchOf(object'[x]) \in Batches \/ (Vacant(BatchOf(o))' /\ object'[x] = o)
    BY <1>1 DEF Inherited, Batches
  <2>1. CASE x = w
    BY <1>1, <1>4, <1>5, <2>1 DEF Vacant
  <2>2. CASE x # w
    BY <1>4, <2>2 DEF Batches, Live
  <2> QED BY <2>1, <2>2
<1>7. Coherent(w)'
  <2>1. 1..Len(o.uncommitted) = {}
    BY <1>3
  <2> QED BY <1>1, <1>3, <1>4, <2>1 DEF Coherent, NameAt
<1>8. \A x \in Workers : x # w /\ Live(x)' => Coherent(x)'
  BY <1>1, <1>4, SMTT(30) DEF ObjectsOK, Coherent, Live, NameAt
<1>9. ObjectsOK'
  <2> SUFFICES ASSUME NEW x \in Workers, Live(x)' PROVE Coherent(x)'
    BY DEF ObjectsOK
  <2> QED BY <1>7, <1>8
<1> QED BY <1>1, <1>6, <1>9

(***************************************************************************)
(* The steps that change neither the store nor an object make no new       *)
(* batch.                                                                  *)
(***************************************************************************)
LEMMA ControlInherits ==
  ASSUME Typed, ObjectsOK, NEW w \in Workers,
         \/ NothingToSave(w) \/ BeginSave(w) \/ AppendConflict(w) \/ AppendFails(w)
         \/ AppendGivenUp(w) \/ PublishOk(w) \/ PublishFails(w) \/ Discard(w)
  PROVE  Inherited /\ ObjectsOK' /\ UNCHANGED <<streams, raised>>
<1>1. streams' = streams /\ raised' = raised
  BY DEF NothingToSave, BeginSave, AppendConflict, AppendFails, AppendGivenUp, PublishOk,
         PublishFails, Discard
<1>2. \A x \in Workers : Live(x)' => Live(x) /\ object'[x] = object[x]
  BY DEF NothingToSave, BeginSave, AppendConflict, AppendFails, AppendGivenUp, PublishOk,
         PublishFails, Discard, Live, Typed, WorkersOK
<1>3. late' \subseteq Batches
  <2>1. CASE AppendGivenUp(w)
    <3>1. Live(w)
      BY <2>1 DEF AppendGivenUp, Typed, WorkersOK, Stage
    <3>2. [agg |-> object[w].agg, expected |-> ExpectedVersion(w), envelopes |-> Pending(w)]
            = BatchOf(object[w])
      BY <3>1, PendingEnvelopes DEF BatchOf, ExpectedVersion
    <3> QED BY <2>1, <3>1, <3>2 DEF AppendGivenUp, Batches
  <2>2. CASE late' = late
    BY <2>2 DEF Batches
  <2> QED BY <2>1, <2>2 DEF NothingToSave, BeginSave, AppendConflict, AppendFails, PublishOk,
                            PublishFails, Discard
<1>4. Inherited
  BY <1>2, <1>3 DEF Inherited, Batches
<1>5. ObjectsOK'
  <2> SUFFICES ASSUME NEW x \in Workers, Live(x)' PROVE Coherent(x)'
    BY DEF ObjectsOK
  <2>1. Coherent(x) /\ object'[x] = object[x]
    BY <1>2 DEF ObjectsOK
  <2> QED BY <1>1, <2>1 DEF Coherent, NameAt
<1> QED BY <1>1, <1>4, <1>5

(***************************************************************************)
(* The steps that extend a stream.                                         *)
(***************************************************************************)
LEMMA TakesCoherent ==
  ASSUME Typed, NEW b, Takes(b), NEW x \in Workers, Live(x), Coherent(x), object'[x] = object[x]
  PROVE  Coherent(x)'
<1>1. object[x].agg \in Aggregates /\ object[x].committed \in Nat
  BY LiveObject
<1>2. object[x].committed <= Len(streams'[object[x].agg])
  BY <1>1, TakesEffect DEF Coherent
<1>3. \A i \in 1..object[x].committed :
        NameAt(object[x].agg, i) = streams'[object[x].agg][i].event.name
  <2> SUFFICES ASSUME NEW i \in 1..object[x].committed
               PROVE  streams'[object[x].agg][i] = streams[object[x].agg][i]
    BY DEF NameAt
  <2>1. Len(streams[object[x].agg]) \in Nat /\ object[x].committed <= Len(streams[object[x].agg])
    BY <1>1, TakesEffect DEF Coherent
  <2>2. i \in 1..Len(streams[object[x].agg])
    BY <1>1, <2>1
  <2> QED BY <1>1, <2>2, TakesEffect
<1> QED BY <1>2, <1>3 DEF Coherent, NameAt

(***************************************************************************)
(* A successful Append is the store taking the object's batch.             *)
(***************************************************************************)
LEMMA AppendOkTakes ==
  ASSUME Typed, ObjectsOK, NEW w \in Workers, AppendOk(w)
  PROVE  (\E b : Takes(b)) /\ Inherited /\ ObjectsOK'
<1>1. PICK b : b = BatchOf(object[w])
  OBVIOUS
<1> DEFINE o == object[w]
           q == object'[w]
<1>2. /\ Live(w) /\ o.agg \in Aggregates /\ Len(streams[o.agg]) = o.committed
      /\ Extend(o.agg, Pending(w))
      /\ q = [o EXCEPT !.uncommitted = <<>>, !.committed = Len(o.applied)]
      /\ q \in Objects /\ o \in Objects /\ Versions(o)
      /\ \A x \in Workers : x # w => object'[x] = object[x]
  BY AppendOkEffect, LiveObject
<1>3. late' = late /\ raised' = raised
  BY DEF AppendOk
<1>4. b.agg = o.agg /\ b.expected = o.committed /\ b.envelopes = Pending(w)
  BY <1>1, <1>2, PendingEnvelopes DEF BatchOf
<1>5. Takes(b)
  BY <1>1, <1>2, <1>3, <1>4 DEF Takes, Batches
<1>6. /\ o.applied \in Seq(Names) /\ o.uncommitted \in Seq(Events) /\ o.committed \in Nat
      /\ o.committed + Len(o.uncommitted) = Len(o.applied) /\ Len(o.uncommitted) \in Nat
  BY <1>2, LiveObject DEF Versions
<1>7. /\ q.agg = o.agg /\ q.uncommitted = <<>> /\ q.committed = Len(o.applied)
      /\ q.applied = o.applied
  BY <1>2 DEF Objects
<1>8. /\ Len(b.envelopes) = Len(o.uncommitted)
      /\ \A i \in 1..Len(o.uncommitted) : b.envelopes[i].event = o.uncommitted[i]
  <2>1. \A i \in 1..Len(o.uncommitted) :
          b.envelopes[i] = [event |-> o.uncommitted[i], sequence |-> o.committed + i]
    BY <1>1, <1>2, EnvelopesOfObject DEF BatchOf
  <2>2. Len(b.envelopes) = Len(o.uncommitted)
    BY <1>1, <1>2, EnvelopesOfObject DEF BatchOf
  <2>3. ASSUME NEW i \in 1..Len(o.uncommitted) PROVE b.envelopes[i].event = o.uncommitted[i]
    <3>1. b.envelopes[i] = [event |-> o.uncommitted[i], sequence |-> o.committed + i]
      BY <2>1
    <3> QED BY <3>1
  <2> QED BY <2>2, <2>3
<1>9. Len(streams'[o.agg]) = Len(o.applied)
  BY <1>4, <1>5, <1>6, <1>8, TakesEffect
<1>10. PICK v : v = BatchOf(q)
  OBVIOUS
<1>11. Vacant(v)'
  <2>1. v.agg = o.agg /\ v.envelopes = <<>> /\ v.expected = Len(o.applied)
    BY <1>2, <1>7, <1>10, VacantObject
  <2> QED BY <1>2, <1>6, <1>9, <2>1 DEF Vacant
<1>12. Inherited
  <2> SUFFICES ASSUME NEW x \in Workers, Live(x)'
               PROVE  BatchOf(object'[x]) \in Batches \/ BatchOf(object'[x]) = v
    BY <1>3, <1>11 DEF Inherited, Batches
  <2>1. CASE x = w
    BY <1>10, <2>1
  <2>2. CASE x # w
    BY <1>2, <2>2 DEF Batches, Live
  <2> QED BY <2>1, <2>2
<1>13. Coherent(w)'
  <2>1. Coherent(w)
    BY <1>2 DEF ObjectsOK
  <2>2. ASSUME NEW i \in 1..Len(o.applied) PROVE o.applied[i] = streams'[o.agg][i].event.name
    <3>1. CASE i \in 1..o.committed
      <4>1. streams'[o.agg][i] = streams[o.agg][i]
        BY <1>2, <1>5, <3>1, TakesEffect
      <4> QED BY <2>1, <3>1, <4>1 DEF Coherent, NameAt
    <3>2. CASE i \notin 1..o.committed
      <4> DEFINE k == i - o.committed
      <4>1. k \in 1..Len(o.uncommitted) /\ i = o.committed + k
        BY <1>6, <3>2, Split
      <4> HIDE DEF k
      <4>2. o.applied[i] = o.uncommitted[k].name
        BY <2>1, <4>1 DEF Coherent
      <4>3. streams'[o.agg][i] = b.envelopes[k]
        BY <1>4, <1>5, <1>8, <4>1, TakesEffect, SMTT(30)
      <4>4. b.envelopes[k].event = o.uncommitted[k]
        BY <1>8, <4>1
      <4> QED BY <4>2, <4>3, <4>4
    <3> QED BY <3>1, <3>2
  <2>3. 1..Len(q.uncommitted) = {}
    BY <1>7
  <2>4. /\ q.committed <= Len(streams'[q.agg])
        /\ \A i \in 1..q.committed : q.applied[i] = streams'[q.agg][i].event.name
    BY <1>6, <1>7, <1>9, <2>2
  <2> QED BY <2>3, <2>4 DEF Coherent, NameAt
<1>14. \A x \in Workers : x # w /\ Live(x)' => Coherent(x)'
  BY <1>2, <1>5, TakesCoherent DEF ObjectsOK, Live
<1> QED BY <1>5, <1>12, <1>13, <1>14 DEF ObjectsOK

(***************************************************************************)
(* A given-up Append that is decided is taken, or dropped.                 *)
(***************************************************************************)
LEMMA DecideLateTakes ==
  ASSUME Typed, ObjectsOK, DecideLate
  PROVE  /\ (\E b : Takes(b)) \/ UNCHANGED <<streams, raised>>
         /\ Inherited /\ ObjectsOK'
<1>1. PICK a \in late :
        /\ late' = late \ {a}
        /\ \/ Len(streams[a.agg]) = a.expected /\ Extend(a.agg, a.envelopes)
           \/ UNCHANGED streams
        /\ UNCHANGED <<hasOutbox, object, pc, outgoing, published, saved, raised>>
  BY DEF DecideLate
<1>2. Inherited
  BY <1>1 DEF Inherited, Batches, Live
<1>3. CASE Len(streams[a.agg]) = a.expected /\ Extend(a.agg, a.envelopes)
  <2>1. Takes(a)
    BY <1>1, <1>3 DEF Takes, Batches
  <2>2. ObjectsOK'
    BY <1>1, <2>1, TakesCoherent DEF ObjectsOK, Live
  <2> QED BY <1>2, <2>1, <2>2
<1>4. CASE UNCHANGED streams
  <2>1. ObjectsOK'
    BY <1>1, <1>4 DEF ObjectsOK, Coherent, Live, NameAt
  <2> QED BY <1>1, <1>2, <1>4, <2>1
<1> QED BY <1>1, <1>3, <1>4

-----------------------------------------------------------------------------
(***************************************************************************)
(* The inductive invariant of the streams.                                 *)
(***************************************************************************)
History == BatchesOK /\ StreamsOK /\ ObjectsOK

(***************************************************************************)
(* Initially nothing is stored and no batch exists.                        *)
(***************************************************************************)
LEMMA InitHistory == Init => History
<1> SUFFICES ASSUME Init PROVE History
  OBVIOUS
<1>1. Batches = {}
  BY DEF Init, Batches, Live
<1>2. \A g \in Aggregates : streams[g] = <<>> /\ 1..Len(streams[g]) = {} /\ DOMAIN streams[g] = {}
  BY DEF Init
<1>3. StreamsOK
  BY <1>2 DEF StreamsOK, StoredOnce, IsStored
<1> QED BY <1>1, <1>3 DEF History, BatchesOK, ObjectsOK, Init, Live

(***************************************************************************)
(* Every step keeps the inductive invariant.                               *)
(***************************************************************************)
LEMMA HistoryInductive ==
  ASSUME Typed, History, [Next]_vars
  PROVE  History'
<1> USE DEF History
<1>1. CASE UNCHANGED vars
  BY <1>1 DEF vars, BatchesOK, StreamsOK, ObjectsOK, Batches, Grounded, Continues, Fresh, Rivals,
     NameIn, NameAt, IsStored, Placed, StoredOnce, Coherent, Live
<1>2. ASSUME Inherited, (\E b : Takes(b)) \/ UNCHANGED <<streams, raised>>
      PROVE  BatchesOK' /\ StreamsOK'
  BY <1>2, TakesKeeps, StoreUnchanged, BatchesStay
<1>3. CASE \E w \in Workers : Raise(w)
  BY <1>3, RaiseBatches, RaiseObjects
<1>4. CASE \E w \in Workers, g \in Aggregates : New(w, g) \/ Load(w, g)
  BY <1>2, <1>4, CreateInherits
<1>5. CASE \E w \in Workers : AppendOk(w)
  BY <1>2, <1>5, AppendOkTakes
<1>6. CASE DecideLate
  BY <1>2, <1>6, DecideLateTakes
<1>7. ASSUME NEW w \in Workers,
             \/ NothingToSave(w) \/ BeginSave(w) \/ AppendConflict(w) \/ AppendFails(w)
             \/ AppendGivenUp(w) \/ PublishOk(w) \/ PublishFails(w) \/ Discard(w)
      PROVE  History'
  BY <1>2, <1>7, ControlInherits
<1> QED BY <1>1, <1>3, <1>4, <1>5, <1>6, <1>7 DEF Next, Save

(***************************************************************************)
(* The inductive invariant holds in every state.                           *)
(***************************************************************************)
THEOREM HistoryHolds == Spec => [](Typed /\ History)
BY InitHistory, HistoryInductive, TypedInductive, PTL DEF Spec

(***************************************************************************)
(* No event is decided on a stale state.                                   *)
(***************************************************************************)
THEOREM DecidedOnHistoryHolds == Spec => []DecidedOnHistory
<1>1. ASSUME Typed, StreamsOK, NEW g \in Aggregates, NEW i \in DOMAIN streams[g]
      PROVE  streams[g][i].event.basis = SubSeq(NamesOf(streams[g]), 1, i - 1)
  <2> DEFINE basis == streams[g][i].event.basis
             names == NamesOf(streams[g])
  <2>1. streams[g] \in Seq(Envelopes) /\ i \in 1..Len(streams[g]) /\ Len(streams[g]) \in Nat
    BY <1>1 DEF Typed, StoreOK
  <2>2. basis \in Seq(Names) /\ Len(basis) = i - 1 /\ \A j \in 1..(i - 1) : basis[j] = NameAt(g, j)
    <3>1. streams[g][i] \in Envelopes
      BY <2>1
    <3>2. basis \in Seq(Names)
      BY <3>1 DEF Envelopes, Events
    <3>3. Placed(g, i)
      BY <1>1, <2>1 DEF StreamsOK
    <3> QED BY <3>2, <3>3 DEF Placed
  <2>3. names \in Seq(Names) /\ Len(names) = Len(streams[g])
        /\ \A j \in 1..Len(streams[g]) : names[j] = NameAt(g, j)
    BY <2>1, NamesOfStream DEF NameAt
  <2> HIDE DEF basis, names
  <2>4. SubSeq(names, 1, i - 1) = [j \in 1..(i - 1) |-> names[j]]
    BY <2>1, <2>3
  <2>5. basis = [j \in 1..(i - 1) |-> basis[j]]
    BY <2>1, <2>2
  <2>6. \A j \in 1..(i - 1) : j \in 1..Len(streams[g])
    BY <2>1
  <2> QED BY <2>2, <2>3, <2>4, <2>5, <2>6 DEF basis, names
<1>2. Typed /\ History => DecidedOnHistory
  BY <1>1 DEF History, DecidedOnHistory
<1> QED BY <1>2, HistoryHolds, PTL

(***************************************************************************)
(* A raised event is stored at most once.                                  *)
(***************************************************************************)
THEOREM StoredOnceHolds == Spec => []StoredOnce
BY HistoryHolds, PTL DEF History, StreamsOK

(***************************************************************************)
(* The sequence numbers in the envelopes are the positions in the stream.  *)
(***************************************************************************)
THEOREM SequenceIsPositionHolds == Spec => []SequenceIsPosition
<1>1. Typed /\ History => SequenceIsPosition
  BY DEF Typed, StoreOK, History, StreamsOK, Placed, SequenceIsPosition
<1> QED BY <1>1, HistoryHolds, PTL

-----------------------------------------------------------------------------
(***************************************************************************)
(* What Save returns nil for, publishes, or has still to publish.          *)
(***************************************************************************)
StoredIn(S, n) == \E g \in Aggregates : \E i \in 1..Len(S[g]) : S[g][i].event.name = n

Told ==
  /\ \A n \in saved \cup published : StoredIn(streams, n)
  /\ \A w \in Workers : \A i \in 1..Len(outgoing[w]) : StoredIn(streams, outgoing[w][i].event.name)

(***************************************************************************)
(* Whatever an object with nothing uncommitted has applied is stored.      *)
(***************************************************************************)
LEMMA AppliedStored ==
  ASSUME Typed, NEW w \in Workers, Live(w), Coherent(w), object[w].uncommitted = <<>>
  PROVE  \A n \in Range(object[w].applied) : StoredIn(streams, n)
<1>1. /\ object[w].applied \in Seq(Names) /\ object[w].committed = Len(object[w].applied)
      /\ object[w].agg \in Aggregates /\ streams[object[w].agg] \in Seq(Envelopes)
  BY LiveObject, EmptySeq DEF Versions, Typed, StoreOK
<1>2. DOMAIN object[w].applied = 1..object[w].committed
  BY <1>1
<1>3. \A i \in 1..object[w].committed : i \in 1..Len(streams[object[w].agg])
  BY <1>1 DEF Coherent
<1>4. \A i \in 1..object[w].committed : StoredIn(streams, object[w].applied[i])
  BY <1>1, <1>3 DEF Coherent, StoredIn, NameAt
<1> QED BY <1>2, <1>4 DEF Range

(***************************************************************************)
(* What is stored stays stored.                                            *)
(***************************************************************************)
LEMMA StoredStays ==
  ASSUME Typed, History, [Next]_vars, NEW n, StoredIn(streams, n)
  PROVE  StoredIn(streams', n)
<1>1. CASE UNCHANGED streams
  BY <1>1 DEF StoredIn
<1>2. CASE \E b : Takes(b)
  BY <1>2, TakesStored DEF StoredIn, IsStored, NameAt
<1>3. CASE \E w \in Workers : AppendOk(w)
  BY <1>2, <1>3, AppendOkTakes DEF History
<1>4. CASE DecideLate
  BY <1>1, <1>2, <1>4, DecideLateTakes DEF History
<1> QED
  BY <1>1, <1>3, <1>4 DEF Next, Save, vars, New, Load, Raise, Discard, NothingToSave, BeginSave,
     AppendConflict, AppendFails, AppendGivenUp, PublishOk, PublishFails

(***************************************************************************)
(* Append stores every event of the object, those of the batch included.   *)
(***************************************************************************)
LEMMA AppendOkStores ==
  ASSUME Typed, History, NEW w \in Workers, AppendOk(w)
  PROVE  /\ \A n \in Range(object[w].applied) : StoredIn(streams', n)
         /\ \A i \in 1..Len(Pending(w)) : StoredIn(streams', Pending(w)[i].event.name)
<1>1. Live(w)' /\ Coherent(w)' /\ object'[w].uncommitted = <<>>
      /\ object'[w].applied = object[w].applied
      /\ object'[w].committed = Len(object[w].applied) /\ object'[w].agg = object[w].agg
      /\ Live(w) /\ object[w].agg \in Aggregates
  <2>1. object'[w] = [object[w] EXCEPT !.uncommitted = <<>>, !.committed = Len(object[w].applied)]
        /\ Live(w) /\ object[w].agg \in Aggregates
    BY AppendOkEffect
  <2>2. object[w] \in Objects
    BY <2>1, LiveObject
  <2>3. /\ object'[w].uncommitted = <<>> /\ object'[w].applied = object[w].applied
        /\ object'[w].committed = Len(object[w].applied) /\ object'[w].agg = object[w].agg
    BY <2>1, <2>2 DEF Objects
  <2>4. Live(w)'
    BY <2>1, <2>2 DEF Live, Objects, NoObject
  <2> QED BY <2>1, <2>3, <2>4, AppendOkTakes DEF History, ObjectsOK
<1>2. streams' \in [Aggregates -> Seq(Envelopes)]
  BY AppendOkTyped DEF Typed, StoreOK
<1> DEFINE a == object[w].applied
           g == object[w].agg
<1>3. a \in Seq(Names)
  BY <1>1, LiveObject
<1>4. \A i \in 1..Len(a) : i \in 1..Len(streams'[g]) /\ a[i] = streams'[g][i].event.name
  BY <1>1, <1>2, <1>3, SMTT(30) DEF Coherent, NameAt
<1>5. \A i \in 1..Len(a) : StoredIn(streams', a[i])
  BY <1>1, <1>4 DEF StoredIn
<1>6. \A n \in Range(a) : StoredIn(streams', n)
  BY <1>3, <1>5 DEF Range
<1>7. ASSUME NEW i \in 1..Len(Pending(w)) PROVE StoredIn(streams', Pending(w)[i].event.name)
  <2> DEFINE u == object[w].uncommitted
             m == object[w].committed
  <2>1. /\ u \in Seq(Events) /\ m \in Nat /\ Versions(object[w]) /\ object[w] \in Objects
        /\ Coherent(w)
    BY <1>1, LiveObject DEF History, ObjectsOK
  <2>2. i \in 1..Len(u) /\ Pending(w)[i] = [event |-> u[i], sequence |-> m + i]
    BY <1>1, <2>1, PendingEnvelopes, EnvelopesOfObject
  <2>3. Pending(w)[i].event.name = u[i].name
    BY <2>2
  <2>4. a[m + i] = u[i].name
    BY <2>1, <2>2 DEF Coherent
  <2>5. m + i \in 1..Len(a)
    BY <1>3, <2>1, <2>2, SMTT(30) DEF Versions
  <2>6. StoredIn(streams', a[m + i])
    BY <1>5, <2>5
  <2> QED BY <2>3, <2>4, <2>6
<1> QED BY <1>6, <1>7

(***************************************************************************)
(* The invariant of what Save tells is inductive.                          *)
(***************************************************************************)
LEMMA ToldInductive ==
  /\ Init => Told
  /\ Typed /\ History /\ Told /\ [Next]_vars => Told'
<1>1. Init => Told
  BY DEF Init, Told
<1>2. ASSUME Typed, History, Told, [Next]_vars PROVE Told'
  <2>1. \A n : StoredIn(streams, n) => StoredIn(streams', n)
    BY <1>2, StoredStays
  <2>2. ASSUME UNCHANGED <<saved, published, outgoing>> PROVE Told'
    BY <1>2, <2>1, <2>2 DEF Told
  <2>3. ASSUME NEW w \in Workers, NothingToSave(w) PROVE Told'
    <3>1. \A n \in Range(object[w].applied) : StoredIn(streams, n)
      BY <1>2, <2>3, AppliedStored DEF NothingToSave, Ready, Live, History, ObjectsOK
    <3> QED BY <1>2, <2>1, <2>3, <3>1 DEF NothingToSave, Told
  <2>4. ASSUME NEW w \in Workers, AppendOk(w) PROVE Told'
    <3>1. \A n \in saved' \cup published' : StoredIn(streams', n)
      BY <1>2, <2>1, <2>4, AppendOkStores DEF AppendOk, Told
    <3>2. ASSUME NEW x \in Workers, NEW i \in 1..Len(outgoing'[x])
          PROVE  StoredIn(streams', outgoing'[x][i].event.name)
      <4>1. CASE outgoing'[x] = outgoing[x]
        BY <1>2, <2>1, <3>2, <4>1 DEF Told
      <4>2. CASE x = w /\ outgoing'[x] = Pending(w)
        BY <1>2, <2>4, <3>2, <4>2, AppendOkStores
      <4> QED BY <1>2, <2>4, <4>1, <4>2 DEF AppendOk, Typed, WorkersOK
    <3> QED BY <3>1, <3>2 DEF Told
  <2>5. ASSUME NEW w \in Workers, PublishOk(w) PROVE Told'
    <3> DEFINE s == outgoing[w]
    <3>1. /\ s \in Seq(Envelopes) /\ s # <<>> /\ outgoing'[w] = Tail(s) /\ Live(w)
          /\ object[w].uncommitted = <<>>
          /\ \A x \in Workers : x # w => outgoing'[x] = outgoing[x]
      BY <1>2, <2>5 DEF PublishOk, Typed, WorkersOK, Stage
    <3>2. /\ Head(s) = s[1] /\ 1 \in 1..Len(s) /\ Len(Tail(s)) = Len(s) - 1 /\ Len(s) \in Nat
          /\ \A i \in 1..Len(Tail(s)) : Tail(s)[i] = s[i + 1] /\ i + 1 \in 1..Len(s)
      BY <3>1, HeadTailProperties, EmptySeq
    <3>3. \A i \in 1..Len(s) : StoredIn(streams, s[i].event.name)
      BY <1>2 DEF Told
    <3>4. \A n \in Range(object[w].applied) : StoredIn(streams, n)
      BY <1>2, <3>1, AppliedStored DEF History, ObjectsOK
    <3>5. \A n \in saved' \cup published' : StoredIn(streams', n)
      BY <1>2, <2>1, <2>5, <3>2, <3>3, <3>4 DEF PublishOk, Told
    <3>6. ASSUME NEW x \in Workers, NEW i \in 1..Len(outgoing'[x])
          PROVE  StoredIn(streams', outgoing'[x][i].event.name)
      <4>1. CASE x # w
        BY <1>2, <2>1, <3>1, <3>6, <4>1 DEF Told
      <4>2. CASE x = w
        <5>1. outgoing'[x][i] = s[i + 1] /\ i + 1 \in 1..Len(s)
          BY <3>1, <3>2, <3>6, <4>2
        <5> QED BY <2>1, <3>3, <5>1
      <4> QED BY <4>1, <4>2
    <3> QED BY <3>5, <3>6 DEF Told
  <2>6. ASSUME NEW w \in Workers, PublishFails(w) PROVE Told'
    <3>1. \A x \in Workers : outgoing'[x] = outgoing[x] \/ outgoing'[x] = <<>>
      BY <1>2, <2>6 DEF PublishFails, Typed, WorkersOK
    <3>2. \A x \in Workers : outgoing'[x] = <<>> => 1..Len(outgoing'[x]) = {}
      OBVIOUS
    <3>3. \A x \in Workers : \A i \in 1..Len(outgoing'[x]) :
             StoredIn(streams', outgoing'[x][i].event.name)
      BY <1>2, <2>1, <3>1, <3>2 DEF Told
    <3> QED BY <1>2, <2>1, <2>6, <3>3 DEF PublishFails, Told
  <2> QED BY <1>2, <2>2, <2>3, <2>4, <2>5, <2>6 DEF Next, Save, vars, New, Load, Raise, Discard,
             BeginSave, AppendConflict, AppendFails, AppendGivenUp, DecideLate
<1> QED BY <1>1, <1>2

(***************************************************************************)
(* The set of names of the events of some envelopes.                       *)
(***************************************************************************)
LEMMA NamesInSequence ==
  ASSUME NEW s \in Seq(Envelopes), NEW n
  PROVE  n \in NamesIn(s) <=> \E i \in 1..Len(s) : s[i].event.name = n
<1>1. NamesOf(s) \in Seq(Names) /\ DOMAIN NamesOf(s) = 1..Len(s)
      /\ \A i \in 1..Len(s) : NamesOf(s)[i] = s[i].event.name
  BY NamesOfStream
<1> QED BY <1>1 DEF NamesIn, Range

(***************************************************************************)
(* The events found in a stream are those of Stored.                       *)
(***************************************************************************)
LEMMA StoredNames ==
  ASSUME Typed, NEW n
  PROVE  n \in Stored <=> StoredIn(streams, n)
<1>1. \A g \in Aggregates :
         n \in NamesIn(streams[g]) <=> \E i \in 1..Len(streams[g]) : streams[g][i].event.name = n
  BY NamesInSequence DEF Typed, StoreOK
<1> QED BY <1>1 DEF Stored, StoredIn

(***************************************************************************)
(* When Save has returned nil, every event of its object is stored.        *)
(***************************************************************************)
THEOREM SavedIsStoredHolds == Spec => []SavedIsStored
<1>1. Typed /\ Told => SavedIsStored
  BY StoredNames DEF Told, SavedIsStored
<1> QED BY <1>1, HistoryHolds, ToldInductive, PTL DEF Spec

(***************************************************************************)
(* No handler hears of an event that is not in its stream.                 *)
(***************************************************************************)
THEOREM PublishedIsStoredHolds == Spec => []PublishedIsStored
<1>1. Typed /\ Told => PublishedIsStored
  BY StoredNames DEF Told, PublishedIsStored
<1> QED BY <1>1, HistoryHolds, ToldInductive, PTL DEF Spec
-----------------------------------------------------------------------------
(***************************************************************************)
(* With a plain store no Append is left under way, and what an object      *)
(* holds as uncommitted was raised by its worker and is not stored.        *)
(***************************************************************************)
UnsavedBy(w) ==
  \A i \in 1..Len(object[w].uncommitted) :
     /\ object[w].uncommitted[i].name[1] = w
     /\ ~StoredIn(streams, object[w].uncommitted[i].name)

Unsaved ==
  /\ late = {}
  /\ \A w \in Workers : Live(w) => UnsavedBy(w)

(***************************************************************************)
(* An Append that takes effect at once stores a batch of events that its   *)
(* worker raised and nobody has stored.                                    *)
(***************************************************************************)
LEMMA AppendOkBatch ==
  ASSUME Typed, Unsaved, NEW w \in Workers, AppendOk(w)
  PROVE  \E b : /\ Takes(b) /\ b.envelopes = Pending(w)
                /\ \A i \in 1..Len(b.envelopes) :
                     NameIn(b, i)[1] = w /\ ~StoredIn(streams, NameIn(b, i))
<1>1. PICK b : b = BatchOf(object[w])
  OBVIOUS
<1>2. /\ Live(w) /\ object[w] \in Objects /\ Len(streams[object[w].agg]) = object[w].committed
      /\ Extend(object[w].agg, Pending(w)) /\ raised' = raised
  BY AppendOkEffect, LiveObject DEF AppendOk
<1>3. Takes(b) /\ b.envelopes = Pending(w) /\ b.envelopes = EnvelopesOf(object[w])
  BY <1>1, <1>2, PendingEnvelopes DEF Takes, Batches, BatchOf
<1>4. ASSUME NEW i \in 1..Len(b.envelopes)
      PROVE  NameIn(b, i)[1] = w /\ ~StoredIn(streams, NameIn(b, i))
  <2>1. i \in 1..Len(object[w].uncommitted)
        /\ b.envelopes[i] = [event    |-> object[w].uncommitted[i],
                             sequence |-> object[w].committed + i]
    BY <1>2, <1>3, <1>4, EnvelopesOfObject
  <2>2. NameIn(b, i) = object[w].uncommitted[i].name
    BY <2>1 DEF NameIn
  <2> QED BY <1>2, <2>1, <2>2 DEF Unsaved, UnsavedBy
<1> QED BY <1>3, <1>4

(***************************************************************************)
(* An Append of one worker stores no event another worker raised.          *)
(***************************************************************************)
LEMMA AppendOkUnsaved ==
  ASSUME Typed, Unsaved, NEW w \in Workers, AppendOk(w)
  PROVE  Unsaved'
<1>1. /\ object'[w].uncommitted = <<>> /\ late' = late
      /\ \A x \in Workers : x # w => object'[x] = object[x]
  <2>1. object[w] \in Objects
    BY AppendOkEffect, LiveObject
  <2> QED BY <2>1, AppendOkEffect DEF AppendOk, Objects
<1>2. PICK b : Takes(b) /\ \A i \in 1..Len(b.envelopes) : NameIn(b, i)[1] = w
  BY AppendOkBatch
<1>3. ASSUME NEW x \in Workers, Live(x)' PROVE UnsavedBy(x)'
  <2>1. CASE x = w
    <3>1. 1..Len(object'[x].uncommitted) = {}
      BY <1>1, <2>1
    <3> QED BY <3>1 DEF UnsavedBy
  <2>2. CASE x # w
    <3>1. object'[x] = object[x] /\ Live(x)
      BY <1>1, <1>3, <2>2 DEF Live
    <3>2. ASSUME NEW i \in 1..Len(object[x].uncommitted),
                 NEW n, n = object[x].uncommitted[i].name
          PROVE  n[1] = x /\ ~StoredIn(streams', n)
      <4>1. n[1] = x /\ ~StoredIn(streams, n)
        BY <3>1, <3>2 DEF Unsaved, UnsavedBy
      <4>2. StoredIn(streams', n) => \E j \in 1..Len(b.envelopes) : NameIn(b, j) = n
        BY <1>2, <4>1, TakesStored DEF StoredIn, IsStored, NameAt
      <4> QED BY <1>2, <2>2, <4>1, <4>2
    <3> QED BY <3>1, <3>2 DEF UnsavedBy
  <2> QED BY <2>1, <2>2
<1> QED BY <1>1, <1>3 DEF Unsaved

(***************************************************************************)
(* The name of a newly raised event is not in the store.                   *)
(***************************************************************************)
LEMMA RaiseUnsaved ==
  ASSUME Typed, History, Unsaved, NEW w \in Workers, Raise(w)
  PROVE  Unsaved'
<1>1. PICK name : name = <<w, raised[w] + 1>>
  OBVIOUS
<1>2. PICK event : event = [name |-> name, basis |-> object[w].applied]
  OBVIOUS
<1>3. /\ name \in Names /\ event \in Events /\ Live(w)
      /\ object'[w] = [object[w] EXCEPT !.applied = Append(@, name),
                                        !.uncommitted = Append(@, event)]
      /\ \A x \in Workers : x # w => object'[x] = object[x]
      /\ streams' = streams /\ late' = late
  BY <1>1, <1>2, RaiseEffect DEF Raise, Ready, Live
<1>4. object[w].uncommitted \in Seq(Events) /\ object[w] \in Objects
  BY <1>3, LiveObject
<1>5. object'[w].uncommitted = Append(object[w].uncommitted, event)
  BY <1>3, <1>4 DEF Objects
<1>6. name[1] = w /\ ~StoredIn(streams, name)
  <2>1. raised[w] \in Nat /\ name[2] = raised[w] + 1 /\ name[1] = w
    BY <1>1, RepositoryAssumption DEF Typed, WorkersOK
  <2>2. IsStored(name) => name[2] <= raised[w]
    BY <1>3, <2>1 DEF History, StreamsOK
  <2> QED BY <2>1, <2>2 DEF StoredIn, IsStored, NameAt
<1>7. UnsavedBy(w)'
  <2> DEFINE u == object[w].uncommitted
             v == object'[w].uncommitted
  <2>1. /\ Len(v) = Len(u) + 1 /\ v[Len(u) + 1] = event /\ Len(u) \in Nat
        /\ \A i \in 1..Len(u) : v[i] = u[i]
    BY <1>3, <1>4, <1>5
  <2>2. \A i \in 1..Len(u) : u[i].name[1] = w /\ ~StoredIn(streams, u[i].name)
    BY <1>3 DEF Unsaved, UnsavedBy
  <2>3. event.name = name
    BY <1>2
  <2> HIDE DEF u, v
  <2>4. \A i \in 1..Len(v) : i \in 1..Len(u) \/ i = Len(u) + 1
    BY <2>1
  <2>5. \A i \in 1..Len(v) : v[i].name[1] = w /\ ~StoredIn(streams, v[i].name)
    BY <1>6, <2>1, <2>2, <2>3, <2>4
  <2> QED BY <1>3, <2>5 DEF v, UnsavedBy
<1>8. \A x \in Workers : x # w /\ Live(x)' => UnsavedBy(x)'
  BY <1>3 DEF Unsaved, UnsavedBy, Live
<1> QED BY <1>3, <1>7, <1>8 DEF Unsaved

(***************************************************************************)
(* The invariant of the plain store is inductive.                          *)
(***************************************************************************)
LEMMA UnsavedInductive ==
  /\ Init => Unsaved
  /\ Typed /\ History /\ (~hasOutbox => Unsaved) /\ [Next]_vars => (~hasOutbox => Unsaved)'
<1>1. Init => Unsaved
  BY DEF Init, Unsaved, Live
<1>2. ASSUME Typed, History, ~hasOutbox => Unsaved, [Next]_vars, ~hasOutbox'
      PROVE  Unsaved'
  <2>1. hasOutbox' = hasOutbox
    BY <1>2 DEF Next, Save, vars, New, Load, Raise, Discard, NothingToSave, BeginSave, AppendOk,
       AppendConflict, AppendFails, AppendGivenUp, DecideLate, PublishOk, PublishFails
  <2>2. Unsaved /\ ~hasOutbox
    BY <1>2, <2>1
  <2>3. ASSUME late' = late, streams' = streams,
               \A x \in Workers : \/ object'[x] = object[x]
                                  \/ object'[x] = NoObject
                                  \/ object'[x].uncommitted = <<>>
        PROVE  Unsaved'
    <3>1. ASSUME NEW x \in Workers, Live(x)' PROVE UnsavedBy(x)'
      <4>1. CASE object'[x] = object[x]
        BY <2>2, <2>3, <3>1, <4>1 DEF Unsaved, UnsavedBy, Live
      <4>2. CASE object'[x].uncommitted = <<>>
        <5>1. 1..Len(object'[x].uncommitted) = {}
          BY <4>2
        <5> QED BY <5>1 DEF UnsavedBy
      <4> QED BY <2>3, <3>1, <4>1, <4>2 DEF Live
    <3> QED BY <2>2, <2>3, <3>1 DEF Unsaved
  <2>4. ASSUME NEW w \in Workers, NEW g \in Aggregates, New(w, g) \/ Load(w, g)
        PROVE  Unsaved'
    <3>1. object'[w].uncommitted = <<>>
      BY <1>2, <2>4 DEF New, Load, Typed, WorkersOK
    <3>2. \A x \in Workers : x # w => object'[x] = object[x]
      BY <1>2, <2>4 DEF New, Load, Typed, WorkersOK
    <3> QED BY <2>3, <2>4, <3>1, <3>2 DEF New, Load
  <2>5. ASSUME NEW w \in Workers, Discard(w) PROVE Unsaved'
    <3>1. \A x \in Workers : object'[x] = object[x] \/ object'[x] = NoObject
      BY <1>2, <2>5 DEF Discard, Typed, WorkersOK
    <3> QED BY <2>3, <2>5, <3>1 DEF Discard
  <2>6. ASSUME UNCHANGED <<streams, late, object>> PROVE Unsaved'
    BY <2>2, <2>6 DEF Unsaved, UnsavedBy, Live
  <2>7. ~DecideLate /\ \A w \in Workers : ~AppendGivenUp(w)
    BY <2>2 DEF DecideLate, AppendGivenUp, Unsaved
  <2> QED BY <1>2, <2>2, <2>4, <2>5, <2>6, <2>7, AppendOkUnsaved, RaiseUnsaved DEF Next, Save, vars,
         NothingToSave, BeginSave, AppendConflict, AppendFails, PublishOk, PublishFails
<1> QED BY <1>1, <1>2

(***************************************************************************)
(* With a plain store, which fails an Append only before it stores         *)
(* anything, an event held as uncommitted is never in the store.  With an  *)
(* outbox it may be: the run lost_reply shows it.                          *)
(***************************************************************************)
THEOREM PlainCommittedReflectsStore == Spec => [](~hasOutbox => CommittedReflectsStore)
<1>1. ASSUME Typed, Unsaved, NEW w \in Workers, Ready(w), NEW e \in Range(object[w].uncommitted)
      PROVE  e.name \notin Stored
  <2>1. Live(w) /\ object[w].uncommitted \in Seq(Events)
    BY <1>1, LiveObject DEF Ready, Live
  <2>2. PICK i \in 1..Len(object[w].uncommitted) : e = object[w].uncommitted[i]
    BY <1>1, <2>1 DEF Range
  <2>3. ~StoredIn(streams, e.name)
    BY <1>1, <2>1, <2>2 DEF Unsaved, UnsavedBy
  <2> QED BY <1>1, <2>3, StoredNames
<1>2. Typed /\ (~hasOutbox => Unsaved) => (~hasOutbox => CommittedReflectsStore)
  BY <1>1 DEF CommittedReflectsStore
<1> QED BY <1>2, HistoryHolds, UnsavedInductive, PTL DEF Spec

-----------------------------------------------------------------------------
(***************************************************************************)
(* Where the stored events of a plain store are: published, forgotten, or  *)
(* with one Save, which is that of the worker who raised them.             *)
(***************************************************************************)
NameOut(w, i) == outgoing[w][i].event.name

IsOut(n) == \E w \in Workers : \E i \in 1..Len(outgoing[w]) : NameOut(w, i) = n

Apart ==
  /\ published \cap forgotten = {}
  /\ \A w \in Workers : \A i \in 1..Len(outgoing[w]) :
       /\ NameOut(w, i)[1] = w
       /\ NameOut(w, i) \notin published \cup forgotten
       /\ \A j \in 1..Len(outgoing[w]) : NameOut(w, i) = NameOut(w, j) => i = j

Placement ==
  /\ \A n : StoredIn(streams, n) <=> n \in published \cup forgotten \/ IsOut(n)
  /\ Apart

(***************************************************************************)
(* A stored batch is with the Save that stored it.                         *)
(***************************************************************************)
LEMMA AppendOkPlaces ==
  ASSUME Typed, History, Unsaved, Placement, ~hasOutbox, NEW w \in Workers, AppendOk(w)
  PROVE  Placement'
<1> DEFINE s == Pending(w)
<1>1. /\ outgoing[w] = <<>> /\ outgoing'[w] = s
      /\ \A x \in Workers : x # w => outgoing'[x] = outgoing[x]
      /\ published' = published /\ forgotten' = forgotten
  BY DEF AppendOk, Typed, WorkersOK, Stage
<1>2. PICK b : /\ Takes(b) /\ b.envelopes = s
               /\ \A i \in 1..Len(b.envelopes) :
                    NameIn(b, i)[1] = w /\ ~StoredIn(streams, NameIn(b, i))
  BY AppendOkBatch
<1>3. \A i, j \in 1..Len(s) : s[i].event.name = s[j].event.name => i = j
  BY <1>2 DEF Takes, History, BatchesOK, Fresh, NameIn
<1>4. \A i \in 1..Len(s) : s[i].event.name[1] = w /\ ~StoredIn(streams, s[i].event.name)
  BY <1>2 DEF NameIn
<1>5. \A i \in 1..Len(s) : StoredIn(streams', s[i].event.name)
  BY AppendOkStores
<1> HIDE DEF s
<1>6. ASSUME NEW n
      PROVE  StoredIn(streams', n)
               <=> StoredIn(streams, n) \/ \E i \in 1..Len(s) : s[i].event.name = n
  <2>1. StoredIn(streams, n) => StoredIn(streams', n)
    BY <1>2, TakesStored DEF StoredIn, IsStored, NameAt
  <2>2. StoredIn(streams', n) => StoredIn(streams, n) \/ \E i \in 1..Len(s) : s[i].event.name = n
    BY <1>2, TakesStored DEF StoredIn, IsStored, NameAt, NameIn
  <2> QED BY <1>5, <2>1, <2>2
<1>7. ASSUME NEW n
      PROVE  IsOut(n)' <=> IsOut(n) \/ \E i \in 1..Len(s) : s[i].event.name = n
  <2>1. 1..Len(outgoing[w]) = {}
    BY <1>1
  <2> QED BY <1>1, <2>1 DEF IsOut, NameOut
<1>8. Apart'
  <2> SUFFICES ASSUME NEW x \in Workers, NEW i \in 1..Len(outgoing'[x])
               PROVE  /\ NameOut(x, i)'[1] = x
                      /\ NameOut(x, i)' \notin published \cup forgotten
                      /\ \A j \in 1..Len(outgoing'[x]) :
                           NameOut(x, i)' = NameOut(x, j)' => i = j
    BY <1>1 DEF Placement, Apart
  <2>1. CASE x = w
    BY <1>1, <1>3, <1>4, <2>1 DEF Placement, NameOut
  <2>2. CASE x # w
    BY <1>1, <2>2 DEF Placement, Apart, NameOut
  <2> QED BY <2>1, <2>2
<1> QED BY <1>1, <1>6, <1>7, <1>8 DEF Placement

(***************************************************************************)
(* Publish takes the first of the events of a Save to the published ones.  *)
(***************************************************************************)
LEMMA PublishOkPlaces ==
  ASSUME Typed, Placement, NEW w \in Workers, PublishOk(w)
  PROVE  Placement'
<1> DEFINE s == outgoing[w]
           m == s[1].event.name
<1>1. /\ s \in Seq(Envelopes) /\ s # <<>> /\ outgoing'[w] = Tail(s)
      /\ \A x \in Workers : x # w => outgoing'[x] = outgoing[x]
      /\ forgotten' = forgotten /\ streams' = streams
  BY DEF PublishOk, Typed, WorkersOK, Stage
<1>2. /\ Head(s) = s[1] /\ 1 \in 1..Len(s) /\ Len(Tail(s)) = Len(s) - 1 /\ Len(s) \in Nat
      /\ \A i \in 1..Len(Tail(s)) : Tail(s)[i] = s[i + 1] /\ i + 1 \in 1..Len(s)
  BY <1>1, HeadTailProperties, EmptySeq
<1>3. published' = published \cup {m}
  BY <1>2 DEF PublishOk
<1>4. /\ \A i \in 1..Len(s) : i = 1 \/ (i - 1 \in 1..Len(Tail(s)) /\ s[i] = Tail(s)[i - 1])
      /\ \A i \in 1..Len(Tail(s)) : Tail(s)[i] = s[i + 1] /\ i + 1 \in 1..Len(s) /\ i + 1 # 1
  <2> HIDE DEF s
  <2>1. \A i \in 1..Len(s) : i = 1 \/ (i - 1 \in 1..Len(Tail(s)) /\ i = (i - 1) + 1)
    BY <1>2
  <2>2. \A i \in 1..Len(s) : i = 1 \/ s[i] = Tail(s)[i - 1]
    BY <1>2, <2>1
  <2> QED BY <1>2, <2>1, <2>2
<1>5. /\ m[1] = w /\ m \notin published \cup forgotten
      /\ \A i \in 1..Len(s) : s[i].event.name = m => i = 1
      /\ \A i \in 1..Len(s) :
           s[i].event.name[1] = w /\ s[i].event.name \notin published \cup forgotten
      /\ \A i, j \in 1..Len(s) : s[i].event.name = s[j].event.name => i = j
  BY <1>2 DEF Placement, Apart, NameOut
<1> HIDE DEF s
<1>6. ASSUME NEW n PROVE IsOut(n) <=> IsOut(n)' \/ n = m
  <2>1. (\E i \in 1..Len(s) : s[i].event.name = n)
          <=> (\E i \in 1..Len(Tail(s)) : Tail(s)[i].event.name = n) \/ n = m
    BY <1>2, <1>4
  <2> DEFINE Elsewhere == \E x \in Workers \ {w} : \E i \in 1..Len(outgoing[x]) : NameOut(x, i) = n
  <2>2. IsOut(n) <=> Elsewhere \/ \E i \in 1..Len(s) : s[i].event.name = n
    BY DEF IsOut, NameOut, s
  <2>3. IsOut(n)' <=> Elsewhere \/ \E i \in 1..Len(Tail(s)) : Tail(s)[i].event.name = n
    BY <1>1 DEF IsOut, NameOut
  <2> QED BY <2>1, <2>2, <2>3
<1>7. Apart'
  <2>1. published' \cap forgotten' = {}
    BY <1>1, <1>3, <1>5 DEF Placement, Apart
  <2> SUFFICES ASSUME NEW x \in Workers, NEW i \in 1..Len(outgoing'[x])
               PROVE  /\ NameOut(x, i)'[1] = x
                      /\ NameOut(x, i)' \notin published' \cup forgotten'
                      /\ \A j \in 1..Len(outgoing'[x]) :
                           NameOut(x, i)' = NameOut(x, j)' => i = j
    BY <2>1 DEF Apart
  <2>2. CASE x = w
    <3>1. \A j \in 1..Len(Tail(s)) : NameOut(x, j)' = s[j + 1].event.name
      BY <1>1, <1>4, <2>2 DEF NameOut
    <3>2. i \in 1..Len(Tail(s)) /\ i + 1 \in 1..Len(s) /\ i + 1 # 1
      BY <1>1, <1>4, <2>2
    <3>3. NameOut(x, i)'[1] = x /\ NameOut(x, i)' \notin published' \cup forgotten'
      BY <1>1, <1>3, <1>5, <2>2, <3>1, <3>2
    <3>4. ASSUME NEW j \in 1..Len(Tail(s)), NameOut(x, i)' = NameOut(x, j)' PROVE i = j
      BY <1>4, <1>5, <3>1, <3>2, <3>4
    <3> QED BY <1>1, <2>2, <3>3, <3>4
  <2>3. CASE x # w
    <3>1. NameOut(x, i)' = NameOut(x, i) /\ i \in 1..Len(outgoing[x])
          /\ \A j \in 1..Len(outgoing[x]) : NameOut(x, j)' = NameOut(x, j)
      BY <1>1, <2>3 DEF NameOut
    <3>2. NameOut(x, i)[1] = x /\ NameOut(x, i) \notin published \cup forgotten
      BY <3>1 DEF Placement, Apart
    <3> QED BY <1>1, <1>3, <1>5, <2>3, <3>1, <3>2 DEF Placement, Apart
  <2> QED BY <2>2, <2>3
<1> QED BY <1>1, <1>3, <1>6, <1>7 DEF Placement

(***************************************************************************)
(* When Publish fails, the events its Save still has are forgotten.        *)
(***************************************************************************)
LEMMA PublishFailsPlaces ==
  ASSUME Typed, Placement, NEW w \in Workers, PublishFails(w)
  PROVE  Placement'
<1>1. /\ outgoing[w] \in Seq(Envelopes) /\ outgoing'[w] = <<>>
      /\ \A x \in Workers : x # w => outgoing'[x] = outgoing[x]
      /\ published' = published /\ streams' = streams
      /\ forgotten' = forgotten \cup NamesIn(outgoing[w])
  BY DEF PublishFails, Typed, WorkersOK
<1>2. \A n : n \in NamesIn(outgoing[w]) <=> \E i \in 1..Len(outgoing[w]) : NameOut(w, i) = n
  BY <1>1, NamesInSequence DEF NameOut
<1>3. 1..Len(outgoing'[w]) = {}
  BY <1>1
<1>4. \A n : IsOut(n) <=> IsOut(n)' \/ n \in NamesIn(outgoing[w])
  BY <1>1, <1>2, <1>3 DEF IsOut, NameOut
<1>5. Apart'
  <2>1. published' \cap forgotten' = {}
    BY <1>1, <1>2 DEF Placement, Apart
  <2> SUFFICES ASSUME NEW x \in Workers, NEW i \in 1..Len(outgoing'[x])
               PROVE  /\ NameOut(x, i)'[1] = x
                      /\ NameOut(x, i)' \notin published' \cup forgotten'
                      /\ \A j \in 1..Len(outgoing'[x]) :
                           NameOut(x, i)' = NameOut(x, j)' => i = j
    BY <2>1 DEF Apart
  <2>2. x # w
    BY <1>3
  <2>3. i \in 1..Len(outgoing[x]) /\ \A j \in 1..Len(outgoing[x]) : NameOut(x, j)' = NameOut(x, j)
    BY <1>1, <2>2 DEF NameOut
  <2>4. NameOut(x, i) \notin NamesIn(outgoing[w])
    BY <1>2, <2>2, <2>3 DEF Placement, Apart
  <2> QED BY <1>1, <2>2, <2>3, <2>4 DEF Placement, Apart
<1> QED BY <1>1, <1>4, <1>5 DEF Placement

(***************************************************************************)
(* The invariant of the places is inductive over a plain store.            *)
(***************************************************************************)
LEMMA PlacementInductive ==
  /\ Init => Placement
  /\ /\ Typed /\ History /\ (~hasOutbox => Unsaved /\ Placement) /\ [Next]_vars
     => (~hasOutbox => Placement)'
<1>1. ASSUME Init PROVE Placement
  <2>1. /\ \A g \in Aggregates : 1..Len(streams[g]) = {}
        /\ \A w \in Workers : 1..Len(outgoing[w]) = {}
    BY <1>1 DEF Init
  <2> QED BY <1>1, <2>1 DEF Init, Placement, Apart, StoredIn, IsOut
<1>2. ASSUME Typed, History, ~hasOutbox => Unsaved /\ Placement, [Next]_vars, ~hasOutbox'
      PROVE  Placement'
  <2>1. hasOutbox' = hasOutbox
    BY <1>2 DEF Next, Save, vars, New, Load, Raise, Discard, NothingToSave, BeginSave, AppendOk,
       AppendConflict, AppendFails, AppendGivenUp, DecideLate, PublishOk, PublishFails
  <2>2. Unsaved /\ Placement /\ ~hasOutbox
    BY <1>2, <2>1
  <2>3. ASSUME UNCHANGED <<streams, outgoing, published, forgotten>> PROVE Placement'
    BY <2>2, <2>3 DEF Placement, Apart, IsOut, NameOut, StoredIn
  <2>4. ~DecideLate
    BY <2>2 DEF DecideLate, Unsaved
  <2> QED BY <1>2, <2>2, <2>3, <2>4, AppendOkPlaces, PublishOkPlaces, PublishFailsPlaces
          DEF Next, Save, vars, New, Load, Raise, Discard, NothingToSave, BeginSave,
              AppendConflict, AppendFails, AppendGivenUp
<1> QED BY <1>1, <1>2

(***************************************************************************)
(* Over a plain store every stored event is published, still with the Save *)
(* that stored it, or forgotten by a Save that reported an error, and in   *)
(* no two of these places.                                                 *)
(***************************************************************************)
THEOREM NothingElseForgotten == Spec => []PublishedOrForgotten
<1>1. ASSUME Typed, Placement, ~hasOutbox PROVE PublishedOrForgotten
  <2>1. \A n : n \in Outgoing <=> IsOut(n)
    BY <1>1, NamesInSequence DEF Outgoing, IsOut, NameOut, Typed, WorkersOK
  <2>2. \A n : n \in Stored <=> n \in published \cup forgotten \/ n \in Outgoing
    BY <1>1, <2>1, StoredNames DEF Placement
  <2>3. \A n \in Outgoing : n \notin published \cup forgotten
    BY <1>1, <2>1 DEF Placement, Apart, IsOut
  <2>4. published \cap forgotten = {}
    BY <1>1 DEF Placement, Apart
  <2> QED BY <2>2, <2>3, <2>4 DEF PublishedOrForgotten
<1>2. Typed /\ (~hasOutbox => Placement) => PublishedOrForgotten
  BY <1>1 DEF PublishedOrForgotten
<1> QED BY <1>2, HistoryHolds, UnsavedInductive, PlacementInductive, PTL DEF Spec
=============================================================================
