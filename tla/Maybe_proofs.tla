---------------------------- MODULE Maybe_proofs ----------------------------
(***************************************************************************)
(* Proofs about Maybe, for every type T and every encoding of it.          *)
(***************************************************************************)
EXTENDS Maybe, TLAPS

(***************************************************************************)
(* "Maybe[T] marshals to JSON as either the marshaled T (Some) or null     *)
(* (None).  It unmarshals symmetrically": a value survives the round trip  *)
(* if its type does and it is not one that marshals to null itself, and    *)
(* only then.                                                              *)
(***************************************************************************)
THEOREM RoundTrip ==
  ASSUME NEW T, NEW enc, NEW dec, NEW m \in MaybeOf(T), NEW old,
         \A v \in T : enc[v] \in DOMAIN dec /\ dec[enc[v]] = v
  PROVE  UnmarshalJSON(old, MarshalJSON(m, enc), dec) = m
           <=> ~(m.present /\ enc[m.value] = null)
<1>1. CASE m = None
  BY <1>1 DEF None, MarshalJSON, UnmarshalJSON
<1>2. ASSUME NEW v \in T, m = Some(v)
      PROVE  UnmarshalJSON(old, MarshalJSON(m, enc), dec) = m
               <=> ~(m.present /\ enc[m.value] = null)
  <2>1. m.present = TRUE /\ m.value = v /\ MarshalJSON(m, enc) = enc[v]
    BY <1>2 DEF Some, MarshalJSON
  <2>2. m # None
    BY <2>1 DEF None
  <2>3. CASE enc[v] = null
    BY <2>1, <2>2, <2>3 DEF UnmarshalJSON
  <2>4. CASE enc[v] # null
    BY <1>2, <2>1, <2>4 DEF UnmarshalJSON
  <2> QED
    BY <2>3, <2>4
<1> QED
  BY <1>1, <1>2 DEF MaybeOf

(***************************************************************************)
(* The exception exists: the inner None of a nested Maybe comes back as    *)
(* the outer one, however its own type is encoded.                         *)
(***************************************************************************)
THEOREM NestedNoneIsLost ==
  ASSUME NEW T, NEW enc, NEW dec, NEW old
  PROVE  LET nested == [n \in MaybeOf(T) |-> MarshalJSON(n, enc)]
         IN UnmarshalJSON(old, MarshalJSON(Some(None), nested), dec) = None
<1> DEFINE nested == [n \in MaybeOf(T) |-> MarshalJSON(n, enc)]
<1>1. None \in MaybeOf(T) /\ MarshalJSON(None, enc) = null
  BY DEF MaybeOf, None, MarshalJSON
<1>2. MarshalJSON(Some(None), nested) = null
  BY <1>1 DEF Some, MarshalJSON
<1> QED
  BY <1>2 DEF UnmarshalJSON

(***************************************************************************)
(* Map is FlatMap with a function that always has a result.                *)
(***************************************************************************)
THEOREM MapIsFlatMap ==
  ASSUME NEW T, NEW m \in MaybeOf(T), NEW f
  PROVE  Map(m, f) = FlatMap(m, [v \in T |-> Some(f[v])])
  BY DEF MaybeOf, Map, FlatMap, Some, None

(***************************************************************************)
(* Binding twice is binding once with the composed function.               *)
(***************************************************************************)
THEOREM FlatMapAssociates ==
  ASSUME NEW T, NEW m \in MaybeOf(T), NEW f, NEW g
  PROVE  FlatMap(FlatMap(m, f), g) = FlatMap(m, [v \in T |-> FlatMap(f[v], g)])
  BY DEF MaybeOf, FlatMap, Some, None
=============================================================================
