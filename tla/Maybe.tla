------------------------------- MODULE Maybe -------------------------------
(***************************************************************************)
(* maybe.Maybe[T]: a value that may be absent, and its form in JSON.       *)
(*                                                                         *)
(* Go functions on T are TLA+ functions here: f for Map and FlatMap, enc   *)
(* for json.Marshal and dec for json.Unmarshal of T (defined where that    *)
(* succeeds).  JSON texts are tuples of tokens.                            *)
(***************************************************************************)

None    == [present |-> FALSE]
Some(v) == [present |-> TRUE, value |-> v]

MaybeOf(T) == {None} \cup {Some(v) : v \in T}

OrElse(m, fallback) == IF m.present THEN m.value ELSE fallback

(***************************************************************************)
(* The functor's map and the monad's bind.                                 *)
(***************************************************************************)
Map(m, f)     == IF m.present THEN Some(f[m.value]) ELSE None
FlatMap(m, f) == IF m.present THEN f[m.value] ELSE None

null == <<"null">>

MarshalJSON(m, enc) == IF m.present THEN enc[m.value] ELSE null

(***************************************************************************)
(* What m has become: an error leaves it as it was.                        *)
(***************************************************************************)
UnmarshalJSON(m, data, dec) ==
  IF data = null THEN None
  ELSE IF data \in DOMAIN dec THEN Some(dec[data]) ELSE m
=============================================================================
