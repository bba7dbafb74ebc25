----------------------------- MODULE EventStore -----------------------------
(***************************************************************************)
(* What event.Store promises the callers of Append (event/event.go): one   *)
(* stream per aggregate, extended by whole batches, and only by a caller   *)
(* that knew the stream's head.  A batch takes effect at one instant, or   *)
(* never.  An "ok" or a conflict says which; an error does not, and the    *)
(* batch of a call that returned an error may even take effect later,      *)
(* because the caller may have given up on a commit still on its way.      *)
(*                                                                         *)
(* An event is known by the call that raised it: payloads, types and       *)
(* metadata play no part in the contract.                                  *)
(***************************************************************************)
EXTENDS Naturals, Sequences

CONSTANTS
  Aggregates,     \* the stream identifiers (uuid.UUID)
  Calls,          \* identities of concurrent calls of Append, reused in turn
  MaxSequence,    \* bound on the sequence numbers callers use
  MaxBatch        \* bound on len(events)

VARIABLES
  streams,        \* the events of each aggregate, in order
  status,         \* "pending" during a call, otherwise its reply
  request,        \* the arguments of the call
  live            \* may the call's batch still take effect?

vars == <<streams, status, request, live>>

(***************************************************************************)
(* The arguments of Append: "expected" is expectedVersion, and the batch   *)
(* has "count" envelopes numbered expected + 1, expected + 2, ... as       *)
(* Repository.Save numbers them.                                           *)
(***************************************************************************)
Requests ==
  {q \in [agg : Aggregates, expected : 0..MaxSequence, count : 0..MaxBatch] :
     q.expected + q.count <= MaxSequence}

Replies == {"ok", "conflict", "error"}

Init ==
  /\ streams = [g \in Aggregates |-> <<>>]
  /\ status = [c \in Calls |-> "ok"]
  /\ request \in [Calls -> {q \in Requests : q.expected = 0 /\ q.count = 0}]
  /\ live = [c \in Calls |-> FALSE]

Invoke(c) ==
  /\ ~live[c]
  /\ \E q \in Requests : request' = [request EXCEPT ![c] = q]
  /\ status' = [status EXCEPT ![c] = "pending"]
  /\ live' = [live EXCEPT ![c] = TRUE]
  /\ UNCHANGED streams

(***************************************************************************)
(* The call is decided: its batch has no effect from now on.  A caller     *)
(* still waiting gets the reply r.                                         *)
(***************************************************************************)
Decide(c, r) ==
  /\ live[c]
  /\ live' = [live EXCEPT ![c] = FALSE]
  /\ status' = [status EXCEPT ![c] = IF @ = "pending" THEN r ELSE @]
  /\ UNCHANGED request

Fits(c) == Len(streams[request[c].agg]) = request[c].expected

Extend(c) ==
  /\ Fits(c)
  /\ Decide(c, "ok")
  /\ streams' = [streams EXCEPT ![request[c].agg] =
                   @ \o [i \in 1..request[c].count |-> c]]

(***************************************************************************)
(* A conflict is never spurious.                                           *)
(***************************************************************************)
Conflict(c) ==
  /\ ~Fits(c)
  /\ Decide(c, "conflict")
  /\ UNCHANGED streams

(***************************************************************************)
(* A store may accept an empty batch without looking at the stream.        *)
(***************************************************************************)
AcceptNothing(c) ==
  /\ request[c].count = 0
  /\ Decide(c, "ok")
  /\ UNCHANGED streams

Fail(c) ==
  /\ Decide(c, "error")
  /\ UNCHANGED streams

GiveUp(c) ==
  /\ live[c]
  /\ status[c] = "pending"
  /\ status' = [status EXCEPT ![c] = "error"]
  /\ UNCHANGED <<streams, request, live>>

Next ==
  \E c \in Calls :
     \/ Invoke(c) \/ Extend(c) \/ Conflict(c) \/ AcceptNothing(c)
     \/ Fail(c) \/ GiveUp(c)

Spec == Init /\ [][Next]_vars
=============================================================================
