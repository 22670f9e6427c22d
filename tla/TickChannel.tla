---------------------------- MODULE TickChannel ----------------------------
(***************************************************************************)
(* What one outbound stream of the gateway promises its reader, with no    *)
(* thread, lock, buffer or counter in sight: ticks are numbered in the     *)
(* order the CTP callback hands them over; the stream may lose any of      *)
(* them, but it never reorders, repeats or invents one.                    *)
(*                                                                         *)
(* QuotePipeline implements it twice: once for the options that go through *)
(* the ring buffer to "send_compute_greeks", once for the futures that     *)
(* the callback thread broadcasts itself on "quote".                       *)
(***************************************************************************)
EXTENDS Naturals, Sequences

CONSTANT Bound          \* most ticks the stream holds between accept and deliver

VARIABLES
  pending,              \* accepted and not yet delivered, oldest first
  delivered,            \* everything handed to the reader, oldest first
  seen                  \* number of the latest tick handed over by CTP

channelVars == <<pending, delivered, seen>>

TypeOK ==
  /\ pending \in Seq(Nat)
  /\ delivered \in Seq(Nat)
  /\ seen \in Nat

Init == pending = <<>> /\ delivered = <<>> /\ seen = 0

NewerThanAll(n, s) == \A i \in DOMAIN s : s[i] < n

WithoutIndex(s, i) == SubSeq(s, 1, i - 1) \o SubSeq(s, i + 1, Len(s))

(* A tick of the other stream, or one this stream drops on arrival. *)
Arrive ==
  /\ seen' = seen + 1
  /\ UNCHANGED <<pending, delivered>>

(* The latest tick is accepted, as it arrives or later, but once only. *)
Accept ==
  /\ Len(pending) < Bound
  /\ seen' \in {seen, seen + 1}
  /\ NewerThanAll(seen', pending) /\ NewerThanAll(seen', delivered)
  /\ pending' = Append(pending, seen')
  /\ UNCHANGED delivered

(* No room: some accepted tick gives way to the latest one. *)
AcceptReplacing ==
  /\ NewerThanAll(seen, pending) /\ NewerThanAll(seen, delivered)
  /\ \E i \in DOMAIN pending : pending' = Append(WithoutIndex(pending, i), seen)
  /\ UNCHANGED <<delivered, seen>>

Deliver ==
  /\ pending # <<>>
  /\ delivered' = Append(delivered, Head(pending))
  /\ pending' = Tail(pending)
  /\ UNCHANGED seen

Lose ==
  /\ pending # <<>>
  /\ pending' = Tail(pending)
  /\ UNCHANGED <<delivered, seen>>

Next == Arrive \/ Accept \/ AcceptReplacing \/ Deliver \/ Lose

Spec == Init /\ [][Next]_channelVars

-----------------------------------------------------------------------------
StrictlyIncreasing(s) == \A i, j \in DOMAIN s : i < j => s[i] < s[j]

(* The reader sees ticks in the order CTP produced them and none twice:    *)
(* the promise itself, for on_quote_received's and option_dispatch_loop's  *)
(* events alike.                                                           *)
DeliveredInOrder == StrictlyIncreasing(delivered \o pending)
=============================================================================
