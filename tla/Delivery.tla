------------------------------ MODULE Delivery ------------------------------
(***************************************************************************)
(* From the commit of an event to the room of its conversation, in the two *)
(* modes of RealtimeService: the backend emits after its transaction       *)
(* (legacy), or it does nothing and the ws-gateways consume the JetStream  *)
(* stream and emit (WS_GATEWAY_DEDICATED).  The gateways share one durable *)
(* consumer.  How a row of the outbox gets into the stream is Outbox: a    *)
(* row that it publishes again after the window of duplicates is one more  *)
(* event here.                                                             *)
(***************************************************************************)
EXTENDS Naturals, Sequences, SequencesExt

CONSTANTS
  Gateways,     \* ws-gateway processes
  MaxEvents,    \* bound: message.created and message.read events
  MaxDeliver,   \* max_deliver of the consumer, 10 in the code
  MaxBreaks,    \* bound: handlers that throw, slow handlers, dead gateways
  Keyed,        \* the events of the sends with an idempotency key
  MaxReplays    \* bound: requests that replay one of these keys

Events == 1..MaxEvents

ASSUME DeliveryAssumption ==
  /\ MaxEvents \in Nat /\ MaxDeliver \in Nat \ {0} /\ MaxBreaks \in Nat
  /\ Keyed \subseteq Events /\ MaxReplays \in Nat

VARIABLES
  dedicated,   \* WS_GATEWAY_DEDICATED
  event,       \* event[e]: none, row (outbox), stream, pending (delivered),
               \* acked, exhausted (max_deliver), skipped (before the consumer)
  consumer,    \* the durable consumer exists
  tries,       \* tries[e]: deliveries of e so far
  queue,       \* queue[g]: events delivered to gateway g, in order
  handled,     \* handled[g]: onEvent has returned for the first of them
  calls,       \* calls[e]: requests about to call RealtimeService for e
  replays,     \* replays[e]: requests that found e committed with their key
  emitted,     \* emitted[e]: emissions of e to the room
  breaks       \* faults so far

streamVars   == <<event, consumer, tries>>
gatewayVars  == <<queue, handled>>
deliveryVars == <<dedicated, streamVars, gatewayVars, calls, replays, emitted, breaks>>

DeliveryInit ==
  /\ dedicated \in BOOLEAN
  /\ event = [e \in Events |-> "none"] /\ consumer = FALSE
  /\ tries = [e \in Events |-> 0]
  /\ queue = [g \in Gateways |-> <<>>]
  /\ handled = [g \in Gateways |-> FALSE]
  /\ calls = [e \in Events |-> 0] /\ replays = [e \in Events |-> 0]
  /\ emitted = [e \in Events |-> 0]
  /\ breaks = 0

Emit(e) == emitted' = [emitted EXCEPT ![e] = @ + 1]

-----------------------------------------------------------------------------
(* The backend *)

\* A transaction commits its event; the sender is about to publish it.
CommitEvent(e) ==
  /\ event[e] = "none"
  /\ event' = [event EXCEPT ![e] = "row"]
  /\ calls' = [calls EXCEPT ![e] = 1]
  /\ UNCHANGED <<dedicated, consumer, tries, gatewayVars, replays, emitted, breaks>>

\* if (existing) return existing: a request with the key of a committed send
\* adds no event, and publishes the stored message as if it were its own.
ReplayKey(e) ==
  /\ e \in Keyed /\ event[e] # "none" /\ replays[e] < MaxReplays
  /\ replays' = [replays EXCEPT ![e] = @ + 1]
  /\ calls' = [calls EXCEPT ![e] = @ + 1]
  /\ UNCHANGED <<dedicated, streamVars, gatewayVars, emitted, breaks>>

\* Mutant: RealtimeService has lost its test of the mode.
BothEmit == TRUE

\* if (this.dedicated ...) return;
BackendEmits == ~dedicated

\* publishMessageCreated, publishReadReceipt
PublishCreated(e) ==
  /\ calls[e] > 0
  /\ calls' = [calls EXCEPT ![e] = @ - 1]
  /\ IF BackendEmits THEN Emit(e) ELSE UNCHANGED emitted
  /\ UNCHANGED <<dedicated, streamVars, gatewayVars, replays, breaks>>

\* The backend dies between the commit and the call.
LoseCall(e) ==
  /\ calls[e] > 0 /\ breaks < MaxBreaks
  /\ breaks' = breaks + 1
  /\ calls' = [calls EXCEPT ![e] = @ - 1]
  /\ UNCHANGED <<dedicated, streamVars, gatewayVars, replays, emitted>>

\* The outbox worker publishes the row.
PublishRow(e) ==
  /\ event[e] = "row"
  /\ event' = [event EXCEPT ![e] = "stream"]
  /\ UNCHANGED <<dedicated, consumer, tries, gatewayVars, calls, replays, emitted, breaks>>

-----------------------------------------------------------------------------
(* The gateways *)

\* The first gateway that starts creates the consumer, deliver_policy new.
CreateConsumer ==
  /\ dedicated /\ ~consumer
  /\ consumer' = TRUE
  /\ event' = [e \in Events |-> IF event[e] = "stream" THEN "skipped" ELSE event[e]]
  /\ UNCHANGED <<dedicated, tries, gatewayVars, calls, replays, emitted, breaks>>

\* JetStream hands the event to a gateway that consumes.
Deliver(g, e) ==
  /\ consumer /\ event[e] = "stream"
  /\ event' = [event EXCEPT ![e] = "pending"]
  /\ tries' = [tries EXCEPT ![e] = @ + 1]
  /\ queue' = [queue EXCEPT ![g] = Append(@, e)]
  /\ UNCHANGED <<dedicated, consumer, handled, calls, replays, emitted, breaks>>

\* onEvent: the room of the conversation, through the Redis adapter.
HandleEvent(g) ==
  /\ queue[g] # <<>> /\ ~handled[g]
  /\ Emit(Head(queue[g]))
  /\ handled' = [handled EXCEPT ![g] = TRUE]
  /\ UNCHANGED <<dedicated, streamVars, queue, calls, replays, breaks>>

\* The loop goes on with the next event.
NextEvent(g) ==
  /\ queue' = [queue EXCEPT ![g] = Tail(@)]
  /\ handled' = [handled EXCEPT ![g] = FALSE]

\* m.ack(); one that comes after ack_wait counts all the same.
Ack(g) ==
  /\ queue[g] # <<>> /\ handled[g]
  /\ event' = [event EXCEPT ![Head(queue[g])] = "acked"]
  /\ NextEvent(g)
  /\ UNCHANGED <<dedicated, consumer, tries, calls, replays, emitted, breaks>>

\* The consumer gives an event up after max_deliver deliveries.
Again(e) == IF tries[e] < MaxDeliver THEN "stream" ELSE "exhausted"

\* Mutant: the event of a handler that throws is acknowledged.
AckedAnyway(e) == "acked"

\* m.nak(2_000)
AfterNak(e) == Again(e)

HandlerThrows(g) ==
  /\ queue[g] # <<>> /\ ~handled[g] /\ breaks < MaxBreaks
  /\ breaks' = breaks + 1
  /\ event' = [event EXCEPT ![Head(queue[g])] =
                 IF @ = "pending" THEN AfterNak(Head(queue[g])) ELSE @]
  /\ NextEvent(g)
  /\ UNCHANGED <<dedicated, consumer, tries, calls, replays, emitted>>

Held == {e \in Events : \E g \in Gateways : Contains(queue[g], e)}

\* Mutant: ack_policy none: the server does not wait for any ack.
NoAckWait(e) == "acked"

\* Thirty seconds without an ack, from a gateway that died or that is slow.
AfterAckWait(e) == Again(e)

AckWait(e) ==
  /\ event[e] = "pending" /\ e \notin Held
  /\ event' = [event EXCEPT ![e] = AfterAckWait(e)]
  /\ UNCHANGED <<dedicated, consumer, tries, gatewayVars, calls, replays, emitted, breaks>>

SlowAck(e) ==
  /\ event[e] = "pending" /\ e \in Held /\ breaks < MaxBreaks
  /\ breaks' = breaks + 1
  /\ event' = [event EXCEPT ![e] = AfterAckWait(e)]
  /\ UNCHANGED <<dedicated, consumer, tries, gatewayVars, calls, replays, emitted>>

\* A gateway dies with what it holds and is replaced.
GatewayDies(g) ==
  /\ queue[g] # <<>> /\ breaks < MaxBreaks
  /\ breaks' = breaks + 1
  /\ queue' = [queue EXCEPT ![g] = <<>>]
  /\ handled' = [handled EXCEPT ![g] = FALSE]
  /\ UNCHANGED <<dedicated, streamVars, calls, replays, emitted>>

-----------------------------------------------------------------------------

\* What goes on by itself, without a fault.
Consume(g) == HandleEvent(g) \/ Ack(g)
Move(e) == PublishRow(e) \/ AckWait(e) \/ \E g \in Gateways : Deliver(g, e)

DeliveryNext ==
  \/ CreateConsumer
  \/ \E e \in Events : \/ CommitEvent(e) \/ ReplayKey(e) \/ PublishCreated(e) \/ LoseCall(e)
                       \/ Move(e) \/ SlowAck(e)
  \/ \E g \in Gateways : Consume(g) \/ HandlerThrows(g) \/ GatewayDies(g)

DeliverySpec == DeliveryInit /\ [][DeliveryNext]_deliveryVars

\* JetStream goes on delivering an event as long as it has deliveries left,
\* whatever the gateways do to the others; a gateway goes on with its loop.
DeliveryFairness ==
  /\ \A e \in Events : SF_deliveryVars(Move(e))
  /\ \A g \in Gateways : WF_deliveryVars(Consume(g))

DeliveryTypeOK ==
  /\ dedicated \in BOOLEAN /\ consumer \in BOOLEAN
  /\ event \in [Events -> {"none", "row", "stream", "pending", "acked", "exhausted",
                           "skipped"}]
  /\ tries \in [Events -> 0..MaxDeliver]
  /\ queue \in [Gateways -> Seq(Events)] /\ handled \in [Gateways -> BOOLEAN]
  /\ calls \in [Events -> Nat] /\ replays \in [Events -> Nat]
  /\ emitted \in [Events -> Nat]
  /\ \A e \in Events : tries[e] = 0 => e \notin Held

\* "Livraison event : at-least-once (NATS ack)": an event is acknowledged only
\* once it has been emitted, through redeliveries, slow and dead gateways.
AckedWasEmitted ==
  \A e \in Events : event[e] = "acked" => emitted[e] >= 1

\* "Évite la double émission": the backend emits an event, once for its send and
\* once for every replay of its key, or the gateways once per delivery, whatever
\* is replayed, never both; and a second delivery follows a fault.
NoDoubleEmission ==
  \A e \in Events :
    /\ emitted[e] <= IF dedicated THEN tries[e] ELSE 1 + replays[e]
    /\ tries[e] > 1 => breaks > 0

\* An event in the stream of a consumer reaches the room in the end, unless
\* all its deliveries have been used up.
EveryEventEmitted ==
  \A e \in Events :
    (consumer /\ event[e] = "stream") ~> (emitted[e] >= 1 \/ event[e] = "exhausted")
=============================================================================
