------------------------------ MODULE SpscDemo ------------------------------
(***************************************************************************)
(* The two measurements of examples/spsc_demo.cpp, one after the other:    *)
(* the ping-pong, in which main sends a message through to_consumer and    *)
(* spins until its reply comes back through to_producer, and the stream,   *)
(* in which main pushes as fast as the queue accepts.  Each has a consumer *)
(* thread of its own, which main joins.                                    *)
(*                                                                         *)
(* The queues are BoundedFifo, which SpscQueue implements.  A refused      *)
(* try_push or try_pop is another turn of the spin and changes nothing.    *)
(* Of a message only seq is kept; the time a round takes is any, and half  *)
(* of it goes into the histogram.  PingPongs, Warmup and Streamed are      *)
(* 200'000, 20'000 and 5'000'000 in the program, Small and Large the       *)
(* capacities 1024 and 8192.                                               *)
(***************************************************************************)
EXTENDS Histogram, Sequences

CONSTANTS PingPongs, Warmup, Streamed, Small, Large

ASSUME SpscDemoAssumption ==
  /\ PingPongs \in Nat \ {0} /\ Warmup \in Nat /\ Streamed \in Nat \ {0}
  /\ Small \in Nat \ {0} /\ Large \in Nat \ {0}

VARIABLES to_consumer, pinged,      \* the queues, each with all that was popped from it
          to_producer, ponged,
          stream, streamed,
          consumer_ready, go,
          main, i,                  \* the main thread: its loop and its round or message
          consumer, served, m       \* the consumer thread: its loop, its count, its message

queues == <<to_consumer, pinged, to_producer, ponged, stream, streamed>>
mains == <<main, i, histogram>>
consumers == <<consumer, served, m>>
demo == <<queues, consumer_ready, go, mains, consumers>>

Ping == INSTANCE BoundedFifo
          WITH q <- to_consumer, delivered <- pinged, Capacity <- Small, Value <- Nat
Pong == INSTANCE BoundedFifo
          WITH q <- to_producer, delivered <- ponged, Capacity <- Small, Value <- Nat
Stream == INSTANCE BoundedFifo
            WITH q <- stream, delivered <- streamed, Capacity <- Large, Value <- Nat

DemoInit ==
  /\ Ping!Init /\ Pong!Init /\ Stream!Init
  /\ consumer_ready = FALSE /\ go = FALSE
  /\ main = "await ready" /\ i = 0 /\ HistogramInit
  /\ consumer = "created" /\ served = 0 /\ m = 0

Others(q) == CASE q = "ping" -> UNCHANGED <<to_producer, ponged, stream, streamed>>
               [] q = "pong" -> UNCHANGED <<to_consumer, pinged, stream, streamed>>
               [] q = "stream" -> UNCHANGED <<to_consumer, pinged, to_producer, ponged>>
------------------------------------------------------------------------------
(* ping_pong *)

Ready ==
  /\ consumer = "created" /\ consumer' = "pop"
  /\ consumer_ready' = TRUE
  /\ UNCHANGED <<queues, go, mains, served, m>>

TakenIntoCopy == m
Taken == Head(to_consumer)

TakePing ==
  /\ consumer = "pop" /\ Ping!Get
  /\ m' = Taken /\ consumer' = "push"
  /\ Others("ping") /\ UNCHANGED <<consumer_ready, go, mains, served>>

RoundsUnwarmed == PingPongs
Rounds == PingPongs + Warmup

Answer ==
  /\ consumer = "push" /\ Pong!Put(m)
  /\ served' = served + 1
  /\ consumer' = IF served' < Rounds THEN "pop" ELSE "exited"
  /\ Others("pong") /\ UNCHANGED <<consumer_ready, go, mains, m>>

SeesReady ==
  /\ main = "await ready" /\ consumer_ready
  /\ main' = "ping"
  /\ UNCHANGED <<queues, consumer_ready, go, i, histogram, consumers>>

SendPing ==
  /\ main = "ping" /\ Ping!Put(i)
  /\ main' = "pong"
  /\ Others("ping") /\ UNCHANGED <<consumer_ready, go, i, histogram, consumers>>

Recorded(n) == n >= Warmup

TakePong ==
  /\ main = "pong" /\ Pong!Get
  /\ \/ ~Recorded(i) /\ UNCHANGED histogram
     \/ Recorded(i) /\ \E elapsed \in 0 .. 2 * MaxNs : Record(elapsed \div 2)
  /\ i' = i + 1
  /\ main' = IF i' < PingPongs + Warmup THEN "ping" ELSE "join"
  /\ Others("pong") /\ UNCHANGED <<consumer_ready, go, consumers>>
------------------------------------------------------------------------------
(* throughput *)

\* main joins the first consumer and starts the second, which counts from zero.
NextMeasurement ==
  /\ main = "join" /\ consumer = "exited"
  /\ main' = "await go" /\ i' = 0
  /\ consumer' = "streaming created" /\ served' = 0
  /\ UNCHANGED <<queues, consumer_ready, go, histogram, m>>

Go ==
  /\ consumer = "streaming created" /\ consumer' = "drain"
  /\ go' = TRUE
  /\ UNCHANGED <<queues, consumer_ready, mains, served, m>>

Drain ==
  /\ consumer = "drain" /\ Stream!Get
  /\ m' = Head(stream) /\ served' = served + 1
  /\ consumer' = IF served' < Streamed THEN "drain" ELSE "exited"
  /\ Others("stream") /\ UNCHANGED <<consumer_ready, go, mains>>

SeesGo ==
  /\ main = "await go" /\ go
  /\ main' = "stream"
  /\ UNCHANGED <<queues, consumer_ready, go, i, histogram, consumers>>

Feed ==
  /\ main = "stream" /\ Stream!Put(i)
  /\ i' = i + 1
  /\ main' = IF i' < Streamed THEN "stream" ELSE "last join"
  /\ Others("stream") /\ UNCHANGED <<consumer_ready, go, histogram, consumers>>

LastJoin ==
  /\ main = "last join" /\ consumer = "exited"
  /\ main' = "done"
  /\ UNCHANGED <<queues, consumer_ready, go, i, histogram, consumers>>

Main == SeesReady \/ SendPing \/ TakePong \/ NextMeasurement \/ SeesGo \/ Feed \/ LastJoin
Consumer == Ready \/ TakePing \/ Answer \/ Go \/ Drain

DemoNext == Main \/ Consumer

\* Each thread spins until it is let on, and the scheduler runs both.
DemoSpec == DemoInit /\ [][DemoNext]_demo /\ WF_demo(Main) /\ WF_demo(Consumer)
------------------------------------------------------------------------------
(* Properties *)

\* "a ping-pong so the queue is never backed up": one message is under way, in one of the
\* two queues or in the consumer's hand, so what is timed is a handoff and not a queue.
NeverBackedUp ==
  Len(to_consumer) + Len(to_producer) + (IF consumer = "push" THEN 1 ELSE 0) <= 1

\* Every reply is to the message of its own round: an elapsed time never spans two.
OwnReply == /\ \A n \in DOMAIN ponged : ponged[n] = n - 1
            /\ main = "pong" => Len(ponged) = i

\* When the program ends, the warm-up and nothing else has been left out of the samples,
\* and the stream has arrived whole, in order, each message once.
Complete ==
  main = "done" =>
    /\ total_ = PingPongs
    /\ streamed = [n \in 1 .. Streamed |-> n - 1] /\ stream = << >>

\* Every number the demo prints is of one handoff, none is missing, and none was taken twice.
HandoffsExact == NeverBackedUp /\ OwnReply /\ Complete

\* Once the first consumer runs nobody spins for ever, in either measurement: both
\* consumers leave their loops by their own count, both joins return.
Terminates == consumer_ready ~> (main = "done")
==============================================================================
