------------------------------ MODULE SdkQueue ------------------------------
(***************************************************************************)
(* EventQueue of sdk-core: what the browser, Node and Telegram SDKs do     *)
(* with an event between track() and the answer of ingest.                 *)
(*                                                                         *)
(* Events are numbered in the order of enqueue.  A step is one task of the *)
(* JavaScript event loop: flush() runs to the await of transport.send, and *)
(* from its answer through finally.  The page may be closed and loaded     *)
(* again between any two tasks; storage (localStorage) survives.           *)
(***************************************************************************)
EXTENDS Naturals, Sequences

CONSTANTS
  MaxEvents,    \* bound: events that the application tracks
  FlushSize,    \* flushSize
  MaxQueueSize  \* maxQueueSize

ASSUME SizesAssumption ==
  MaxEvents \in Nat /\ FlushSize \in Nat \ {0} /\ MaxQueueSize \in Nat \ {0}

VARIABLES
  tracked,   \* events enqueued so far
  queue,     \* EventQueue.queue
  inFlight,  \* inFlightBatch; null is the empty sequence
  payload,   \* what the request in progress carries; flushing while not empty
  backoff,   \* Date.now() < retryAfter
  timer,     \* the interval of start() is set
  closing,   \* shutdown(): not called, waiting, resolved, rejected, or timed out
  drain,     \* sizeBefore of the flushAll in progress, 0 when there is none
  storage,   \* what the last save() that worked wrote
  stale,     \* history: the last save() failed
  beacons,   \* keepalive requests of flushForUnload on their way
  settled    \* history: events that ingest received or that were given up

persistVars == <<storage, stale>>
closeVars   == <<timer, closing, drain>>
fateVars    == <<beacons, settled>>
vars == <<tracked, queue, inFlight, payload, backoff, closeVars, persistVars, fateVars>>

Events == 1..MaxEvents
Elements(s) == {s[i] : i \in DOMAIN s}
Flushing == payload # <<>>

(* The variables keep their types, and the batch in flight is what the      *)
(* request carries, unless flushForUnload took it.                          *)
TypeOK ==
  /\ tracked \in 0..MaxEvents
  /\ queue \in Seq(Events) /\ inFlight \in Seq(Events) /\ payload \in Seq(Events)
  /\ backoff \in BOOLEAN /\ timer \in BOOLEAN /\ stale \in BOOLEAN
  /\ closing \in {"no", "waiting", "resolved", "rejected", "timedOut"} /\ drain \in Nat
  /\ storage \in Seq(Events)
  /\ beacons \subseteq SUBSET Events
  /\ settled \subseteq Events
  /\ inFlight \in {<<>>, payload}
-----------------------------------------------------------------------------
Init ==
  /\ tracked = 0
  /\ queue = <<>> /\ inFlight = <<>> /\ payload = <<>>
  /\ backoff = FALSE
  /\ timer = TRUE /\ closing = "no" /\ drain = 0
  /\ storage = <<>> /\ stale = FALSE
  /\ beacons = {} /\ settled = {}

(* persist(): best effort, a full or forbidden storage is ignored.          *)
Persist(q) ==
  \/ storage' = q /\ stale' = FALSE
  \/ storage' = storage /\ stale' = TRUE

Prefix(q) == SubSeq(q, 1, IF Len(q) < FlushSize THEN Len(q) ELSE FlushSize)
Suffix(q) == SubSeq(q, FlushSize + 1, Len(q))

(* flush() up to the await: the batch leaves the queue, nothing is saved.   *)
Begin(q) == /\ inFlight' = Prefix(q) /\ payload' = Prefix(q) /\ queue' = Suffix(q)

Full == Len(queue) >= MaxQueueSize

(* enqueue(), with the flush it may start.                                  *)
Enqueue ==
  LET e == tracked + 1
      q == Append(IF Full THEN Tail(queue) ELSE queue, e)
  IN  /\ tracked < MaxEvents
      /\ tracked' = e
      /\ settled' = IF Full THEN settled \cup {Head(queue)} ELSE settled
      /\ Persist(q)
      /\ IF Len(q) >= FlushSize /\ ~Flushing /\ ~backoff
         THEN Begin(q)
         ELSE queue' = q /\ UNCHANGED <<inFlight, payload>>
      /\ UNCHANGED <<backoff, closeVars, beacons>>

(* Mutant: the timer sends full batches only.                               *)
TickFull ==
  /\ timer /\ Len(queue) >= FlushSize /\ ~Flushing /\ ~backoff
  /\ Begin(queue)
  /\ UNCHANGED <<tracked, backoff, closeVars, persistVars, fateVars>>

(* flush() by the timer.                                                    *)
Tick ==
  /\ timer /\ queue # <<>> /\ ~Flushing /\ ~backoff
  /\ Begin(queue)
  /\ UNCHANGED <<tracked, backoff, closeVars, persistVars, fateVars>>
-----------------------------------------------------------------------------
(* Mutant: finally does not reset inFlightBatch.                            *)
SettleKeepsBatch(q) ==
  /\ Persist(q)
  /\ queue' = q /\ inFlight' = inFlight /\ payload' = <<>>
  /\ UNCHANGED <<closing, drain>>

(* Mutant: finally does not save the queue.                                 *)
SettleUnsaved(q) ==
  /\ queue' = q /\ inFlight' = <<>> /\ payload' = <<>>
  /\ UNCHANGED <<closing, drain, persistVars>>

(* The rest of flush(): the queue is q when send() has been answered.  The  *)
(* flushAll that awaits it goes on unless the queue did not shrink.         *)
Settle(q) ==
  /\ Persist(q)
  /\ IF drain # 0 /\ q # <<>> /\ Len(q) < drain
     THEN Begin(q) /\ drain' = Len(q) /\ UNCHANGED closing
     ELSE /\ queue' = q /\ inFlight' = <<>> /\ payload' = <<>>
          /\ drain' = 0
          /\ closing' = IF drain # 0 /\ closing = "waiting" THEN "resolved" ELSE closing

(* flushForUnload took the batch meanwhile and the handler reads null: the  *)
(* exception leaves flush() after its finally, and flushAll with it.        *)
Throws ==
  /\ inFlight = <<>>
  /\ Persist(queue)
  /\ payload' = <<>> /\ drain' = 0
  /\ closing' = IF drain # 0 /\ closing = "waiting" THEN "rejected" ELSE closing
  /\ UNCHANGED <<queue, inFlight>>

SendOk ==
  /\ Flushing
  /\ settled' = settled \cup Elements(payload)
  /\ backoff' = FALSE
  /\ Settle(queue)
  /\ UNCHANGED <<tracked, timer, beacons>>

(* Mutant: the batch is pushed back at the end of the queue.                *)
RequeueLast(q) == q \o inFlight

(* this.queue.unshift(...inFlightBatch)                                     *)
Requeue(q) == inFlight \o q

(* Not ok, a 5xx, the network, or the abort after sendTimeoutMs: ingest may *)
(* have the batch.  Without a batch to put back there is no backoff.        *)
SendFails ==
  /\ Flushing
  /\ settled' \in {settled, settled \cup Elements(payload)}
  /\ \/ Throws /\ backoff' = backoff
     \/ inFlight # <<>> /\ backoff' = TRUE /\ Settle(Requeue(queue))
  /\ UNCHANGED <<tracked, timer, beacons>>

(* NonRetryableError: the batch is dropped, and its length logged.          *)
SendRefused ==
  /\ Flushing
  /\ settled' = settled \cup Elements(payload)
  /\ Settle(queue) \/ Throws
  /\ UNCHANGED <<tracked, backoff, timer, beacons>>

(* QuotaExceededError: everything is dropped and the timer stops.           *)
SendOverQuota ==
  /\ Flushing
  /\ settled' = settled \cup Elements(payload) \cup Elements(queue)
  /\ timer' = FALSE
  /\ Settle(<<>>)
  /\ UNCHANGED <<tracked, backoff, beacons>>

BackoffOver ==
  /\ backoff
  /\ backoff' = FALSE
  /\ UNCHANGED <<tracked, queue, inFlight, payload, closeVars, persistVars, fateVars>>
-----------------------------------------------------------------------------
(* shutdown(): flushAll clears the backoff and flushes until the queue is   *)
(* empty; a flush in progress makes its own flush() return at once.         *)
Shutdown ==
  /\ closing = "no"
  /\ timer' = FALSE
  /\ IF queue = <<>>
     THEN /\ closing' = "resolved"
          /\ backoff' = IF inFlight = <<>> THEN backoff ELSE FALSE
          /\ UNCHANGED <<queue, inFlight, payload, drain>>
     ELSE /\ backoff' = FALSE
          /\ IF Flushing
             THEN closing' = "resolved" /\ UNCHANGED <<queue, inFlight, payload, drain>>
             ELSE closing' = "waiting" /\ drain' = Len(queue) /\ Begin(queue)
  /\ UNCHANGED <<tracked, persistVars, fateVars>>

(* The race of shutdown() is won by its timeout; flushAll goes on.          *)
ShutdownTimeout ==
  /\ closing = "waiting"
  /\ closing' = "timedOut"
  /\ UNCHANGED <<tracked, queue, inFlight, payload, backoff, timer, drain, persistVars,
                 fateVars>>

(* Mutant: the unload request carries the queue only.                       *)
UnloadQueueOnly ==
  /\ queue # <<>>
  /\ beacons' = beacons \cup {Elements(queue)}
  /\ queue' = <<>> /\ inFlight' = <<>>
  /\ Persist(<<>>)
  /\ UNCHANGED <<tracked, payload, backoff, closeVars, settled>>

(* flushForUnload(), when the page is hidden or left: one keepalive request *)
(* with everything, the batch of the request in progress included.          *)
FlushForUnload ==
  /\ Elements(inFlight \o queue) # {}
  /\ beacons' = beacons \cup {Elements(inFlight \o queue)}
  /\ queue' = <<>> /\ inFlight' = <<>>
  /\ Persist(<<>>)
  /\ UNCHANGED <<tracked, payload, backoff, closeVars, settled>>

(* The browser completes a keepalive request, or it fails unnoticed.        *)
BeaconEnds(b) ==
  /\ beacons' = beacons \ {b}
  /\ settled' = settled \cup b
  /\ UNCHANGED <<tracked, queue, inFlight, payload, backoff, closeVars, persistVars>>

(* The page goes and a new one restores what storage holds, but for the     *)
(* events that are too old or unreadable; what is not restored is given up, *)
(* whether or not the request in progress still arrives.                    *)
Reload ==
  \E expired \in 0..Len(storage) :
    LET restored == SubSeq(storage, expired + 1, Len(storage))
    IN  /\ queue' = restored /\ inFlight' = <<>> /\ payload' = <<>>
        /\ backoff' = FALSE /\ timer' = TRUE /\ closing' = "no" /\ drain' = 0
        /\ settled' = settled \cup
             ((Elements(storage) \cup Elements(inFlight) \cup Elements(queue))
               \ Elements(restored))
        /\ UNCHANGED <<tracked, persistVars, beacons>>
-----------------------------------------------------------------------------
Next ==
  \/ Enqueue \/ Tick \/ SendOk \/ SendFails \/ SendRefused \/ SendOverQuota \/ BackoffOver
  \/ Shutdown \/ ShutdownTimeout \/ FlushForUnload \/ Reload
  \/ \E b \in beacons : BeaconEnds(b)

Spec == Init /\ [][Next]_vars
-----------------------------------------------------------------------------
(* Every event is queued, on its way or settled: nothing that track() took  *)
(* is forgotten by a requeue, an unload during a flush, or a reload.        *)
Accounted ==
  \A e \in 1..tracked :
    \/ e \in Elements(queue) \cup Elements(inFlight)
    \/ e \in settled
    \/ \E b \in beacons : e \in b

(* The batch in flight and the queue are in the order of track(), with no   *)
(* event twice, whatever requeues, drops and restores happened.             *)
InOrder ==
  LET all == inFlight \o queue
  IN  \A i, j \in DOMAIN all : i < j => all[i] < all[j]

(* A page that goes loses at most the batch in flight: every queued event   *)
(* is in storage, unless a save failed.                                     *)
StorageCovers == ~stale => Elements(queue) \subseteq Elements(storage)

(* A failed batch goes back to a queue that has filled up meanwhile, so the *)
(* queue may exceed maxQueueSize, but by one batch at most.                 *)
SizeBound == Len(queue) + Len(inFlight) <= MaxQueueSize + FlushSize

(* README of sdk-node: shutdown() flushes all remaining events.  When it    *)
(* resolves, no send having failed, nothing is queued or in flight.         *)
ShutdownFlushesAll ==
  [][closing # "resolved" /\ closing' = "resolved" /\ ~backoff'
       => queue' = <<>> /\ payload' = <<>>]_vars
-----------------------------------------------------------------------------
(* Timers fire and requests are answered; a server that is asked again and  *)
(* again finally accepts (SF).                                              *)
Fairness ==
  /\ WF_vars(Tick) /\ WF_vars(BackoffOver) /\ SF_vars(SendOk)
  /\ \A b \in SUBSET Events : WF_vars(b \in beacons /\ BeaconEnds(b))

FairSpec == Spec /\ Fairness

(* Once pages stay, every event is finally sent or given up while the timer *)
(* runs: no interleaving of failures, unloads and drops strands one.        *)
EverySettles ==
  <>[][~Reload]_vars =>
    \A e \in Events : e <= tracked ~> e \in settled \/ ~timer
=============================================================================
