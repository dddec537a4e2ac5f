------------------------------- MODULE Ingest -------------------------------
(***************************************************************************)
(* POST /v1/batch and /v1/import after the guards: IngestController and    *)
(* IngestService write a client's batch to the Redis stream                *)
(* events:incoming, unless the stream is too long, and answer 202 or 503.  *)
(* The client (EventQueue of the SDK) repeats a batch until it gets a 202. *)
(*                                                                         *)
(* Promise.race with the handler timeout answers the client but stops      *)
(* nothing, so a batch may have several handlers at once.  The stream is   *)
(* the sequence of all entries ever added; those up to trimmedTo are gone, *)
(* those up to processed are acknowledged by the processor, which deletes  *)
(* nothing.  Failed calls, crashes, hanging calls and timeouts draw on the *)
(* budget MaxFaults.                                                       *)
(***************************************************************************)
EXTENDS Naturals, Sequences

CONSTANTS
  Replicas,   \* ingest replicas
  Batches,    \* the batches the clients send
  BatchLen,   \* events of a batch
  Threshold,  \* STREAM_BACKPRESSURE_THRESHOLD
  MaxLen,     \* REDIS_STREAM_MAXLEN
  MaxFaults   \* bound: faults, hence handlers of one batch at a time

ASSUME SizesAssumption ==
  /\ BatchLen \in Nat \ {0} /\ Threshold \in Nat \ {0} /\ MaxLen \in Nat
  /\ MaxFaults \in Nat
  /\ Threshold <= MaxLen

VARIABLES
  log,        \* all entries ever added to the stream
  trimmedTo,  \* entries removed by MAXLEN
  processed,  \* entries the processor is done with
  cached,     \* cachedStreamLen of each replica
  fresh,      \* now - cachedStreamLenAt < BACKPRESSURE_CACHE_TTL_MS
  measured,   \* history: Len(log) when the cached XLEN was taken
  handler,    \* the handlers of each batch
  waits,      \* the handler whose answer the client awaits, 0 for none
  accepted,   \* batches answered with 202
  refused,    \* history: batches refused for the length of the stream
  faults      \* faults so far

streamVars == <<log, trimmedTo, processed>>
cacheVars  == <<cached, fresh, measured>>
clientVars == <<waits, accepted, refused>>
vars == <<streamVars, cacheVars, handler, clientVars, faults>>

Slots == 1 .. MaxFaults + 1
Entry == [batch : Batches, event : 1..BatchLen]
Steps == {"none", "xlen", "reply", "write", "hung"}

(* at: the replica; len: the XLEN it got; base: Len(log) when that was taken.*)
Handler == [step : Steps, at : Replicas, len : Nat, base : Nat]

XLen == Len(log) - trimmedTo

(* The variables keep their types; a client awaits a handler that exists.   *)
TypeOK ==
  /\ log \in Seq(Entry) /\ trimmedTo \in 0..Len(log) /\ processed \in 0..Len(log)
  /\ cached \in [Replicas -> Nat] /\ fresh \in [Replicas -> BOOLEAN]
  /\ measured \in [Replicas -> Nat]
  /\ handler \in [Batches -> [Slots -> Handler]]
  /\ waits \in [Batches -> {0} \cup Slots]
  /\ accepted \subseteq Batches /\ refused \subseteq Batches
  /\ faults \in 0..MaxFaults
  /\ \A b \in Batches : waits[b] # 0 => handler[b][waits[b]].step # "none"
-----------------------------------------------------------------------------
Idle(p) == [step |-> "none", at |-> p, len |-> 0, base |-> 0]

Init ==
  /\ log = <<>> /\ trimmedTo = 0 /\ processed = 0
  /\ cached = [p \in Replicas |-> 0] /\ fresh = [p \in Replicas |-> FALSE]
  /\ measured = [p \in Replicas |-> 0]
  /\ \E p \in Replicas : handler = [b \in Batches |-> [s \in Slots |-> Idle(p)]]
  /\ waits = [b \in Batches |-> 0]
  /\ accepted = {} /\ refused = {}
  /\ faults = 0

Fault == faults < MaxFaults /\ faults' = faults + 1

(* Mutant: the limit is one entry lower.                                    *)
TooLongEarly(len) == len + 1 >= Threshold

TooLong(len) == len >= Threshold

(* Mutant: the handler ends without an answer.                              *)
EndsUnanswered(b, s) ==
  /\ handler' = [handler EXCEPT ![b][s] = Idle(@.at)]
  /\ waits' = waits

(* The handler ends; its answer counts only if the client still waits.      *)
Ends(b, s) ==
  /\ handler' = [handler EXCEPT ![b][s] = Idle(@.at)]
  /\ waits' = IF waits[b] = s THEN [waits EXCEPT ![b] = 0] ELSE waits

(* checkBackpressure throws, callOrThrow503 answers 503.                    *)
Refuse(b, s) ==
  /\ Ends(b, s)
  /\ refused' = IF waits[b] = s THEN refused \cup {b} ELSE refused
  /\ accepted' = accepted
-----------------------------------------------------------------------------
(* Mutant: a fresh cache admits the batch without a look at the length.     *)
SendTrustsCache(b, s, p) ==
  LET start(step) == [step |-> step, at |-> p, len |-> cached[p], base |-> measured[p]]
  IN  /\ b \notin accepted /\ waits[b] = 0
      /\ handler[b][s].step = "none" /\ \A r \in Slots : r < s => handler[b][r].step # "none"
      /\ handler' = [handler EXCEPT ![b][s] = start(IF fresh[p] THEN "write" ELSE "xlen")]
      /\ waits' = [waits EXCEPT ![b] = s]
      /\ UNCHANGED <<streamVars, cacheVars, accepted, refused, faults>>

(* The client sends or repeats its batch; a fresh cache decides at once.    *)
Send(b, s, p) ==
  LET start(step) == [step |-> step, at |-> p, len |-> cached[p], base |-> measured[p]]
  IN  /\ b \notin accepted /\ waits[b] = 0
      /\ handler[b][s].step = "none" /\ \A r \in Slots : r < s => handler[b][r].step # "none"
      /\ IF fresh[p] /\ TooLong(cached[p])
         THEN /\ refused' = refused \cup {b}
              /\ UNCHANGED <<handler, waits>>
         ELSE /\ handler' = [handler EXCEPT ![b][s] = start(IF fresh[p] THEN "write" ELSE "xlen")]
              /\ waits' = [waits EXCEPT ![b] = s]
              /\ refused' = refused
      /\ UNCHANGED <<streamVars, cacheVars, accepted, faults>>

(* Redis executes XLEN.                                                     *)
MeasureLen(b, s) ==
  /\ handler[b][s].step = "xlen"
  /\ handler' = [handler EXCEPT ![b][s] =
                   [@ EXCEPT !.step = "reply", !.len = XLen, !.base = Len(log)]]
  /\ UNCHANGED <<streamVars, cacheVars, clientVars, faults>>

(* The reply fills the cache, which is dated before the call: it may be too *)
(* old already, and replace what a later call has found.                    *)
CheckLen(b, s) ==
  LET h == handler[b][s]
  IN  /\ h.step = "reply"
      /\ cached' = [cached EXCEPT ![h.at] = h.len]
      /\ measured' = [measured EXCEPT ![h.at] = h.base]
      /\ \E young \in BOOLEAN : fresh' = [fresh EXCEPT ![h.at] = young]
      /\ IF TooLong(h.len)
         THEN Refuse(b, s)
         ELSE /\ handler' = [handler EXCEPT ![b][s].step = "write"]
              /\ UNCHANGED clientVars
      /\ UNCHANGED <<streamVars, faults>>

(* The XADDs of a pipeline that take effect, in their order.                *)
Chunks ==
  {c \in UNION {[1..n -> 1..BatchLen] : n \in 0..BatchLen} :
     \A i, j \in DOMAIN c : i < j => c[i] < c[j]}
Whole == [i \in 1..BatchLen |-> i]

(* XADD MAXLEN ~ of some events of b; the trim is approximate.              *)
Add(b, chunk) ==
  /\ log' = log \o [i \in DOMAIN chunk |-> [batch |-> b, event |-> chunk[i]]]
  /\ trimmedTo' \in {trimmedTo} \cup {t \in trimmedTo..Len(log) : Len(log') - t >= MaxLen}
  /\ processed' = processed

(* Mutant: the results of the pipeline are not inspected.                   *)
WriteUnchecked(b, s) ==
  /\ handler[b][s].step = "write"
  /\ \E chunk \in Chunks : Add(b, chunk)
  /\ Ends(b, s)
  /\ accepted' = IF waits[b] = s THEN accepted \cup {b} ELSE accepted
  /\ UNCHANGED <<cacheVars, refused, faults>>

(* The pipeline writes every event: 202.                                    *)
Write(b, s) ==
  /\ handler[b][s].step = "write"
  /\ Add(b, Whole)
  /\ Ends(b, s)
  /\ accepted' = IF waits[b] = s THEN accepted \cup {b} ELSE accepted
  /\ UNCHANGED <<cacheVars, refused, faults>>

(* XLEN throws, or some XADD of the pipeline fails, or its reply is lost.   *)
CallFails(b, s) ==
  /\ Fault
  /\ \/ handler[b][s].step = "xlen" /\ UNCHANGED streamVars
     \/ handler[b][s].step = "write" /\ \E chunk \in Chunks : Add(b, chunk)
  /\ Ends(b, s)
  /\ UNCHANGED <<cacheVars, accepted, refused>>

(* Redis never answers; the call may still have its effect.                 *)
CallHangs(b, s) ==
  /\ Fault
  /\ \/ handler[b][s].step \in {"xlen", "write"} /\ UNCHANGED streamVars
     \/ handler[b][s].step = "write" /\ \E chunk \in Chunks : Add(b, chunk)
  /\ handler' = [handler EXCEPT ![b][s].step = "hung"]
  /\ UNCHANGED <<cacheVars, clientVars>>

(* Mutant: the timeout covers the write only.                               *)
TimeoutOfWrite(b) ==
  /\ waits[b] # 0
  /\ handler[b][waits[b]].step = "write"
  /\ Fault
  /\ waits' = [waits EXCEPT ![b] = 0]
  /\ UNCHANGED <<streamVars, cacheVars, handler, accepted, refused>>

(* HANDLER_TIMEOUT_MS: 503, while the handler goes on.                      *)
Timeout(b) ==
  /\ waits[b] # 0
  /\ IF handler[b][waits[b]].step = "hung" THEN faults' = faults ELSE Fault
  /\ waits' = [waits EXCEPT ![b] = 0]
  /\ UNCHANGED <<streamVars, cacheVars, handler, accepted, refused>>

CacheExpires(p) ==
  /\ fresh[p]
  /\ fresh' = [fresh EXCEPT ![p] = FALSE]
  /\ UNCHANGED <<streamVars, cached, measured, handler, clientVars, faults>>

(* The handlers of p are gone, their clients see a broken connection.       *)
Crash(p) ==
  /\ Fault
  /\ cached' = [cached EXCEPT ![p] = 0] /\ fresh' = [fresh EXCEPT ![p] = FALSE]
  /\ measured' = [measured EXCEPT ![p] = 0]
  /\ handler' = [b \in Batches |-> [s \in Slots |->
                   IF handler[b][s].at = p THEN Idle(p) ELSE handler[b][s]]]
  /\ waits' = [b \in Batches |->
                 IF waits[b] # 0 /\ handler'[b][waits[b]].step = "none" THEN 0 ELSE waits[b]]
  /\ UNCHANGED <<streamVars, accepted, refused>>

(* The processor acknowledges the next entry that is still there.           *)
Process ==
  LET next == IF processed < trimmedTo THEN trimmedTo + 1 ELSE processed + 1
  IN  /\ next <= Len(log)
      /\ processed' = next
      /\ UNCHANGED <<log, trimmedTo, cacheVars, handler, clientVars, faults>>
-----------------------------------------------------------------------------
Handle(b, s) ==
  \/ \E p \in Replicas : Send(b, s, p)
  \/ MeasureLen(b, s) \/ CheckLen(b, s) \/ Write(b, s) \/ CallFails(b, s) \/ CallHangs(b, s)

Next ==
  \/ \E b \in Batches : Timeout(b) \/ \E s \in Slots : Handle(b, s)
  \/ \E p \in Replicas : CacheExpires(p) \/ Crash(p)
  \/ Process

Spec == Init /\ [][Next]_vars
-----------------------------------------------------------------------------
(* However old the cached length of a replica is, a batch is refused only   *)
(* when the stream really is at the threshold.                              *)
RefusalNotStale == [][refused' # refused => XLen >= Threshold]_vars

(* MAXLEN removes entries only in a burst: the batch was admitted at fewer  *)
(* than Threshold entries, and since that XLEN so many were written that    *)
(* the slack between the two limits is used up.                             *)
TrimNeedsBurst ==
  [][trimmedTo' # trimmedTo =>
       \E b \in Batches, s \in Slots :
         /\ handler[b][s].step = "write" /\ handler'[b][s].step # "write"
         /\ Len(log') - handler[b][s].base >= MaxLen - Threshold + 2]_vars

(* A batch answered with 202 is complete in the stream, whichever of its    *)
(* handlers timed out, failed half way or was late.                         *)
Complete ==
  \A b \in accepted : \A e \in 1..BatchLen :
    \E i \in DOMAIN log : log[i] = [batch |-> b, event |-> e]
-----------------------------------------------------------------------------
(* Clients repeat, Redis answers what does not hang, timers fire, and the   *)
(* processor goes on.                                                       *)
Fairness ==
  /\ \A b \in Batches :
       /\ WF_vars(waits[b] # 0 /\ handler[b][waits[b]].step = "hung" /\ Timeout(b))
       /\ WF_vars(\E s \in Slots, p \in Replicas : Send(b, s, p))
       /\ \A s \in Slots : WF_vars(MeasureLen(b, s)) /\ WF_vars(CheckLen(b, s)) /\ WF_vars(Write(b, s))
  /\ \A p \in Replicas : WF_vars(CacheExpires(p))
  /\ WF_vars(Process)

FairSpec == Spec /\ Fairness

(* A client that goes on repeating its batch is finally answered with 202,  *)
(* or the stream has reached the threshold.                                 *)
FinallyAccepted == \A b \in Batches : <>(b \in accepted \/ XLen >= Threshold)

(* The 503 says: Event ingestion temporarily unavailable, retryable.  With  *)
(* the processor keeping up, a refused batch is accepted later.             *)
RefusalIsTemporary == \A b \in Batches : b \in refused ~> b \in accepted
=============================================================================
