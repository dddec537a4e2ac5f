------------------------------ MODULE Delivery ------------------------------
(***************************************************************************)
(* What the ingestion pipeline promises for each event that ingest wrote   *)
(* to the stream, with no mention of buffers, acknowledgements, dead       *)
(* letters or crashes.  An accepted event stays accepted until it is       *)
(* stored in ClickHouse, rejected because it fails validation, or evicted  *)
(* by the MAXLEN of a stream.  Stored and rejected are final.  An evicted  *)
(* event may still be stored by a processor that read it before.           *)
(***************************************************************************)
CONSTANTS
  Events,    \* the events a client may send
  Malformed  \* those that validate.step.ts refuses

VARIABLE status

Status == {"unsent", "accepted", "stored", "rejected", "evicted"}

Init == status = [e \in Events |-> "unsent"]

(* The fates one step may decide for one event. *)
Fate(e) ==
  CASE status[e] = "unsent"   -> {"accepted"}
    [] status[e] = "accepted" -> IF e \in Malformed THEN {"rejected", "evicted"}
                                                    ELSE {"stored", "evicted"}
    [] status[e] = "evicted"  -> IF e \in Malformed THEN {} ELSE {"stored"}
    [] OTHER                  -> {}

(* A batch moves together: one step may decide several events. *)
Next ==
  /\ status' \in [Events -> Status]
  /\ \A e \in Events : status'[e] # status[e] => status'[e] \in Fate(e)

Spec == Init /\ [][Next]_status
=============================================================================
