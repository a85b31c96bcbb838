------------------------------ MODULE Ingress -------------------------------
(***************************************************************************)
(* The front door of internal/ingest: IDSet, Admit and Confirm, run by one *)
(* goroutine per order at a time, over the ring seen through its contract  *)
(* (OrderLog).  stage[o] is where the handling of o stands and, at its     *)
(* end, the class of the error that Admit or Confirm returned.             *)
(***************************************************************************)
EXTENDS OrderLog

CONSTANTS IdOf,      \* the order_id of each order; a retry has the id of the first try
          Invalid    \* the orders that Validate rejects

ASSUME IngressAssumption == Invalid \subseteq Orders /\ DOMAIN IdOf = Orders

VARIABLES
  ids,       \* IDSet: the order_ids taken (a shard's lock makes each call one step)
  stage,
  archived   \* the orders handed to Batcher.Push

ingressVars == <<ids, stage, archived>>

InAdmit   == {"register", "publish", "forget"}
InConfirm == {"admitted", "archive"}
Results   == {"ok", "invalid", "duplicate", "unavailable"}
Stages    == {"idle", "lost"} \cup InAdmit \cup InConfirm \cup Results

SetStage(o, s) == stage' = [stage EXCEPT ![o] = s]

IngressInit == ids = {} /\ stage = [o \in Orders |-> "idle"] /\ archived = {}

\* Validate, then Register; Publish starts when both have passed.
Register(o) ==
  /\ stage[o] = "register"
  /\ IF o \in Invalid
       THEN SetStage(o, "invalid") /\ UNCHANGED <<ids, logVars>>
     ELSE IF IdOf[o] \in ids
       THEN SetStage(o, "duplicate") /\ UNCHANGED <<ids, logVars>>
     ELSE /\ ids' = ids \cup {IdOf[o]}
          /\ SetStage(o, "publish")
          /\ Submit(o)
  /\ UNCHANGED archived

PublishOk(o) ==
  /\ stage[o] = "publish"
  /\ Accept(o)
  /\ SetStage(o, "admitted")
  /\ UNCHANGED <<ids, archived>>

PublishFails(o) ==
  /\ stage[o] = "publish"
  /\ Refuse(o)
  /\ SetStage(o, "forget")
  /\ UNCHANGED <<ids, archived>>

FaultyForget(o) ==
  /\ stage[o] = "forget"
  /\ SetStage(o, "unavailable")
  /\ UNCHANGED <<ids, logVars, archived>>

\* The id is free again: nothing of the order is in the ring.
Forget(o) ==
  /\ stage[o] = "forget"
  /\ ids' = ids \ {IdOf[o]}
  /\ SetStage(o, "unavailable")
  /\ UNCHANGED <<logVars, archived>>

Admit(o) == Register(o) \/ PublishOk(o) \/ PublishFails(o) \/ Forget(o)

Durable(o) ==
  /\ stage[o] = "admitted"
  /\ Acknowledge(o)
  /\ SetStage(o, "archive")
  /\ UNCHANGED <<ids, archived>>

\* WaitDurable gave up.  The id stays taken: the order may be in the file.
NotDurable(o) ==
  /\ stage[o] = "admitted"
  /\ Unconfirm(o)
  /\ SetStage(o, "unavailable")
  /\ UNCHANGED <<ids, archived>>

\* Push to the archive; an error of it is only logged.
Archive(o) ==
  /\ stage[o] = "archive"
  /\ archived' \in {archived, archived \cup {o}}
  /\ SetStage(o, "ok")
  /\ UNCHANGED <<ids, logVars>>

FaultyConfirm(o) == Durable(o) \/ Archive(o)

Confirm(o) == Durable(o) \/ NotDurable(o) \/ Archive(o)
=============================================================================
