----------------------- MODULE AgentRunCallbackProofs -----------------------
(***************************************************************************)
(* Proofs about the per-run callback, for every number of callers, jobs,   *)
(* generations, attempts and faults.                                       *)
(***************************************************************************)
EXTENDS AgentRunCallback, TLAPS

LEMMA InitTyped == Init => TypeOK
  <1> SUFFICES ASSUME Init PROVE TypeOK
    OBVIOUS
  <1>1. 1 \in 1..MaxGen /\ 0 \in 0..MaxFaults
    BY CallbackAssumption
  <1> QED BY <1>1 DEF Init, TypeOK, Statuses, CallbackStatus, CallSteps, Events

\* An idle sender or a free job has none of the other fields.
LEMMA SenderTypes ==
  ASSUME TypeOK, NEW s \in Senders
  PROVE  /\ send[s].step = "record" => send[s] \in [step : {"record"}, event : Events, attempts : {MaxAttempts}]
         /\ send[s].step = "touch" => send[s] \in [step : {"touch"}, event : Events, seen : {"pending", "failed"}, count : Nat]
         /\ send[s].step = "enqueue" => send[s] \in [step : {"enqueue"}, event : Events, attempts : {1, MaxAttempts}]
  BY DEF TypeOK, Sending, Idle

LEMMA JobTypes ==
  ASSUME TypeOK, NEW j \in JobIds
  PROVE  /\ jobs[j].step = "ready" => jobs[j] \in [step : {"ready"}, event : Events, attempts : Nat]
         /\ jobs[j].step = "sent" => jobs[j] \in [step : {"sent"}, event : Events, attempts : Nat, ok : BOOLEAN, count : Nat]
  BY DEF TypeOK, Jobs, Free

\* Two kinds of events, so a stopped run names one.
LEMMA EventTypes ==
  ASSUME TypeOK
  PROVE  /\ <<"requires_action", gen>> \in Events
         /\ <<"outcome", gen>> \in Events
         /\ status # "active" => <<status, gen>> \in Events
         /\ Events \subseteq Senders
  BY DEF TypeOK, Events, Statuses, Senders

LEMMA FireTyped ==
  ASSUME TypeOK, NEW e \in Events, Fire(e)
  PROVE  send' \in [Senders -> Sending \cup {Idle}]
  BY DEF TypeOK, Fire, Sending, Senders

LEMMA RedeliveryTyped ==
  ASSUME TypeOK, status # "active"
  PROVE  Redelivery \in Sending
  <1>1. <<status, gen>> \in Events
    BY EventTypes
  <1>2. cb.attempts \in Nat
    BY DEF TypeOK
  <1> QED BY <1>1, <1>2 DEF Redelivery, Sending

\* What settling does: the outcome was answered, the duty is handed back, or it fails.
LEMMA SettleCases ==
  ASSUME TypeOK, NEW c \in Callers, SettleHold(c)
  PROVE  \/ /\ call[c].status = "outcome"
            /\ cb' = [cb EXCEPT !.status = "answered", !.attempts = 0]
            /\ call' = [call EXCEPT ![c].step = "done"]
         \/ /\ call[c].status # "outcome"
            /\ cb' = [cb EXCEPT !.status = "pending", !.attempts = 0]
            /\ call' = [call EXCEPT ![c].step = "handover"]
         \/ cb' = cb /\ call' = [call EXCEPT ![c].step = "unsettled"]
  BY DEF SettleHold, SettleFails

LEMMA FaultTyped == ASSUME TypeOK, NEW what, Fault(what) PROVE faults' \in 0..MaxFaults
  BY CallbackAssumption DEF TypeOK, Fault

LEMMA StepTyped == TypeOK /\ [Next]_vars => TypeOK'
  <1> SUFFICES ASSUME TypeOK, [Next]_vars PROVE TypeOK'
    OBVIOUS
  <1> USE CallbackAssumption
  <1>1. CASE Pause
    <2>1. send' \in [Senders -> Sending \cup {Idle}]
      BY <1>1, EventTypes, FireTyped DEF Pause
    <2> QED BY <1>1, <2>1 DEF Pause, TypeOK, Statuses
  <1>2. CASE Resume
    BY <1>2 DEF Resume, TypeOK, Statuses
  <1>3. CASE End
    <2>1. send' \in [Senders -> Sending \cup {Idle}]
      BY <1>3, EventTypes, FireTyped DEF End, Outcome
    <2> QED BY <1>3, <2>1 DEF End, TypeOK, Statuses
  <1>4. CASE Sweep \/ BootSweep
    <2>1. Redelivery \in Sending
      BY <1>4, RedeliveryTyped DEF Sweep, BootSweep
    <2>2. send' \in [Senders -> Sending \cup {Idle}]
      BY <1>4, <2>1 DEF Sweep, BootSweep, TypeOK, Senders
    <2>3. faults' \in 0..MaxFaults
      BY <1>4, FaultTyped DEF Sweep, BootSweep, TypeOK
    <2>4. lifted' \in BOOLEAN
      BY <1>4 DEF Sweep, BootSweep, TypeOK
    <2> QED BY <1>4, <2>2, <2>3, <2>4 DEF Sweep, BootSweep, TypeOK
  <1>5. ASSUME NEW s \in Senders, Record(s) PROVE TypeOK'
    <2>1. send[s] \in [step : {"record"}, event : Events, attempts : {MaxAttempts}]
      BY <1>5, SenderTypes DEF Record
    <2>2. [send[s] EXCEPT !.step = "enqueue"] \in Sending
      BY <2>1 DEF Sending
    <2>3. send' \in [Senders -> Sending \cup {Idle}]
      BY <1>5, <2>2 DEF Record, TypeOK
    <2>4. cb' \in [status : CallbackStatus, event : Events \cup {None}, attempts : Nat]
      BY <1>5, <2>1 DEF Record, TypeOK, CallbackStatus
    <2> QED BY <1>5, <2>3, <2>4 DEF Record, Fault, TypeOK
  <1>6. ASSUME NEW s \in Senders, Touch(s) PROVE TypeOK'
    <2>1. send[s] \in [step : {"touch"}, event : Events, seen : {"pending", "failed"}, count : Nat]
      BY <1>6, SenderTypes DEF Touch
    <2>2. [step |-> "enqueue", event |-> send[s].event, attempts |-> 1] \in Sending
      BY <2>1 DEF Sending
    <2>3. send' \in [Senders -> Sending \cup {Idle}]
      BY <1>6, <2>2 DEF Touch, TypeOK
    <2>4. cb' \in [status : CallbackStatus, event : Events \cup {None}, attempts : Nat]
      BY <1>6, <2>1 DEF Touch, UpdateIfEvent, TypeOK, CallbackStatus
    <2> QED BY <1>6, <2>3, <2>4 DEF Touch, Fault, TypeOK
  <1>7. ASSUME NEW s \in Senders, Enqueue(s) PROVE TypeOK'
    <2>1. send[s] \in [step : {"enqueue"}, event : Events, attempts : {1, MaxAttempts}]
      BY <1>7, SenderTypes DEF Enqueue
    <2>2. [step |-> "ready", event |-> send[s].event, attempts |-> send[s].attempts] \in Jobs
      BY <2>1 DEF Jobs
    <2>3. jobs' \in [JobIds -> Jobs \cup {Free}]
      BY <1>7, <2>2 DEF Enqueue, TypeOK
    <2> QED BY <1>7, <2>3 DEF Enqueue, Fault, TypeOK
  <1>8. ASSUME NEW s \in Senders, SenderDies(s) PROVE TypeOK'
    BY <1>8 DEF SenderDies, Fault, TypeOK
  <1>9. ASSUME NEW j \in JobIds, Deliver(j) PROVE TypeOK'
    <2>1. jobs[j] \in [step : {"ready"}, event : Events, attempts : Nat]
      BY <1>9, JobTypes DEF Deliver
    <2>2. PICK ok \in BOOLEAN :
            /\ jobs' = [jobs EXCEPT ![j] =
                  [step |-> "sent", event |-> jobs[j].event, attempts |-> jobs[j].attempts, ok |-> ok,
                   count |-> (IF cb.event \in {jobs[j].event, None} THEN cb.attempts ELSE 0) + 1]]
            /\ received' = IF ok THEN received \cup {jobs[j].event} ELSE received
      BY <1>9 DEF Deliver
    <2>3. (IF cb.event \in {jobs[j].event, None} THEN cb.attempts ELSE 0) + 1 \in Nat
      BY DEF TypeOK
    <2>4. jobs' \in [JobIds -> Jobs \cup {Free}]
      BY <2>1, <2>2, <2>3 DEF Jobs, TypeOK
    <2> QED BY <1>9, <2>1, <2>2, <2>4 DEF Deliver, TypeOK
  <1>10. ASSUME NEW j \in JobIds, StoreResult(j) PROVE TypeOK'
    <2>1. jobs[j] \in [step : {"sent"}, event : Events, attempts : Nat, ok : BOOLEAN, count : Nat]
      BY <1>10, JobTypes DEF StoreResult
    <2>2. AfterResult(jobs[j]) \in Jobs \cup {Free}
      BY <2>1 DEF AfterResult, Jobs
    <2>3. jobs' \in [JobIds -> Jobs \cup {Free}]
      BY <1>10, <2>2 DEF StoreResult, TypeOK
    <2>4. cb' \in [status : CallbackStatus, event : Events \cup {None}, attempts : Nat]
      BY <1>10, <2>1 DEF StoreResult, UpdateIfEvent, TypeOK, CallbackStatus
    <2> QED BY <1>10, <2>3, <2>4 DEF StoreResult, Fault, TypeOK
  <1>11. ASSUME NEW j \in JobIds, LoseJob(j) PROVE TypeOK'
    BY <1>11 DEF LoseJob, Fault, TypeOK
  <1>12. ASSUME NEW c \in Callers, Disconnect(c) PROVE TypeOK'
    BY <1>12 DEF Disconnect, TypeOK
  <1>13. ASSUME NEW c \in Callers, WaitEnds(c) PROVE TypeOK'
    BY <1>13 DEF WaitEnds, TypeOK, Statuses, CallSteps
  <1>14. ASSUME NEW c \in Callers, ReadHold(c) PROVE TypeOK'
    BY <1>14 DEF ReadHold, SettleFails, Fault, TypeOK, CallSteps
  <1>15. ASSUME NEW c \in Callers, SettleHold(c) PROVE TypeOK'
    <2>1. cb' \in [status : CallbackStatus, event : Events \cup {None}, attempts : Nat]
      <3>1. cb' = cb \/ \E l \in {"answered", "pending"} : cb' = [cb EXCEPT !.status = l, !.attempts = 0]
        BY <1>15, SettleCases
      <3>2. CASE cb' = cb
        BY <3>2 DEF TypeOK
      <3>3. ASSUME NEW l \in {"answered", "pending"}, cb' = [cb EXCEPT !.status = l, !.attempts = 0]
            PROVE  cb' \in [status : CallbackStatus, event : Events \cup {None}, attempts : Nat]
        <4>1. l \in CallbackStatus /\ 0 \in Nat
          BY DEF CallbackStatus
        <4> QED BY <3>3, <4>1 DEF TypeOK
      <3> QED BY <3>1, <3>2, <3>3
    <2>2. call' \in [Callers -> [step : CallSteps, status : Statuses, gen : 1..MaxGen]]
      BY <1>15, SettleCases DEF TypeOK, CallSteps
    <2>3. faults' \in 0..MaxFaults
      BY <1>15, FaultTyped DEF SettleHold, SettleFails, TypeOK
    <2> QED BY <1>15, <2>1, <2>2, <2>3 DEF SettleHold, TypeOK
  <1>16. ASSUME NEW c \in Callers, Handover(c) PROVE TypeOK'
    <2>1. send' \in [Senders -> Sending \cup {Idle}]
      BY <1>16, RedeliveryTyped DEF Handover, TypeOK, Senders
    <2> QED BY <1>16, <2>1 DEF Handover, Fault, TypeOK, CallSteps
  <1>17. ASSUME NEW c \in Callers, CallDies(c) PROVE TypeOK'
    BY <1>17 DEF CallDies, Fault, TypeOK, CallSteps
  <1>18. CASE UNCHANGED vars
    BY <1>18 DEF vars, TypeOK
  <1> QED BY <1>1, <1>2, <1>3, <1>4, <1>5, <1>6, <1>7, <1>8, <1>9, <1>10, <1>11, <1>12,
             <1>13, <1>14, <1>15, <1>16, <1>17, <1>18 DEF Next

\* The callback's row, its senders, jobs and waiting calls keep their types.
THEOREM CallbackTypeCorrect == Spec => []TypeOK
  BY InitTyped, StepTyped, PTL DEF Spec

-----------------------------------------------------------------------------
(***************************************************************************)
(* A row that says `delivered`                                             *)
(***************************************************************************)

\* A result that waits to be stored is of a post that was accepted.
SentInv == \A j \in JobIds :
    jobs[j].step = "sent" /\ jobs[j].ok => jobs[j].event \in received

DeliveryInv == SentInv /\ DeliveredMeansReceived

\* The jobs that a step does not add carry over.
LEMMA SentStays ==
  ASSUME SentInv, received \subseteq received',
         \A i \in JobIds : jobs'[i] = jobs[i] \/ jobs'[i].step # "sent"
  PROVE  SentInv'
  BY DEF SentInv

LEMMA StepDelivery == TypeOK /\ DeliveryInv /\ [Next]_vars => DeliveryInv'
  <1> SUFFICES ASSUME TypeOK, DeliveryInv, [Next]_vars PROVE DeliveryInv'
    OBVIOUS
  <1> USE DEF DeliveryInv
  <1>1. CASE \/ Pause \/ Resume \/ End \/ Sweep \/ BootSweep \/ UNCHANGED vars
             \/ \E s \in Senders : SenderDies(s)
             \/ \E c \in Callers : \/ Disconnect(c) \/ WaitEnds(c) \/ ReadHold(c)
                                   \/ Handover(c) \/ CallDies(c)
    <2>1. UNCHANGED <<cb, jobs, received>>
      BY <1>1 DEF Pause, Resume, End, Sweep, BootSweep, vars, SenderDies, Disconnect, WaitEnds, ReadHold,
                  Handover, CallDies
    <2> QED BY <2>1 DEF SentInv, DeliveredMeansReceived
  <1>2. ASSUME NEW s \in Senders, Record(s) \/ Touch(s) PROVE DeliveryInv'
    <2>1. UNCHANGED <<jobs, received>>
      BY <1>2 DEF Record, Touch
    <2>2. cb' = cb \/ cb'.status \in {"pending", "failed"}
      BY <1>2, SenderTypes DEF Record, Touch, UpdateIfEvent
    <2> QED BY <2>1, <2>2 DEF SentInv, DeliveredMeansReceived
  <1>3. ASSUME NEW s \in Senders, Enqueue(s) PROVE DeliveryInv'
    <2>1. \A i \in JobIds : jobs'[i] = jobs[i] \/ jobs'[i].step # "sent"
      BY <1>3 DEF Enqueue, TypeOK
    <2> QED BY <1>3, <2>1, SentStays DEF Enqueue, DeliveredMeansReceived
  <1>4. ASSUME NEW j \in JobIds, Deliver(j) PROVE DeliveryInv'
    <2>1. jobs[j] \in [step : {"ready"}, event : Events, attempts : Nat]
      BY <1>4, JobTypes DEF Deliver
    <2>2. PICK ok \in BOOLEAN :
            /\ jobs' = [jobs EXCEPT ![j] =
                  [step |-> "sent", event |-> jobs[j].event, attempts |-> jobs[j].attempts, ok |-> ok,
                   count |-> (IF cb.event \in {jobs[j].event, None} THEN cb.attempts ELSE 0) + 1]]
            /\ received' = IF ok THEN received \cup {jobs[j].event} ELSE received
      BY <1>4 DEF Deliver
    <2>3. SentInv'
      BY <2>2 DEF SentInv, TypeOK
    <2> QED BY <1>4, <2>2, <2>3 DEF Deliver, DeliveredMeansReceived
  <1>5. ASSUME NEW j \in JobIds, StoreResult(j) PROVE DeliveryInv'
    <2>1. jobs[j] \in [step : {"sent"}, event : Events, attempts : Nat, ok : BOOLEAN, count : Nat]
      BY <1>5, JobTypes DEF StoreResult
    <2>2. AfterResult(jobs[j]).step # "sent"
      BY DEF AfterResult, Free
    <2>3. SentInv'
      BY <1>5, <2>2, SentStays DEF StoreResult, TypeOK
    <2>4. CASE cb' = cb
      BY <1>5, <2>3, <2>4 DEF StoreResult, DeliveredMeansReceived
    <2>5. CASE /\ cb.event \in {jobs[j].event, None}
               /\ cb' = [cb EXCEPT !.status = IF jobs[j].ok THEN "delivered" ELSE "failed",
                                   !.attempts = jobs[j].count]
      <3>1. cb'.event = cb.event /\ (cb'.status = "delivered" => jobs[j].ok)
        BY <2>5 DEF TypeOK
      <3> QED BY <1>5, <2>3, <2>5, <3>1 DEF StoreResult, SentInv, DeliveredMeansReceived
    <2> QED BY <1>5, <2>4, <2>5 DEF StoreResult, UpdateIfEvent
  <1>6. ASSUME NEW j \in JobIds, LoseJob(j) PROVE DeliveryInv'
    <2>1. \A i \in JobIds : jobs'[i] = jobs[i] \/ jobs'[i].step # "sent"
      BY <1>6 DEF LoseJob, TypeOK, Free
    <2> QED BY <1>6, <2>1, SentStays DEF LoseJob, DeliveredMeansReceived
  <1>7. ASSUME NEW c \in Callers, SettleHold(c) PROVE DeliveryInv'
    <2>1. cb' = cb \/ cb'.status # "delivered"
      BY <1>7 DEF SettleHold, TypeOK
    <2> QED BY <1>7, <2>1 DEF SettleHold, SentInv, DeliveredMeansReceived
  <1> QED BY <1>1, <1>2, <1>3, <1>4, <1>5, <1>6, <1>7 DEF Next

\* Whatever jobs, redeliveries and late results overlap, a row that says `delivered` for
\* an event had that event accepted by its receiver.
THEOREM DeliveredIsReceived == Spec => []DeliveredMeansReceived
  <1>1. Init => DeliveryInv
    BY DEF Init, DeliveryInv, SentInv, DeliveredMeansReceived, Free
  <1> QED BY <1>1, CallbackTypeCorrect, StepDelivery, PTL DEF Spec, DeliveryInv

-----------------------------------------------------------------------------
(***************************************************************************)
(* The hold of a call that waits                                           *)
(***************************************************************************)

OneCall == \A c, d \in Callers : c = d

Silent ==
    /\ \A s \in Senders : send[s] = Idle
    /\ \A j \in JobIds : jobs[j] = Free
    /\ received = {}

\* While the call has not settled, the row is held and nothing is on its way; an answered
\* run stays silent.
HeldInv == \A c \in Callers :
    call[c].step \in {"waiting", "read", "write"} => cb.status = "waiting" /\ Silent
AnsweredInv ==
    cb.status = "answered" => /\ Silent /\ status = "outcome"
                              /\ \A c \in Callers : call[c].step = "done"
AnswerInv == \A c \in Callers :
    call[c].status = "outcome" =>
        /\ status = "outcome" /\ call[c].step \in {"read", "write", "done", "unsettled", "dead"}
        /\ call[c].step = "done" => cb.status = "answered"
HoldInv == ~lifted => HeldInv /\ AnsweredInv /\ AnswerInv

LEMMA StepHold ==
  ASSUME OneCall
  PROVE  TypeOK /\ HoldInv /\ [Next]_vars => HoldInv'
  <1> SUFFICES ASSUME TypeOK, HoldInv, [Next]_vars, ~lifted' PROVE HoldInv'
    BY DEF HoldInv
  <1>0. ~lifted
    BY DEF Next, Pause, Resume, End, Sweep, BootSweep, Record, Touch, Enqueue, SenderDies, Deliver,
           StoreResult, LoseJob, Disconnect, WaitEnds, ReadHold, SettleHold, Handover, CallDies, vars
  <1> USE <1>0 DEF HoldInv
  <1>1. CASE Pause \/ Resume \/ End
    <2>1. cb.status = "waiting" => UNCHANGED send
      BY <1>1 DEF Pause, Resume, End, Fire
    <2>2. UNCHANGED <<cb, call, jobs, received>> /\ status # "outcome"
      BY <1>1 DEF Pause, Resume, End
    <2> QED BY <2>1, <2>2 DEF HeldInv, AnsweredInv, AnswerInv, Silent
  <1>2. CASE Sweep \/ BootSweep
    <2>1. UNCHANGED <<status, cb, call, jobs, received>> /\ cb.status # "answered"
      BY <1>2 DEF Sweep, BootSweep
    <2>2. \A c \in Callers : call[c].step \notin {"waiting", "read", "write"}
      BY <1>2 DEF Sweep, BootSweep, HeldInv, Alive
    <2> QED BY <2>1, <2>2 DEF HeldInv, AnsweredInv, AnswerInv
  <1>3. ASSUME NEW s \in Senders, Record(s) \/ Touch(s) \/ Enqueue(s) \/ SenderDies(s)
        PROVE HoldInv'
    <2>1. ~Silent
      BY <1>3 DEF Record, Touch, Enqueue, SenderDies, Silent, Idle
    <2>2. /\ UNCHANGED <<status, call>>
          /\ cb' = cb \/ cb'.status \in {"pending", "failed"}
      BY <1>3, SenderTypes DEF Record, Touch, Enqueue, SenderDies, UpdateIfEvent
    <2> QED BY <2>1, <2>2 DEF HeldInv, AnsweredInv, AnswerInv
  <1>4. ASSUME NEW j \in JobIds, Deliver(j) \/ StoreResult(j) \/ LoseJob(j)
        PROVE HoldInv'
    <2>1. ~Silent
      <3>1. jobs[j].step = "ready" \/ jobs[j].step = "sent" \/ jobs[j] # Free
        BY <1>4 DEF Deliver, StoreResult, LoseJob
      <3>2. jobs[j] # Free
        BY <3>1 DEF Free
      <3> QED BY <3>2 DEF Silent
    <2>2. /\ UNCHANGED <<status, call>>
          /\ cb' = cb \/ cb'.status \in {"delivered", "failed"}
      BY <1>4 DEF Deliver, StoreResult, LoseJob, UpdateIfEvent, TypeOK
    <2> QED BY <2>1, <2>2 DEF HeldInv, AnsweredInv, AnswerInv
  <1>5. ASSUME NEW c \in Callers, Disconnect(c) PROVE HoldInv'
    BY <1>5 DEF Disconnect, HeldInv, AnsweredInv, AnswerInv, Silent
  <1>6. ASSUME NEW c \in Callers, WaitEnds(c) PROVE HoldInv'
    <2>1. \A d \in Callers : d = c
      BY DEF OneCall
    <2>2. cb.status = "waiting" /\ Silent
      BY <1>6 DEF WaitEnds, HeldInv
    <2>3. PICK seen \in {status, "active"} :
            call' = [call EXCEPT ![c] = [step |-> "read", status |-> seen, gen |-> gen]]
      BY <1>6 DEF WaitEnds
    <2>4. UNCHANGED <<status, cb, send, jobs, received>>
      BY <1>6 DEF WaitEnds
    <2> QED BY <2>1, <2>2, <2>3, <2>4 DEF HeldInv, AnsweredInv, AnswerInv, Silent, TypeOK
  <1>7. ASSUME NEW c \in Callers, ReadHold(c) PROVE HoldInv'
    <2>1. cb.status = "waiting" /\ Silent
      BY <1>7 DEF ReadHold, HeldInv
    <2>2. call' \in {[call EXCEPT ![c].step = "write"], [call EXCEPT ![c].step = "unsettled"]}
      BY <1>7, <2>1 DEF ReadHold, SettleFails
    <2>3. UNCHANGED <<status, cb, send, jobs, received>>
      BY <1>7 DEF ReadHold
    <2> QED BY <1>7, <2>1, <2>2, <2>3 DEF ReadHold, HeldInv, AnsweredInv, AnswerInv, Silent, TypeOK
  <1>8. ASSUME NEW c \in Callers, SettleHold(c) PROVE HoldInv'
    <2>1. \A d \in Callers : d = c
      BY DEF OneCall
    <2>2. Silent /\ call[c].step = "write" /\ cb.status = "waiting"
      BY <1>8 DEF SettleHold, HeldInv
    <2>3. UNCHANGED <<status, send, jobs, received>>
      BY <1>8 DEF SettleHold
    <2>4. CASE /\ call[c].status = "outcome"
               /\ cb' = [cb EXCEPT !.status = "answered", !.attempts = 0]
               /\ call' = [call EXCEPT ![c].step = "done"]
      <3>1. cb'.status = "answered" /\ call'[c].step = "done" /\ call'[c].status = "outcome"
        BY <2>4 DEF TypeOK
      <3> QED BY <2>1, <2>2, <2>3, <2>4, <3>1 DEF HeldInv, AnsweredInv, AnswerInv, Silent
    <2>5. CASE /\ call[c].status # "outcome"
               /\ cb' = [cb EXCEPT !.status = "pending", !.attempts = 0]
               /\ call' = [call EXCEPT ![c].step = "handover"]
      <3>1. /\ cb'.status = "pending"
            /\ call'[c].step = "handover" /\ call'[c].status = call[c].status
        BY <2>5 DEF TypeOK
      <3> QED BY <2>1, <2>5, <3>1 DEF HeldInv, AnsweredInv, AnswerInv
    <2>6. CASE cb' = cb /\ call' = [call EXCEPT ![c].step = "unsettled"]
      <3>1. call'[c].step = "unsettled" /\ call'[c].status = call[c].status
        BY <2>6 DEF TypeOK
      <3> QED BY <2>1, <2>2, <2>3, <2>6, <3>1 DEF HeldInv, AnsweredInv, AnswerInv, Silent
    <2> QED BY <1>8, <2>4, <2>5, <2>6, SettleCases
  <1>9. ASSUME NEW c \in Callers, Handover(c) PROVE HoldInv'
    <2>1. \A d \in Callers : d = c
      BY DEF OneCall
    <2>2. call[c].status # "outcome" /\ cb.status # "answered"
      BY <1>9 DEF Handover, AnswerInv, AnsweredInv
    <2>3. /\ UNCHANGED <<status, cb>>
          /\ call'[c].step = "done" /\ call'[c].status = call[c].status
      BY <1>9 DEF Handover, TypeOK
    <2> QED BY <2>1, <2>2, <2>3 DEF HeldInv, AnsweredInv, AnswerInv
  <1>10. ASSUME NEW c \in Callers, CallDies(c) PROVE HoldInv'
    <2>1. \A d \in Callers : d = c
      BY DEF OneCall
    <2>2. cb.status # "answered"
      BY <1>10 DEF CallDies, Alive, AnsweredInv
    <2>3. /\ UNCHANGED <<status, cb>>
          /\ call'[c].step = "dead" /\ call'[c].status = call[c].status
      BY <1>10 DEF CallDies, TypeOK
    <2> QED BY <2>1, <2>2, <2>3 DEF HeldInv, AnsweredInv, AnswerInv
  <1>11. CASE UNCHANGED vars
    BY <1>11 DEF vars, HeldInv, AnsweredInv, AnswerInv, Silent
  <1> QED BY <1>1, <1>2, <1>3, <1>4, <1>5, <1>6, <1>7, <1>8, <1>9, <1>10, <1>11 DEF Next

\* With one call waiting, its hold keeps its promise in every interleaving and after every
\* crash: the outcome it was answered with is called back only if the settling of its hold
\* failed, or the boot sweep of a node lifted the hold.
THEOREM AnswerIsEnough ==
  ASSUME OneCall
  PROVE  Spec => []AnsweredOutcomeNotCalledBack
  <1>1. Init => HoldInv
    BY DEF Init, HoldInv, HeldInv, AnsweredInv, AnswerInv, Silent
  <1>2. HoldInv => AnsweredOutcomeNotCalledBack
    BY DEF HoldInv, AnsweredInv, AnswerInv, Silent, AnsweredOutcomeNotCalledBack, Answered, Outcome
  <1>3. TypeOK /\ HoldInv /\ [Next]_vars => HoldInv'
    BY StepHold
  <1> QED BY <1>1, <1>2, <1>3, CallbackTypeCorrect, PTL DEF Spec

=============================================================================
