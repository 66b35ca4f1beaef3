-------------------------- MODULE StreamRelayProofs --------------------------
(***************************************************************************)
(* Proofs about the stream relay, for every number of executions of the    *)
(* job and of chunks.                                                      *)
(***************************************************************************)
EXTENDS StreamRelay, TLAPS

\* The frames of one execution: `end` is the last one and never the first, and what
\* failed to be published is not on its way any more.
FrameAt(r) ==
    /\ heard[r] <= sent[r]
    /\ gaps[r] \subseteq 1..heard[r]
    /\ r > started => step[r] = "none"
    /\ step[r] \in {"none", "open", "mute"} => sent[r] = 0
    /\ step[r] = "running" => sent[r] \in 1..(Chunks + 1)
    /\ fin[r] => sent[r] >= 2 /\ step[r] \in {"flush", "over"}
FrameInv == \A r \in Runs : FrameAt(r)

LEMMA InitFrames == Init => TypeOK /\ FrameInv
  <1> SUFFICES ASSUME Init PROVE TypeOK /\ FrameInv
    OBVIOUS
  <1>1. TypeOK
    <2>1. 0 \in 0..(Chunks + 2) /\ 0 \in 0..MaxRuns /\ 0 \in 0..MaxFaults
      BY RelayAssumption
    <2> QED BY <2>1 DEF Init, TypeOK
  <1>2. FrameInv
    BY RelayAssumption DEF Init, FrameInv, FrameAt
  <1> QED BY <1>1, <1>2

LEMMA StepFrames == TypeOK /\ FrameInv /\ [Next]_vars => TypeOK' /\ FrameInv'
  <1> SUFFICES ASSUME TypeOK, FrameInv, [Next]_vars PROVE TypeOK' /\ FrameInv'
    OBVIOUS
  <1> USE RelayAssumption DEF TypeOK, FrameInv, FrameAt, Frames, faultVars
  <1>1. CASE Abort
    BY <1>1 DEF Abort, jobVars, runVars
  <1>2. CASE PublishCancel
    <2>1. cancels' = FALSE /\ inbox' = [q \in Runs |-> inbox[q] \/ step[q] = "running"]
      BY <1>2 DEF PublishCancel
    <2>5. \A q \in Runs : (inbox[q] \/ step[q] = "running") \in BOOLEAN
      BY Zenon
    <2>6. inbox' \in [Runs -> BOOLEAN]
      BY <2>1, <2>5, Zenon
    <2>2. /\ UNCHANGED <<caller, result, returned, aborted, followed, ready, ended, replayed>>
          /\ UNCHANGED <<started, holder, job, step, signal, sent, fin, heard, gaps, cancelLost, faults>>
      BY <1>2 DEF PublishCancel, callerVars, jobVars, runVars
    <2>3. TypeOK'
      <3>1. cancels' \in BOOLEAN
        BY <2>1
      <3> QED BY <2>2, <2>6, <3>1
    <2>4. FrameInv'
      BY <2>2 DEF jobVars, runVars
    <2> QED BY <2>3, <2>4
  <1>3. CASE Finish \/ Timeout
    BY <1>3 DEF Finish, Timeout, jobVars, runVars
  <1>4. ASSUME NEW r \in Runs, Start(r) PROVE TypeOK' /\ FrameInv'
    BY <1>4 DEF Start, callerVars, Runs
  <1>5. ASSUME NEW r \in Runs, OpenRelay(r) PROVE TypeOK' /\ FrameInv'
    <2>0. step[r] = "open" /\ step' = [step EXCEPT ![r] = "running"] /\ sent' = [sent EXCEPT ![r] = 1]
      BY <1>5 DEF OpenRelay
    <2>1. TypeOK'
      <3>1. sent' \in [Runs -> 0..(Chunks + 2)]
        BY <2>0
      <3> QED BY <1>5, <2>0, <3>1 DEF OpenRelay, callerVars, jobVars
    <2>2. FrameInv'
      <3> SUFFICES ASSUME NEW q \in Runs PROVE FrameAt(q)'
        OBVIOUS
      <3>1. CASE q # r
        BY <1>5, <2>0, <3>1 DEF OpenRelay, callerVars, jobVars
      <3>2. CASE q = r
        BY <1>5, <2>0, <3>2 DEF OpenRelay, callerVars, jobVars, Runs
      <3> QED BY <3>1, <3>2
    <2> QED BY <2>1, <2>2
  <1>6. ASSUME NEW r \in Runs, OpenFails(r) PROVE TypeOK' /\ FrameInv'
    <2>1. TypeOK'
      BY <1>6 DEF OpenFails, callerVars, jobVars
    <2>2. FrameInv'
      BY <1>6 DEF OpenFails, callerVars, jobVars, Runs
    <2> QED BY <2>1, <2>2
  <1>7. ASSUME NEW r \in Runs, Emit(r) PROVE TypeOK' /\ FrameInv'
    <2>0. step[r] = "running" /\ sent[r] <= Chunks /\ sent' = [sent EXCEPT ![r] = sent[r] + 1]
      BY <1>7 DEF Emit
    <2>1. TypeOK'
      <3>1. sent' \in [Runs -> 0..(Chunks + 2)]
        BY <2>0
      <3> QED BY <1>7, <2>0, <3>1 DEF Emit, callerVars, jobVars
    <2>2. FrameInv'
      <3> SUFFICES ASSUME NEW q \in Runs PROVE FrameAt(q)'
        OBVIOUS
      <3>1. CASE q # r
        BY <1>7, <2>0, <3>1 DEF Emit, callerVars, jobVars
      <3>2. CASE q = r
        <4>1. /\ sent'[r] = sent[r] + 1 /\ sent[r] \in 1..(Chunks + 1)
              /\ heard[r] \in Nat /\ heard[r] <= sent[r]
          BY <2>0
        <4>2. ~fin[r] /\ UNCHANGED <<step, fin, heard, gaps, started>>
          BY <1>7, <2>0 DEF Emit, jobVars
        <4>3. sent'[r] \in 1..(Chunks + 1) /\ heard[r] <= sent'[r]
          BY <2>0, <4>1
        <4> QED BY <2>0, <3>2, <4>2, <4>3
      <3> QED BY <3>1, <3>2
    <2> QED BY <2>1, <2>2
  <1>8. ASSUME NEW r \in Runs, HearCancel(r) PROVE TypeOK' /\ FrameInv'
    BY <1>8 DEF HearCancel, callerVars, jobVars
  <1>9. ASSUME NEW r \in Runs, Settle(r) PROVE TypeOK' /\ FrameInv'
    <2>1. CASE step[r] = "mute"
      BY <1>9, <2>1 DEF Settle, callerVars, jobVars, Runs
    <2>2. CASE step[r] = "running"
      <3>0. /\ step' = [step EXCEPT ![r] = "flush"] /\ fin' = [fin EXCEPT ![r] = TRUE]
            /\ sent' = [sent EXCEPT ![r] = sent[r] + 1]
            /\ UNCHANGED <<callerVars, jobVars, signal, cancels, inbox, heard, faultVars>>
        BY <1>9, <2>2 DEF Settle
      <3>1. sent[r] \in 1..(Chunks + 1) /\ heard[r] <= sent[r]
        BY <2>2
      <3>2. sent' \in [Runs -> 0..(Chunks + 2)]
        BY <3>0, <3>1
      <3>3. TypeOK'
        BY <3>0, <3>2 DEF callerVars, jobVars
      <3>4. ASSUME NEW q \in Runs PROVE FrameAt(q)'
        <4>1. CASE q # r
          BY <3>0, <4>1 DEF callerVars, jobVars
        <4>2. CASE q = r
          BY <2>2, <3>0, <3>1, <4>2 DEF callerVars, jobVars, Runs
        <4> QED BY <4>1, <4>2
      <3> QED BY <3>3, <3>4
    <2> QED BY <1>9, <2>1, <2>2 DEF Settle
  <1>10. ASSUME NEW r \in Runs, Complete(r) PROVE TypeOK' /\ FrameInv'
    <2>1. TypeOK'
      BY <1>10 DEF Complete
    <2>2. FrameInv'
      BY <1>10 DEF Complete, Runs
    <2> QED BY <2>1, <2>2
  <1>11. ASSUME NEW r \in Runs, LoseLock(r) PROVE TypeOK' /\ FrameInv'
    BY <1>11 DEF LoseLock, Requeue, runVars
  <1>12. ASSUME NEW r \in Runs, Die(r) PROVE TypeOK' /\ FrameInv'
    <2>1. PICK n \in heard[r]..sent[r] :
            sent' = [sent EXCEPT ![r] = n] /\ fin' = [fin EXCEPT ![r] = @ /\ n = sent[r]]
      BY <1>12 DEF Die
    <2>2. n \in 0..(Chunks + 2) /\ n <= sent[r] /\ heard[r] <= n
      BY <2>1
    <2>3. /\ step' = [step EXCEPT ![r] = "over"]
          /\ caller' \in {"wait", "finish", "closed"} /\ job' \in {"waiting", "active", "over"}
          /\ holder' \in Runs \cup {None}
      BY <1>12 DEF Die, Requeue
    <2>4. TypeOK'
      BY <1>12, <2>1, <2>2, <2>3 DEF Die
    <2>5. FrameInv'
      BY <1>12, <2>1, <2>2, <2>3 DEF Die, Runs
    <2> QED BY <2>4, <2>5
  <1>13. ASSUME NEW r \in Runs, Receive(r) PROVE TypeOK' /\ FrameInv'
    <2>1. cancels' \in BOOLEAN /\ ready' \in BOOLEAN /\ ended' \in BOOLEAN
      BY <1>13, Zenon DEF Receive, OnFrame
    <2>3. heard' = [heard EXCEPT ![r] = heard[r] + 1] /\ heard[r] < sent[r]
      BY <1>13 DEF Receive
    <2>4. heard' \in [Runs -> 0..(Chunks + 2)] /\ heard[r] + 1 \in Frames
      BY <2>3
    <2>2. followed' \in Runs \cup {None} /\ replayed' \in [Runs -> SUBSET Frames]
      BY <1>13, <2>4 DEF Receive, OnFrame
    <2>5. UNCHANGED <<caller, result, returned, aborted, jobVars, runVars, inbox, faultVars>>
      BY <1>13 DEF Receive
    <2>6. TypeOK'
      BY <2>1, <2>2, <2>4, <2>5 DEF jobVars, runVars
    <2>7. FrameInv'
      BY <2>3, <2>5 DEF jobVars, runVars
    <2> QED BY <2>6, <2>7
  <1>14. ASSUME NEW r \in Runs, PublishFails(r) PROVE TypeOK' /\ FrameInv'
    <2>1. /\ heard' = [heard EXCEPT ![r] = heard[r] + 1] /\ heard[r] < sent[r]
          /\ gaps' = [gaps EXCEPT ![r] = gaps[r] \cup {heard[r] + 1}]
          /\ faults < MaxFaults /\ faults' = faults + 1
          /\ UNCHANGED <<callerVars, jobVars, runVars, cancels, inbox, cancelLost>>
      BY <1>14 DEF PublishFails
    <2>2. heard[r] + 1 \in Frames /\ heard' \in [Runs -> 0..(Chunks + 2)]
      BY <2>1
    <2>3. gaps' \in [Runs -> SUBSET Frames] /\ faults' \in 0..MaxFaults
      BY <2>1, <2>2
    <2>4. TypeOK'
      BY <2>1, <2>2, <2>3 DEF callerVars, jobVars, runVars
    <2>5. ASSUME NEW q \in Runs PROVE FrameAt(q)'
      <3>1. heard[r] \in Nat /\ gaps[r] \subseteq 1..heard[r] /\ 1..heard[r] \subseteq 1..(heard[r] + 1)
        OBVIOUS
      <3>2. CASE q # r
        BY <2>1, <3>2 DEF jobVars, runVars
      <3>3. CASE q = r
        BY <2>1, <3>1, <3>3 DEF jobVars, runVars
      <3> QED BY <3>2, <3>3
    <2> QED BY <2>4, <2>5
  <1>15. CASE CancelFails
    <2>1. faults' \in 0..MaxFaults /\ cancelLost' = TRUE /\ cancels' = FALSE
      BY <1>15 DEF CancelFails
    <2>2. UNCHANGED <<callerVars, jobVars, runVars, inbox, heard, gaps>>
      BY <1>15 DEF CancelFails
    <2>3. TypeOK'
      BY <2>1, <2>2 DEF callerVars, jobVars, runVars
    <2>4. FrameInv'
      BY <2>2 DEF jobVars, runVars
    <2> QED BY <2>3, <2>4
  <1>16. CASE UNCHANGED vars
    BY <1>16 DEF vars, callerVars, jobVars, runVars
  <1> QED BY <1>1, <1>2, <1>3, <1>4, <1>5, <1>6, <1>7, <1>8, <1>9, <1>10, <1>11, <1>12,
             <1>13, <1>14, <1>15, <1>16 DEF Next

\* No execution publishes more than `ready`, its chunks and one `end`, and the relay's
\* state keeps its type.
THEOREM RelayTypeCorrect == Spec => []TypeOK
  BY InitFrames, StepFrames, PTL DEF Spec

-----------------------------------------------------------------------------
(***************************************************************************)
(* The callbacks hear one execution                                        *)
(***************************************************************************)

\* The chunks among the frames of r that reached the caller.
HeardChunks(r) == ChunksUpTo(r, heard[r])

\* While the caller listens it follows an execution once a frame reached it, and has
\* replayed everything that reached it of that one.
ListenInv ==
    caller # "closed" => \A r \in Runs :
        /\ followed = None => 1..heard[r] \subseteq gaps[r]
        /\ followed = r => replayed[r] = HeardChunks(r)
OthersInv == \A r \in Runs : followed # r => replayed[r] = {}
ReplayInv == ListenInv /\ OthersInv

\* A step that changes nothing the caller heard keeps what it replayed.
LEMMA ReplayKept ==
  ASSUME ReplayInv,
         UNCHANGED <<followed, replayed, heard, gaps>>,
         caller' # "closed" => caller # "closed",
         \A r \in Runs : HeardChunks(r)' = HeardChunks(r)
  PROVE  ReplayInv'
  BY DEF ReplayInv, ListenInv, OthersInv

\* The frame after those that the caller heard: `end` is known by its place.
LEMMA NextFrame ==
  ASSUME TypeOK, FrameInv, NEW r \in Runs, heard[r] < sent[r],
         heard' = [heard EXCEPT ![r] = heard[r] + 1], UNCHANGED <<sent, fin>>
  PROVE  ChunksUpTo(r, heard[r])' = ({k \in 2..heard[r] : ~IsEnd(r, k)}
             \cup (IF heard[r] + 1 = 1 \/ IsEnd(r, heard[r] + 1) THEN {} ELSE {heard[r] + 1}))
             \ gaps'[r]
  <1>1. heard[r] \in Nat /\ heard'[r] = heard[r] + 1
    BY DEF TypeOK
  <1>2. \A k : IsEnd(r, k)' = IsEnd(r, k)
    BY DEF IsEnd
  <1>3. 2..(heard[r] + 1) = 2..heard[r] \cup (IF heard[r] + 1 = 1 THEN {} ELSE {heard[r] + 1})
    BY <1>1
  <1>4. ChunksUpTo(r, heard[r])' = {k \in 2..(heard[r] + 1) : ~IsEnd(r, k)} \ gaps'[r]
    BY <1>1, <1>2, Zenon DEF ChunksUpTo
  <1> QED BY <1>3, <1>4

LEMMA StepReplay == TypeOK /\ FrameInv /\ ReplayInv /\ [Next]_vars => ReplayInv'
  <1> SUFFICES ASSUME TypeOK, FrameInv, ReplayInv, [Next]_vars PROVE ReplayInv'
    OBVIOUS
  <1>1. CASE \/ Abort \/ PublishCancel \/ CancelFails \/ Finish \/ Timeout \/ UNCHANGED vars
             \/ \E r \in Runs : \/ Start(r) \/ OpenFails(r) \/ HearCancel(r)
                                \/ Complete(r) \/ LoseLock(r)
    <2>1. UNCHANGED <<followed, replayed, heard, gaps, sent, fin>>
      BY <1>1 DEF Abort, PublishCancel, CancelFails, Finish, Timeout, vars, Start, OpenFails,
                  HearCancel, Complete, LoseLock, callerVars, jobVars, runVars, faultVars
    <2>2. caller' # "closed" => caller # "closed"
      BY <1>1 DEF Abort, PublishCancel, CancelFails, Finish, Timeout, vars, Start, OpenFails,
                  HearCancel, Complete, LoseLock, Requeue, callerVars, jobVars, runVars
    <2>3. \A r \in Runs : HeardChunks(r)' = HeardChunks(r)
      BY <2>1 DEF HeardChunks, ChunksUpTo, IsEnd
    <2> QED BY <2>1, <2>2, <2>3, ReplayKept
  <1>2. ASSUME NEW r \in Runs, OpenRelay(r) \/ Emit(r) \/ Settle(r) PROVE ReplayInv'
    <2>1. UNCHANGED <<followed, replayed, heard, gaps, caller>>
      BY <1>2 DEF OpenRelay, Emit, Settle, callerVars, faultVars
    <2>2. \A q \in Runs : \/ sent'[q] = sent[q] /\ fin'[q] = fin[q]
                          \/ sent'[q] > sent[q] /\ ~fin[q] /\ sent'[q] \in Nat
      <3> SUFFICES ASSUME NEW q \in Runs
                   PROVE  \/ sent'[q] = sent[q] /\ fin'[q] = fin[q]
                          \/ sent'[q] > sent[q] /\ ~fin[q] /\ sent'[q] \in Nat
        OBVIOUS
      <3>1. CASE q # r
        BY <1>2, <3>1 DEF OpenRelay, Emit, Settle, TypeOK
      <3>2. CASE q = r /\ (sent' = sent /\ fin' = fin)
        BY <3>2
      <3>3. CASE q = r /\ ~(sent' = sent /\ fin' = fin)
        <4>1. \/ step[r] = "open" /\ sent' = [sent EXCEPT ![r] = 1]
              \/ step[r] = "running" /\ sent' = [sent EXCEPT ![r] = sent[r] + 1]
          BY <1>2, <3>3 DEF OpenRelay, Emit, Settle
        <4>2. step[r] \in {"open", "running"} => ~fin[r]
          BY DEF FrameInv, FrameAt
        <4>3. step[r] = "open" => sent[r] = 0
          BY DEF FrameInv, FrameAt
        <4>4. sent'[r] > sent[r] /\ sent'[r] \in Nat
          BY <4>1, <4>3 DEF TypeOK
        <4> QED BY <3>3, <4>1, <4>2, <4>4
      <3> QED BY <3>1, <3>2, <3>3
    <2>3. ASSUME NEW q \in Runs PROVE HeardChunks(q)' = HeardChunks(q)
      <3>1. heard[q] \in Nat /\ sent[q] \in Nat /\ heard[q] <= sent[q]
        BY DEF TypeOK, FrameInv, FrameAt
      <3>2. \A k \in 2..heard[q] : IsEnd(q, k)' <=> IsEnd(q, k)
        BY <2>2, <3>1 DEF IsEnd
      <3> QED BY <2>1, <3>2 DEF HeardChunks, ChunksUpTo
    <2> QED BY <2>1, <2>3, ReplayKept
  <1>3. ASSUME NEW r \in Runs, Die(r) PROVE ReplayInv'
    <2>1. UNCHANGED <<followed, replayed, heard, gaps>> /\ (caller' # "closed" => caller # "closed")
      BY <1>3 DEF Die, Requeue, faultVars
    <2>2. PICK n \in heard[r]..sent[r] :
            sent' = [sent EXCEPT ![r] = n] /\ fin' = [fin EXCEPT ![r] = @ /\ n = sent[r]]
      BY <1>3 DEF Die
    <2>3. ASSUME NEW q \in Runs PROVE HeardChunks(q)' = HeardChunks(q)
      <3>1. CASE q # r
        BY <2>1, <2>2, <3>1 DEF HeardChunks, ChunksUpTo, IsEnd, TypeOK
      <3>2. CASE q = r
        <4>1. sent'[r] = n /\ (fin'[r] <=> fin[r] /\ n = sent[r])
          BY <2>2 DEF TypeOK
        <4>2. heard[r] \in Nat /\ sent[r] \in Nat /\ n \in Nat /\ heard[r] <= n /\ n <= sent[r]
          BY <2>2 DEF TypeOK
        <4>3. \A k \in 2..heard[r] : IsEnd(r, k)' <=> IsEnd(r, k)
          BY <4>1, <4>2 DEF IsEnd
        <4> QED BY <2>1, <3>2, <4>3 DEF HeardChunks, ChunksUpTo
      <3> QED BY <3>1, <3>2
    <2> QED BY <2>1, <2>3, ReplayKept
  <1>4. ASSUME NEW r \in Runs, Receive(r) PROVE ReplayInv'
    <2>1. /\ heard[r] < sent[r] /\ heard' = [heard EXCEPT ![r] = heard[r] + 1]
          /\ UNCHANGED <<caller, sent, fin, gaps>>
      BY <1>4 DEF Receive, runVars, faultVars
    <2>2. CASE caller = "closed"
      BY <1>4, <2>1, <2>2 DEF Receive, ReplayInv, ListenInv, OthersInv
    <2>3. CASE caller # "closed"
      <3>1. OnFrame(r, heard[r] + 1)
        BY <1>4, <2>3 DEF Receive
      <3>2. followed' \in Runs /\ (followed \in Runs => followed' = followed) /\ (followed = None => followed' = r)
        BY <3>1, RelayAssumption DEF OnFrame, TypeOK
      <3>3. OthersInv'
        BY <3>1, <3>2, RelayAssumption DEF OnFrame, ReplayInv, OthersInv, TypeOK
      <3>4. ASSUME NEW q \in Runs, followed' = q PROVE replayed'[q] = HeardChunks(q)'
        <4>1. CASE q # r
          <5>1. followed = q
            BY <3>2, <3>4, <4>1, RelayAssumption DEF TypeOK
          <5>2. replayed'[q] = replayed[q] /\ heard'[q] = heard[q]
            BY <2>1, <3>1, <4>1 DEF OnFrame, TypeOK
          <5> QED BY <2>1, <2>3, <5>1, <5>2 DEF HeardChunks, ChunksUpTo, IsEnd, ReplayInv, ListenInv
        <4>2. CASE q = r
          <5>1. replayed[r] = HeardChunks(r)
            <6>1. CASE followed = r
              BY <2>3, <6>1 DEF ReplayInv, ListenInv
            <6>2. CASE followed # r
              <7>1. followed = None /\ replayed[r] = {} /\ 1..heard[r] \subseteq gaps[r]
                BY <2>3, <3>2, <3>4, <4>2, <6>2 DEF ReplayInv, ListenInv, OthersInv, TypeOK
              <7>2. 2..heard[r] \subseteq 1..heard[r]
                BY DEF TypeOK
              <7> QED BY <7>1, <7>2 DEF HeardChunks, ChunksUpTo
            <6> QED BY <6>1, <6>2
          <5>2. heard[r] + 1 \notin gaps[r]
            BY DEF TypeOK, FrameInv, FrameAt
          <5>3. replayed'[r] = IF heard[r] + 1 = 1 \/ IsEnd(r, heard[r] + 1)
                               THEN replayed[r] ELSE replayed[r] \cup {heard[r] + 1}
            BY <3>1, <3>4, <4>2 DEF OnFrame, IsReady, TypeOK
          <5>4. HeardChunks(r)' = ({k \in 2..heard[r] : ~IsEnd(r, k)}
                    \cup (IF heard[r] + 1 = 1 \/ IsEnd(r, heard[r] + 1) THEN {} ELSE {heard[r] + 1}))
                    \ gaps[r]
            BY <2>1, NextFrame DEF HeardChunks
          <5> QED BY <4>2, <5>1, <5>2, <5>3, <5>4 DEF HeardChunks, ChunksUpTo
        <4> QED BY <4>1, <4>2
      <3>5. ListenInv'
        BY <3>2, <3>4, RelayAssumption DEF ListenInv
      <3> QED BY <3>3, <3>5 DEF ReplayInv
    <2> QED BY <2>2, <2>3
  <1>5. ASSUME NEW r \in Runs, PublishFails(r) PROVE ReplayInv'
    <2>1. /\ heard[r] < sent[r] /\ heard' = [heard EXCEPT ![r] = heard[r] + 1]
          /\ gaps' = [gaps EXCEPT ![r] = gaps[r] \cup {heard[r] + 1}]
          /\ UNCHANGED <<caller, followed, replayed, sent, fin>>
      BY <1>5 DEF PublishFails, callerVars, runVars
    <2>2. ASSUME NEW q \in Runs
          PROVE  /\ HeardChunks(q)' = HeardChunks(q)
                 /\ 1..heard[q] \subseteq gaps[q] => 1..heard'[q] \subseteq gaps'[q]
      <3>1. CASE q # r
        BY <2>1, <3>1 DEF HeardChunks, ChunksUpTo, IsEnd, TypeOK
      <3>2. CASE q = r
        <4>1. heard[r] \in Nat /\ heard'[r] = heard[r] + 1 /\ gaps'[r] = gaps[r] \cup {heard[r] + 1}
          BY <2>1 DEF TypeOK
        <4>2. HeardChunks(r)' = ({k \in 2..heard[r] : ~IsEnd(r, k)}
                  \cup (IF heard[r] + 1 = 1 \/ IsEnd(r, heard[r] + 1) THEN {} ELSE {heard[r] + 1}))
                  \ gaps'[r]
          BY <2>1, NextFrame DEF HeardChunks
        <4>3. heard[r] + 1 \notin 2..heard[r]
          BY <4>1
        <4>4. HeardChunks(r)' = HeardChunks(r)
          BY <4>1, <4>2, <4>3 DEF HeardChunks, ChunksUpTo
        <4>5. 1..(heard[r] + 1) = 1..heard[r] \cup {heard[r] + 1}
          BY <4>1
        <4> QED BY <3>2, <4>1, <4>4, <4>5
      <3> QED BY <3>1, <3>2
    <2> QED BY <2>1, <2>2 DEF ReplayInv, ListenInv, OthersInv
  <1> QED BY <1>1, <1>2, <1>3, <1>4, <1>5 DEF Next

\* However often the job runs and its frames overtake each other, the callbacks get the
\* chunks of one execution, in order and without a gap.
THEOREM OneRunHeard == Spec => []OneRunReplayed
  <1>1. Init => ReplayInv
    BY RelayAssumption DEF Init, ReplayInv, ListenInv, OthersInv, HeardChunks, ChunksUpTo, Runs
  <1>2. TypeOK /\ ReplayInv => OneRunReplayed
    BY DEF ReplayInv, ListenInv, OthersInv, HeardChunks, OneRunReplayed
  <1> QED BY <1>1, <1>2, InitFrames, StepFrames, StepReplay, PTL DEF Spec

-----------------------------------------------------------------------------
(***************************************************************************)
(* Every chunk before the result                                           *)
(***************************************************************************)

\* The caller returns the result of an execution that is over.
ResultInv ==
    /\ result \in Runs => step[result] = "over"
    /\ caller = "finish" => result \in Runs
    /\ returned => caller = "closed" /\ result \in Runs

\* `ended` comes from an execution whose `end`, its last frame, reached the caller.
EndedInv == ended => \E q \in Runs : EndHeard(q)

OrderInv == ResultInv /\ EndedInv

\* What an execution that is over, or whose `end` was heard, may still change: nothing.
LEMMA StepRuns ==
  ASSUME TypeOK, FrameInv, [Next]_vars, NEW q \in Runs
  PROVE  /\ step[q] = "over" => step'[q] = "over" /\ sent'[q] = sent[q] /\ (fin'[q] <=> fin[q])
         /\ EndHeard(q) => EndHeard(q)'
         /\ heard[q] = sent[q] => heard'[q] = heard[q] /\ gaps'[q] = gaps[q]
  <1>1. CASE \/ Abort \/ PublishCancel \/ CancelFails \/ Finish \/ Timeout \/ UNCHANGED vars
             \/ \E r \in Runs : HearCancel(r) \/ LoseLock(r)
    BY <1>1 DEF Abort, PublishCancel, CancelFails, Finish, Timeout, vars, HearCancel, LoseLock,
                callerVars, jobVars, runVars, faultVars, EndHeard
  <1>2. ASSUME NEW r \in Runs, Start(r) \/ OpenFails(r) \/ Complete(r)
        PROVE  /\ UNCHANGED <<sent, fin, heard, gaps>> /\ step[r] # "over"
               /\ \E s \in {"open", "mute", "over"} : step' = [step EXCEPT ![r] = s]
    BY <1>2 DEF Start, OpenFails, Complete, FrameInv, FrameAt, TypeOK, Runs, faultVars
  <1>3. CASE \E r \in Runs : Start(r) \/ OpenFails(r) \/ Complete(r)
    BY <1>2, <1>3 DEF TypeOK, EndHeard
  <1>4. ASSUME NEW r \in Runs, OpenRelay(r) \/ Emit(r) \/ Settle(r)
        PROVE  /\ UNCHANGED <<heard, gaps>> /\ step[r] \in {"open", "running", "mute"} /\ ~fin[r]
               /\ \A p \in Runs \ {r} : step'[p] = step[p] /\ sent'[p] = sent[p] /\ fin'[p] = fin[p]
               /\ step'[r] # "over"
    BY <1>4 DEF OpenRelay, Emit, Settle, FrameInv, FrameAt, TypeOK, faultVars
  <1>5. CASE \E r \in Runs : OpenRelay(r) \/ Emit(r) \/ Settle(r)
    BY <1>4, <1>5 DEF EndHeard
  <1>6. ASSUME NEW r \in Runs, Die(r)
        PROVE  /\ UNCHANGED <<heard, gaps>> /\ step[r] # "over" /\ step'[r] = "over"
               /\ \A p \in Runs \ {r} : step'[p] = step[p] /\ sent'[p] = sent[p] /\ fin'[p] = fin[p]
               /\ EndHeard(r) => EndHeard(r)'
    <2>1. PICK n \in heard[r]..sent[r] :
            sent' = [sent EXCEPT ![r] = n] /\ fin' = [fin EXCEPT ![r] = @ /\ n = sent[r]]
      BY <1>6 DEF Die
    <2>2. UNCHANGED <<heard, gaps>> /\ step[r] # "over" /\ step' = [step EXCEPT ![r] = "over"]
      BY <1>6 DEF Die, faultVars
    <2>3. EndHeard(r) => EndHeard(r)'
      BY <2>1, <2>2 DEF EndHeard, TypeOK
    <2> QED BY <2>1, <2>2, <2>3 DEF TypeOK
  <1>7. CASE \E r \in Runs : Die(r)
    BY <1>6, <1>7 DEF EndHeard
  <1>8. ASSUME NEW r \in Runs, Receive(r) \/ PublishFails(r)
        PROVE  /\ UNCHANGED <<step, sent, fin>>
               /\ heard[q] = sent[q] => heard'[q] = heard[q] /\ gaps'[q] = gaps[q]
    BY <1>8 DEF Receive, PublishFails, runVars, faultVars, TypeOK
  <1>9. CASE \E r \in Runs : Receive(r) \/ PublishFails(r)
    BY <1>8, <1>9 DEF EndHeard
  <1> QED BY <1>1, <1>3, <1>5, <1>7, <1>9 DEF Next

LEMMA StepOrder == TypeOK /\ FrameInv /\ OrderInv /\ [Next]_vars => OrderInv'
  <1> SUFFICES ASSUME TypeOK, FrameInv, OrderInv, [Next]_vars PROVE OrderInv'
    OBVIOUS
  <1>2. ASSUME ended PROVE EndedInv'
    BY <1>2, StepRuns DEF OrderInv, EndedInv
  <1>3. ASSUME ~ended, ended' PROVE EndedInv'
    <2>1. PICK r \in Runs : Receive(r)
      BY <1>3 DEF Next, Abort, PublishCancel, CancelFails, Finish, Timeout, vars, Start, OpenRelay,
                  OpenFails, Emit, HearCancel, Settle, Complete, LoseLock, Die, PublishFails,
                  callerVars
    <2>2. /\ heard[r] < sent[r] /\ heard' = [heard EXCEPT ![r] = heard[r] + 1]
          /\ UNCHANGED <<sent, fin, gaps>> /\ IsEnd(r, heard[r] + 1)
      BY <1>3, <2>1 DEF Receive, OnFrame, runVars, faultVars
    <2>3. heard[r] + 1 \notin gaps[r]
      BY DEF TypeOK, FrameInv, FrameAt
    <2>4. EndHeard(r)'
      BY <2>2, <2>3 DEF IsEnd, EndHeard, TypeOK
    <2> QED BY <2>4 DEF EndedInv
  <1>4. EndedInv'
    BY <1>2, <1>3 DEF EndedInv
  <1>5. \/ UNCHANGED <<result, returned>> /\ (caller' = "finish" => caller = "finish")
                                          /\ (caller = "closed" => caller' = "closed")
        \/ Finish
        \/ \E r \in Runs : Complete(r) /\ result' = r /\ caller' = "finish" /\ caller = "wait"
                                       /\ UNCHANGED returned
    BY DEF Next, Abort, PublishCancel, CancelFails, Timeout, vars, Start, OpenRelay, OpenFails,
           Emit, HearCancel, Settle, Complete, LoseLock, Die, Requeue, Receive, PublishFails,
           callerVars
  <1>6. ASSUME UNCHANGED <<result, returned>>, caller' = "finish" => caller = "finish",
               caller = "closed" => caller' = "closed"
        PROVE  ResultInv'
    BY <1>6, StepRuns DEF OrderInv, ResultInv
  <1>7. ASSUME Finish PROVE ResultInv'
    BY <1>7 DEF Finish, runVars, OrderInv, ResultInv
  <1>8. ASSUME NEW r \in Runs, Complete(r), result' = r, caller' = "finish", caller = "wait",
               UNCHANGED returned
        PROVE  ResultInv'
    <2>1. step'[r] = "over"
      BY <1>8 DEF Complete, TypeOK
    <2> QED BY <1>8, <2>1 DEF OrderInv, ResultInv
  <1>9. ResultInv'
    BY <1>5, <1>6, <1>7, <1>8
  <1> QED BY <1>4, <1>9 DEF OrderInv

\* When the call returned the result of the execution it follows, and took nothing else
\* for its `end`, every frame of that execution has reached the caller or failed.
OwnEndOnly == returned /\ result = followed /\ \A r \in Runs \ {result} : ~EndHeard(r)
ReturnInv == OwnEndOnly => /\ heard[result] = sent[result]
                           /\ replayed[result] = ChunksUpTo(result, sent[result])

LEMMA StepEveryChunk ==
    TypeOK /\ FrameInv /\ ReplayInv /\ OrderInv /\ ReturnInv /\ [Next]_vars => ReturnInv'
  <1> SUFFICES ASSUME TypeOK, FrameInv, ReplayInv, OrderInv, ReturnInv, [Next]_vars, OwnEndOnly'
               PROVE  /\ heard'[result'] = sent'[result']
                      /\ replayed'[result'] = ChunksUpTo(result, sent[result])'
    BY DEF ReturnInv
  <1>1. CASE returned
    <2>1. caller = "closed" /\ result \in Runs /\ step[result] = "over"
      BY <1>1 DEF OrderInv, ResultInv
    <2>2. UNCHANGED <<result, followed, replayed>>
      BY <2>1 DEF Next, Abort, PublishCancel, CancelFails, Finish, Timeout, vars, Start, OpenRelay,
                  OpenFails, Emit, HearCancel, Settle, Complete, LoseLock, Die, Receive,
                  PublishFails, callerVars
    <2>3. OwnEndOnly
      BY <1>1, <2>2, StepRuns DEF OwnEndOnly
    <2>4. heard[result] = sent[result] /\ replayed[result] = ChunksUpTo(result, sent[result])
      BY <2>3 DEF ReturnInv
    <2>5. /\ sent'[result] = sent[result] /\ (fin'[result] <=> fin[result])
          /\ heard'[result] = heard[result] /\ gaps'[result] = gaps[result]
      BY <2>1, <2>4, StepRuns
    <2>6. ChunksUpTo(result, sent[result])' = ChunksUpTo(result, sent[result])
      BY <2>2, <2>5 DEF ChunksUpTo, IsEnd
    <2> QED BY <2>2, <2>4, <2>5, <2>6
  <1>2. CASE ~returned
    <2>1. Finish
      BY <1>2 DEF OwnEndOnly, Next, Abort, PublishCancel, CancelFails, Timeout, vars, Start,
                  OpenRelay, OpenFails, Emit, HearCancel, Settle, Complete, LoseLock, Die, Receive,
                  PublishFails, callerVars
    <2>2. /\ caller = "finish" /\ (ended \/ heard[result] = sent[result])
          /\ UNCHANGED <<result, followed, replayed, heard, gaps, sent, fin>>
      BY <2>1 DEF Finish, runVars, faultVars
    <2>3. result \in Runs /\ result = followed /\ \A r \in Runs \ {result} : ~EndHeard(r)
      BY <2>2 DEF OwnEndOnly, EndHeard, OrderInv, ResultInv
    <2>4. replayed[result] = HeardChunks(result)
      BY <2>2, <2>3 DEF ReplayInv, ListenInv
    <2>5. heard[result] = sent[result]
      BY <2>2, <2>3 DEF EndHeard, OrderInv, EndedInv
    <2>6. ChunksUpTo(result, sent[result])' = HeardChunks(result)
      BY <2>2, <2>5 DEF HeardChunks, ChunksUpTo, IsEnd
    <2> QED BY <2>2, <2>4, <2>5, <2>6
  <1> QED BY <1>1, <1>2 DEF TypeOK

\* Whatever the executions, their frames and the result overtake, the call returns only
\* after the callbacks got every chunk, but for failed publishes, of the execution it
\* returns, unless another execution's `end` was taken for its own.
THEOREM EveryChunkFirst == Spec => []EveryChunkBeforeResult
  <1>1. Init => ReplayInv /\ OrderInv /\ ReturnInv
    BY RelayAssumption DEF Init, ReplayInv, ListenInv, OthersInv, HeardChunks, ChunksUpTo, OrderInv,
                           ResultInv, EndedInv, ReturnInv, OwnEndOnly, Runs
  <1>2. ReturnInv => EveryChunkBeforeResult
    BY DEF ReturnInv, OwnEndOnly, EveryChunkBeforeResult
  <1> QED BY <1>1, <1>2, InitFrames, StepFrames, StepReplay, StepOrder, StepEveryChunk, PTL DEF Spec

\* A job that never stalls runs once, and then the header comment holds as it stands, but
\* for failed publishes: every chunk is replayed before the caller sees the final result.
THEOREM EveryChunkOfOneRun == ASSUME MaxRuns = 1 PROVE Spec => []EveryChunkAlways
  <1>1. TypeOK /\ OrderInv /\ EveryChunkBeforeResult => EveryChunkAlways
    <2>1. \A r, q \in Runs : r = q
      BY RelayAssumption DEF Runs
    <2> QED BY <2>1 DEF OrderInv, ResultInv, EveryChunkBeforeResult, EveryChunkAlways
  <1>2. Init => OrderInv
    BY RelayAssumption DEF Init, OrderInv, ResultInv, EndedInv, Runs
  <1> QED BY <1>1, <1>2, EveryChunkFirst, InitFrames, StepFrames, StepOrder, PTL DEF Spec

=============================================================================
