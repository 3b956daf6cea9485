---------------------------- MODULE JobRunsProofs ----------------------------
(***************************************************************************)
(* Theorems about JobRuns, and at the end about JobBoard, for any number   *)
(* of requests, any capacity of the progress channel and any faults.       *)
(***************************************************************************)
EXTENDS JobBoard, SequenceTheorems, TLAPS

(* Every step of the specification, one named action each. *)
LEMMA Steps ==
  ASSUME [Next]_vars
  PROVE  \/ \E r \in Run :
              \/ Request(r) \/ RefuseBusy(r) \/ Refuse(r) \/ StartRun(r)
              \/ ListDone(r) \/ NoSpace(r) \/ ListFails(r) \/ Cancel(r)
              \/ Progress(r) \/ Work(r) \/ Finish(r) \/ Tell(r) \/ Unlock(r)
              \/ Subscribe(r) \/ Receive(r)
         \/ Crash \/ Restart
         \/ UNCHANGED vars
  BY DEF Next, Handler, Task, Watcher

-----------------------------------------------------------------------------
(* Type correctness *)

(* The type of one receiver's queue. *)
Inbox == [Run -> {q \in Seq(Message) : Len(q) <= Capacity}]

(* broadcast::Sender::send keeps every receiver within the channel's capacity. *)
LEMMA SendType ==
  ASSUME inbox \in Inbox, lagged \in [Run -> BOOLEAN], NEW m \in Message, Send(m)
  PROVE  inbox' \in Inbox /\ lagged' \in [Run -> BOOLEAN]
<1>1. ASSUME NEW r \in Run
      PROVE  /\ Append(inbox[r], m) \in Seq(Message)
             /\ Len(Append(inbox[r], m)) = Len(inbox[r]) + 1
             /\ Len(inbox[r]) = Capacity =>
                  /\ Append(Tail(inbox[r]), m) \in Seq(Message)
                  /\ Len(Append(Tail(inbox[r]), m)) = Capacity
  <2>1. inbox[r] \in Seq(Message) /\ Len(inbox[r]) \in Nat
    BY DEF Inbox
  <2>2. Len(inbox[r]) = Capacity =>
          Tail(inbox[r]) \in Seq(Message) /\ Len(Tail(inbox[r])) = Capacity - 1
    BY <2>1, LimitAssumption
  <2>3. QED
    BY <2>1, <2>2, LimitAssumption
<1>2. ASSUME NEW r \in Run
      PROVE  inbox'[r] \in {q \in Seq(Message) : Len(q) <= Capacity}
  BY <1>1, LimitAssumption DEF Send, Inbox
<1>3. QED
  BY <1>2 DEF Send, Inbox

(* What TypeOK says, with the queues as one function type. *)
Types ==
  /\ up \in BOOLEAN /\ lock \in Run \cup {NoRun}
  /\ kind \in [Run -> Kind] /\ phase \in [Run -> Phase]
  /\ outcome \in [Run -> {"none", "succeeded", "failed"}]
  /\ row \in [Run -> Status \cup {"none"}]
  /\ sent \in [Run -> 0..MaxProgress]
  /\ watch \in [Run -> {"none", "listening", "gone"}]
  /\ inbox \in Inbox
  /\ lagged \in [Run -> BOOLEAN] /\ pushed \in [Run -> BOOLEAN]
  /\ faults \in Nat /\ suffered \subseteq FaultKinds

(* It is the same thing. *)
LEMMA TypeForm == TypeOK <=> Types
  BY DEF TypeOK, Types, Inbox

(* The first state is typed. *)
LEMMA InitType == Init => TypeOK
<1>1. <<>> \in {q \in Seq(Message) : Len(q) <= Capacity}
  BY LimitAssumption
<1>2. Init => inbox \in Inbox
  BY <1>1 DEF Init, Inbox
<1>3. QED
  BY <1>2, TypeForm, LimitAssumption DEF Init, Types, Kind, Phase, Status

(* Every step keeps the types. *)
LEMMA TypeStep == Types /\ [Next]_vars => Types'
<1> SUFFICES ASSUME Types, [Next]_vars PROVE Types'
  OBVIOUS
<1> USE DEF Types, Move, Release, SetRow, NoFault, Fault, job, channel, Kind,
            Phase, Status
<1>e. <<>> \in {q \in Seq(Message) : Len(q) <= Capacity}
  BY LimitAssumption
<1>1. ASSUME NEW r \in Run,
             \/ Request(r) \/ RefuseBusy(r) \/ Refuse(r)
             \/ ListDone(r) \/ NoSpace(r) \/ ListFails(r) \/ Cancel(r)
             \/ Work(r) \/ Finish(r) \/ Unlock(r)
      PROVE  Types'
  <2>1. CASE Request(r) \/ RefuseBusy(r) \/ Refuse(r)
    BY <2>1 DEF Request, RefuseBusy, Refuse
  <2>2. CASE ListDone(r) \/ NoSpace(r) \/ ListFails(r) \/ Cancel(r)
    BY <2>2 DEF ListDone, NoSpace, ListFails, Cancel
  <2>3. CASE Work(r) \/ Unlock(r)
    BY <2>3 DEF Work, Unlock
  <2>4. CASE Finish(r)
    BY <2>4 DEF Finish
  <2>5. QED
    BY <1>1, <2>1, <2>2, <2>3, <2>4
<1>2. ASSUME NEW r \in Run, StartRun(r) \/ Progress(r) \/ Tell(r) PROVE Types'
  <2>1. \A s \in {"none", "succeeded", "failed"} : \A b \in BOOLEAN :
          [run |-> r, final |-> b, status |-> s] \in Message
    BY DEF Message
  <2>2. inbox' \in Inbox /\ lagged' \in [Run -> BOOLEAN]
    BY <1>2, <2>1, SendType DEF StartRun, Progress, Tell
  <2>3. UNCHANGED <<watch, pushed>>
    BY <1>2 DEF StartRun, Progress, Tell, Send
  <2>4. CASE StartRun(r)
    BY <2>2, <2>3, <2>4 DEF StartRun
  <2>5. CASE Progress(r)
    BY <2>2, <2>3, <2>5, LimitAssumption DEF Progress
  <2>6. CASE Tell(r)
    BY <2>2, <2>3, <2>6 DEF Tell
  <2>7. QED
    BY <1>2, <2>4, <2>5, <2>6
<1>3. ASSUME NEW r \in Run, Subscribe(r) PROVE Types'
  BY <1>3 DEF Subscribe
<1>4. ASSUME NEW r \in Run, Receive(r) PROVE Types'
  <2>1. inbox[r] # <<>> => Tail(inbox[r]) \in Seq(Message)
                           /\ Len(Tail(inbox[r])) <= Capacity
    <3>1. inbox[r] \in Seq(Message) /\ Len(inbox[r]) \in Nat /\ Len(inbox[r]) <= Capacity
      BY DEF Inbox
    <3>2. QED
      BY <3>1, LimitAssumption
  <2>2. PICK q \in {q \in Seq(Message) : Len(q) <= Capacity} :
                  inbox' = [inbox EXCEPT ![r] = q]
    <3>1. CASE lagged[r]
      BY <1>4, <1>e, <3>1 DEF Receive
    <3>2. CASE ~lagged[r]
      <4>1. CASE Head(inbox[r]).run = r /\ Head(inbox[r]).final
        BY <1>4, <1>e, <3>2, <4>1 DEF Receive
      <4>2. CASE ~(Head(inbox[r]).run = r /\ Head(inbox[r]).final)
        BY <1>4, <2>1, <3>2, <4>2 DEF Receive
      <4>3. QED
        BY <4>1, <4>2
    <3>3. QED
      BY <3>1, <3>2
  <2>3. PICK w \in {"none", "listening", "gone"} : watch' = [watch EXCEPT ![r] = w]
    BY <1>4 DEF Receive
  <2>4. PICK p \in BOOLEAN : pushed' = [pushed EXCEPT ![r] = p]
    <3>1. CASE lagged[r]
      BY <1>4, <3>1 DEF Receive
    <3>2. CASE ~lagged[r]
      <4> DEFINE m == Head(inbox[r])
                 p == pushed[r] \/ ((m.run = r /\ m.final) /\ m.status = "failed")
      <4>1. pushed' = [pushed EXCEPT ![r] = p] /\ p \in BOOLEAN
        BY <1>4, <3>2, Zenon DEF Receive
      <4>2. QED
        BY <4>1
    <3>3. QED
      BY <3>1, <3>2
  <2>5. inbox' \in Inbox /\ watch' \in [Run -> {"none", "listening", "gone"}]
        /\ pushed' \in [Run -> BOOLEAN]
    BY <2>2, <2>3, <2>4 DEF Inbox
  <2>6. QED
    BY <1>4, <2>5 DEF Receive
<1>5. CASE Crash
  <2>1. inbox' \in Inbox
    BY <1>5, <1>e DEF Crash, Inbox
  <2>2. phase' \in [Run -> Phase] /\ watch' \in [Run -> {"none", "listening", "gone"}]
    BY <1>5 DEF Crash
  <2>3. faults' \in Nat
    BY <1>5 DEF Crash
  <2>4. QED
    BY <1>5, <2>1, <2>2, <2>3, Zenon DEF Crash
<1>6. CASE Restart
  BY <1>6 DEF Restart
<1>7. CASE UNCHANGED vars
  BY <1>7 DEF vars
<1>8. QED
  BY <1>1, <1>2, <1>3, <1>4, <1>5, <1>6, <1>7, Steps

(* The types of the code hold, and no receiver holds more than the channel does. *)
THEOREM JobsTyped == Spec => []TypeOK
<1>1. Spec => []Types
  <2>1. Init => Types
    BY InitType, TypeForm
  <2>2. QED
    BY <2>1, TypeStep, PTL DEF Spec
<1>2. QED
  BY <1>1, TypeForm, PTL

-----------------------------------------------------------------------------
(* One job at a time *)

(* Every step keeps the lock exclusive: only its holder moves on. *)
LEMMA LockStep == TypeOK /\ OneJobAtATime /\ [Next]_vars => OneJobAtATime'
<1> SUFFICES ASSUME TypeOK, OneJobAtATime, [Next]_vars PROVE OneJobAtATime'
  OBVIOUS
<1> USE RunAssumption DEF OneJobAtATime, Move, Release, job
<1>t. phase \in [Run -> Phase]
  BY DEF TypeOK
<1>1. ASSUME NEW r \in Run, Request(r) \/ RefuseBusy(r) PROVE OneJobAtATime'
  BY <1>1, <1>t DEF Request, RefuseBusy
<1>2. ASSUME NEW r \in Run,
             Refuse(r) \/ NoSpace(r) \/ ListFails(r) \/ Cancel(r) \/ Unlock(r)
      PROVE  OneJobAtATime'
  (* r was the holder, so nobody else is past try_lock. *)
  <2>1. lock = r /\ lock' = NoRun /\ phase' = [phase EXCEPT ![r] = "over"]
    BY <1>2, <1>t DEF Refuse, NoSpace, ListFails, Cancel, Unlock
  <2>2. QED
    BY <2>1, <1>t
<1>3. ASSUME NEW r \in Run,
             \/ StartRun(r) \/ ListDone(r) \/ Progress(r) \/ Work(r)
             \/ Finish(r) \/ Tell(r)
      PROVE  OneJobAtATime'
  <2>1. /\ phase[r] \notin {"new", "over"} /\ lock' = lock
        /\ \/ phase' = phase
           \/ \E p \in Phase : phase' = [phase EXCEPT ![r] = p]
    BY <1>3, <1>t DEF StartRun, ListDone, Progress, Work, Finish, Tell, Phase
  <2>2. QED
    BY <2>1, <1>t
<1>4. ASSUME NEW r \in Run, Subscribe(r) \/ Receive(r) PROVE OneJobAtATime'
  BY <1>4 DEF Subscribe, Receive
<1>5. CASE Crash
  BY <1>5 DEF Crash
<1>6. CASE Restart
  BY <1>6 DEF Restart
<1>7. CASE UNCHANGED vars
  BY <1>7 DEF vars
<1>8. QED
  BY <1>1, <1>2, <1>3, <1>4, <1>5, <1>6, <1>7, Steps

(* A job never outlives its hold on the lock, whatever fails. *)
THEOREM MutualExclusion == Spec => []OneJobAtATime
<1>1. Init => OneJobAtATime
  BY DEF Init, OneJobAtATime
<1>2. QED
  BY <1>1, LockStep, JobsTyped, PTL DEF Spec

-----------------------------------------------------------------------------
(* Verdicts *)

(* A row has a verdict only once its job is past finish_run, or was refused. *)
Settled ==
  \A r \in Run : row[r] \in {"succeeded", "failed"}
                   => phase[r] \in {"telling", "unlocking", "over"}

(* Every step keeps that, and changes no verdict. *)
LEMMA SettledStep ==
  TypeOK /\ Settled /\ [Next]_vars
    => /\ Settled'
       /\ \A r \in Run : row[r] \in {"succeeded", "failed"} => row'[r] = row[r]
<1> SUFFICES ASSUME TypeOK, Settled, [Next]_vars
             PROVE  /\ Settled'
                    /\ \A r \in Run : row[r] \in {"succeeded", "failed"}
                                        => row'[r] = row[r]
  OBVIOUS
<1> DEFINE Kept == \A r \in Run : row[r] \in {"succeeded", "failed"} => row'[r] = row[r]
<1> USE DEF Settled, Move, SetRow, job
<1>t. phase \in [Run -> Phase] /\ row \in [Run -> Status \cup {"none"}]
  BY DEF TypeOK
<1>1. ASSUME NEW r \in Run,
             \/ Request(r) \/ RefuseBusy(r) \/ Refuse(r) \/ ListDone(r)
             \/ ListFails(r) \/ Cancel(r) \/ Progress(r) \/ Work(r)
             \/ Tell(r) \/ Unlock(r) \/ Subscribe(r) \/ Receive(r)
      PROVE  Settled' /\ Kept
  <2>1. /\ row' = row
        /\ \/ phase' = phase
           \/ /\ phase[r] \notin {"telling", "unlocking", "over"}
              /\ \E p \in Phase : phase' = [phase EXCEPT ![r] = p]
           \/ \E p \in {"unlocking", "over"} : phase' = [phase EXCEPT ![r] = p]
    BY <1>1 DEF Request, RefuseBusy, Refuse, ListDone, ListFails, Cancel,
                Progress, Work, Tell, Unlock, Subscribe, Receive, Phase
  <2>2. QED
    BY <2>1, <1>t
<1>2. ASSUME NEW r \in Run, StartRun(r) \/ NoSpace(r) \/ Finish(r)
      PROVE  Settled' /\ Kept
  <2>1. row[r] \notin {"succeeded", "failed"}
    BY <1>2 DEF StartRun, NoSpace, Finish
  <2>2. CASE StartRun(r)
    BY <2>1, <2>2, <1>t DEF StartRun
  <2>3. CASE NoSpace(r)
    BY <2>1, <2>3, <1>t DEF NoSpace
  <2>4. CASE Finish(r)
    BY <2>1, <2>4, <1>t DEF Finish
  <2>5. QED
    BY <1>2, <2>2, <2>3, <2>4
<1>3. CASE Crash
  BY <1>3 DEF Crash
<1>4. CASE Restart
  BY <1>4, <1>t DEF Restart
<1>5. CASE UNCHANGED vars
  BY <1>5 DEF vars
<1>6. QED
  BY <1>1, <1>2, <1>3, <1>4, <1>5, Steps

(* No verdict in the history is ever rewritten, whatever fails. *)
THEOREM VerdictsStand == Spec => VerdictStands
<1>1. Init => Settled
  BY DEF Init, Settled
<1>2. TypeOK /\ Settled /\ [Next]_vars
        => [\A r \in Run : row[r] \in {"succeeded", "failed"} => row'[r] = row[r]]_vars
  BY SettledStep
<1>3. QED
  BY <1>1, <1>2, SettledStep, JobsTyped, PTL DEF Spec, VerdictStands

-----------------------------------------------------------------------------
(* The history, when the process may die at any moment but nothing else fails *)

(* A step after which only crashes have happened is one before which they had, *)
(* and no other fault itself.                                                  *)
LEMMA CrashStep ==
  ASSUME [Next]_vars, OnlyCrashes'
  PROVE  OnlyCrashes /\ ~Fault("db") /\ ~Fault("list") /\ ~Fault("cancel")
<1>1. ~Fault("db") /\ ~Fault("list") /\ ~Fault("cancel")
  BY DEF Fault, OnlyCrashes
<1>2. suffered \subseteq suffered'
  <2>1. NoFault \/ (\E f \in AllFaults : Fault(f)) => suffered \subseteq suffered'
    BY DEF NoFault, Fault
  <2>2. ASSUME NEW r \in Run,
               \/ Request(r) \/ RefuseBusy(r) \/ Refuse(r) \/ StartRun(r)
               \/ ListDone(r) \/ NoSpace(r) \/ ListFails(r) \/ Cancel(r)
               \/ Progress(r) \/ Work(r) \/ Finish(r) \/ Tell(r) \/ Unlock(r)
               \/ Subscribe(r) \/ Receive(r)
        PROVE  NoFault \/ \E f \in AllFaults : Fault(f)
    BY <2>2 DEF Request, RefuseBusy, Refuse, StartRun, ListDone, NoSpace, ListFails,
                Cancel, Progress, Work, Finish, Tell, Unlock, Subscribe, Receive,
                AllFaults
  <2>3. Crash \/ Restart => NoFault \/ \E f \in AllFaults : Fault(f)
    BY DEF Crash, Restart, AllFaults
  <2>4. UNCHANGED vars => NoFault
    BY DEF vars, NoFault
  <2>5. QED
    BY <2>1, <2>2, <2>3, <2>4, Steps
<1>3. QED
  BY <1>1, <1>2 DEF OnlyCrashes

(* What the lock, the row, the messages and the webhook have to do with one   *)
(* another: a running row has a job before finish_run; from finish_run on the *)
(* row holds the job's outcome; a listening watcher's run is a scheduled one. *)
Honest ==
  /\ \A r \in Run : up /\ row[r] = "running"
                      => phase[r] \in {"listing", "working", "finishing"}
  /\ \A r \in Run : /\ phase[r] \in {"telling", "unlocking"} => row[r] = outcome[r]
                    /\ phase[r] \in {"finishing", "telling", "unlocking"}
                         => outcome[r] \in {"succeeded", "failed"}
  /\ \A r \in Run : phase[r] = "new" => row[r] = "none" /\ ~pushed[r]
  /\ \A r \in Run : watch[r] = "listening" => kind[r] = "scheduled" /\ phase[r] # "new"

(* Every step keeps Honest when no statement, listing or handler fails. *)
LEMMA HonestStep ==
  ASSUME OnlyCrashes', TypeOK, Honest, [Next]_vars
  PROVE  Honest'
<1> USE DEF Honest, Move, SetRow, job, channel
<1>t. /\ phase \in [Run -> Phase] /\ row \in [Run -> Status \cup {"none"}]
      /\ outcome \in [Run -> {"none", "succeeded", "failed"}]
      /\ kind \in [Run -> Kind]
      /\ watch \in [Run -> {"none", "listening", "gone"}]
      /\ pushed \in [Run -> BOOLEAN]
  BY DEF TypeOK
<1>f. ~Fault("db") /\ ~Fault("list") /\ ~Fault("cancel")
  BY CrashStep
<1>1. ASSUME NEW r \in Run, Request(r) PROVE Honest'
  BY <1>1, <1>t DEF Request
<1>2. ASSUME NEW r \in Run, RefuseBusy(r) \/ Refuse(r) PROVE Honest'
  BY <1>2, <1>t DEF RefuseBusy, Refuse
<1>3. ASSUME NEW r \in Run, StartRun(r) PROVE Honest'
  <2>1. UNCHANGED <<watch, pushed>>
    BY <1>3 DEF StartRun, Send
  <2>2. QED
    BY <1>3, <2>1, <1>t DEF StartRun
<1>4. ASSUME NEW r \in Run, ListDone(r) \/ NoSpace(r) PROVE Honest'
  BY <1>4, <1>t, <1>f DEF ListDone, NoSpace
<1>5. ASSUME NEW r \in Run, ListFails(r) \/ Cancel(r) PROVE Honest'
  BY <1>5, <1>f DEF ListFails, Cancel
<1>6. ASSUME NEW r \in Run, Progress(r) PROVE Honest'
  <2>1. UNCHANGED <<watch, pushed>>
    BY <1>6 DEF Progress, Send
  <2>2. QED
    BY <1>6, <2>1, <1>t DEF Progress
<1>7. ASSUME NEW r \in Run, Work(r) PROVE Honest'
  BY <1>7, <1>t DEF Work
<1>8. ASSUME NEW r \in Run, Finish(r) PROVE Honest'
  BY <1>8, <1>t, <1>f DEF Finish
<1>9. ASSUME NEW r \in Run, Tell(r) PROVE Honest'
  <2>1. UNCHANGED <<watch, pushed>>
    BY <1>9 DEF Tell, Send
  <2>2. QED
    BY <1>9, <2>1, <1>t DEF Tell
<1>10. ASSUME NEW r \in Run, Unlock(r) PROVE Honest'
  BY <1>10, <1>t DEF Unlock
<1>11. ASSUME NEW r \in Run, Subscribe(r) PROVE Honest'
  BY <1>11, <1>t DEF Subscribe
<1>12. ASSUME NEW r \in Run, Receive(r) PROVE Honest'
  <2>1. /\ phase[r] # "new"
        /\ \A q \in Run \ {r} : watch'[q] = watch[q] /\ pushed'[q] = pushed[q]
        /\ watch'[r] = "listening" => watch[r] = "listening"
        /\ UNCHANGED <<up, kind, phase, outcome, row>>
    BY <1>12, <1>t DEF Receive
  <2>2. QED
    BY <2>1
<1>13. CASE Crash
  BY <1>13, <1>t DEF Crash
<1>14. CASE Restart
  BY <1>14, <1>t, <1>f DEF Restart
<1>15. CASE UNCHANGED vars
  BY <1>15 DEF vars
<1>16. QED
  BY <1>1, <1>2, <1>3, <1>4, <1>5, <1>6, <1>7, <1>8, <1>9, <1>10, <1>11, <1>12,
     <1>13, <1>14, <1>15, Steps

(* db.rs:277-279: with the lock, a running row belongs to the lock's holder. *)
THEOREM HistoryHonest == Spec => []RunningHasJob
<1> DEFINE Inv == OnlyCrashes => Honest
<1>1. Init => Inv
  BY DEF Init, Honest
<1>2. TypeOK /\ Inv /\ [Next]_vars => Inv'
  BY HonestStep, CrashStep
<1>3. Inv /\ OneJobAtATime => RunningHasJob
  BY DEF Honest, OneJobAtATime, RunningHasJob, HistoryTellsPresent
<1>4. QED
  BY <1>1, <1>2, <1>3, JobsTyped, MutualExclusion, PTL DEF Spec

(* What may be in a queue: nothing final, or the verdict of the history. *)
TrueMessage(m, rows) ==
  m.final => rows[m.run] = m.status /\ m.status \in {"succeeded", "failed"}

(* A queue of true messages stays one while verdicts stand, *)
(* whether its head is taken, lost or neither, and a true message is added. *)
LEMMA QueueStep ==
  ASSUME NEW q \in Seq(Message), NEW rows, NEW rows2,
         \A i \in 1..Len(q) : TrueMessage(q[i], rows),
         \A r \in Run : rows[r] \in {"succeeded", "failed"} => rows2[r] = rows[r]
  PROVE  /\ \A i \in 1..Len(q) : TrueMessage(q[i], rows2)
         /\ q # <<>> => \A i \in 1..Len(Tail(q)) : TrueMessage(Tail(q)[i], rows2)
<1>1. ASSUME NEW i \in 1..Len(q) PROVE TrueMessage(q[i], rows2)
  <2>1. q[i] \in Message /\ q[i].run \in Run
    <3>1. q[i] \in Message
      OBVIOUS
    <3>2. QED
      BY <3>1 DEF Message
  <2>2. TrueMessage(q[i], rows)
    OBVIOUS
  <2>3. QED
    BY <2>1, <2>2 DEF TrueMessage
<1>2. ASSUME q # <<>>, NEW i \in 1..Len(Tail(q)) PROVE TrueMessage(Tail(q)[i], rows2)
  <2>1. i + 1 \in 1..Len(q) /\ Tail(q)[i] = q[i + 1]
    BY <1>2
  <2>2. QED
    BY <1>1, <2>1
<1>3. QED
  BY <1>1, <1>2

(* broadcast::Sender::send of a true message. *)
LEMMA AppendQueue ==
  ASSUME NEW q \in Seq(Message), NEW m \in Message, NEW rows,
         \A i \in 1..Len(q) : TrueMessage(q[i], rows), TrueMessage(m, rows)
  PROVE  \A i \in 1..Len(Append(q, m)) : TrueMessage(Append(q, m)[i], rows)
<1> SUFFICES ASSUME NEW i \in 1..Len(Append(q, m))
             PROVE  TrueMessage(Append(q, m)[i], rows)
  OBVIOUS
<1>1. CASE i = Len(q) + 1
  BY <1>1
<1>2. CASE i # Len(q) + 1
  <2>1. i \in 1..Len(q) /\ Append(q, m)[i] = q[i]
    BY <1>2
  <2>2. QED
    BY <2>1
<1>3. QED
  BY <1>1, <1>2

(* Every queue is true. *)
FinalsTrue == \A r \in Run : \A i \in 1..Len(inbox[r]) : TrueMessage(inbox[r][i], row)

(* Every step keeps the queues true: Tell follows Finish. *)
LEMMA FinalsStep ==
  ASSUME OnlyCrashes', TypeOK, Settled, Honest, FinalsTrue, [Next]_vars
  PROVE  FinalsTrue'
<1> USE DEF Move, SetRow, job, channel
<1>t. /\ inbox \in [Run -> Seq(Message)] /\ phase \in [Run -> Phase]
      /\ row \in [Run -> Status \cup {"none"}]
      /\ outcome \in [Run -> {"none", "succeeded", "failed"}]
  BY DEF TypeOK
<1>k. \A r \in Run : row[r] \in {"succeeded", "failed"} => row'[r] = row[r]
  BY SettledStep
<1>q. ASSUME NEW r \in Run
      PROVE  /\ \A i \in 1..Len(inbox[r]) : TrueMessage(inbox[r][i], row')
             /\ inbox[r] # <<>> => \A i \in 1..Len(Tail(inbox[r])) :
                                     TrueMessage(Tail(inbox[r])[i], row')
  BY <1>t, <1>k, QueueStep DEF FinalsTrue
<1>u. ASSUME NEW r \in Run, inbox'[r] = inbox[r]
      PROVE  \A i \in 1..Len(inbox'[r]) : TrueMessage(inbox'[r][i], row')
  BY <1>u, <1>q
<1>e. ASSUME NEW r \in Run, inbox'[r] = <<>>
      PROVE  \A i \in 1..Len(inbox'[r]) : TrueMessage(inbox'[r][i], row')
  BY <1>e
<1>1. ASSUME NEW r \in Run, UNCHANGED inbox PROVE FinalsTrue'
  BY <1>1, <1>u DEF FinalsTrue
<1>2. ASSUME NEW m \in Message, Send(m), TrueMessage(m, row') PROVE FinalsTrue'
  <2>1. ASSUME NEW r \in Run
        PROVE  \A i \in 1..Len(inbox'[r]) : TrueMessage(inbox'[r][i], row')
    <3>1. CASE watch[r] # "listening"
      <4>1. inbox'[r] = inbox[r]
        BY <1>2, <3>1 DEF Send
      <4>2. QED
        BY <4>1, <1>u
    <3>2. CASE watch[r] = "listening" /\ Len(inbox[r]) # Capacity
      <4>1. inbox'[r] = Append(inbox[r], m)
        BY <1>2, <3>2 DEF Send
      <4>2. QED
        BY <4>1, <1>2, <1>q, <1>t, AppendQueue
    <3>3. CASE watch[r] = "listening" /\ Len(inbox[r]) = Capacity
      <4>1. inbox'[r] = Append(Tail(inbox[r]), m) /\ inbox[r] # <<>>
        BY <1>2, <3>3, LimitAssumption DEF Send
      <4>2. Tail(inbox[r]) \in Seq(Message)
        BY <4>1, <1>t
      <4>3. QED
        BY <4>1, <4>2, <1>2, <1>q, AppendQueue
    <3>4. QED
      BY <3>1, <3>2, <3>3
  <2>2. QED
    BY <2>1 DEF FinalsTrue
<1>3. ASSUME NEW r \in Run, StartRun(r) \/ Progress(r) PROVE FinalsTrue'
  <2> DEFINE m == [run |-> r, final |-> FALSE, status |-> "none"]
  <2>1. m \in Message /\ TrueMessage(m, row')
    BY DEF Message, TrueMessage
  <2>2. Send(m)
    BY <1>3 DEF StartRun, Progress
  <2>3. QED
    BY <2>1, <2>2, <1>2
<1>4. ASSUME NEW r \in Run, Tell(r) PROVE FinalsTrue'
  <2> DEFINE m == [run |-> r, final |-> TRUE, status |-> outcome[r]]
  <2>1. row'[r] = outcome[r] /\ outcome[r] \in {"succeeded", "failed"}
    BY <1>4 DEF Tell, Honest
  <2>2. m \in Message /\ TrueMessage(m, row')
    BY <2>1 DEF Message, TrueMessage
  <2>3. Send(m)
    BY <1>4 DEF Tell
  <2>4. QED
    BY <2>2, <2>3, <1>2
<1>5. ASSUME NEW r \in Run, Receive(r) PROVE FinalsTrue'
  <2>1. ASSUME NEW p \in Run
        PROVE  \A i \in 1..Len(inbox'[p]) : TrueMessage(inbox'[p][i], row')
    <3>1. \/ inbox'[p] = inbox[p] \/ inbox'[p] = <<>>
          \/ inbox[p] # <<>> /\ inbox'[p] = Tail(inbox[p])
      <4>1. p # r => inbox'[p] = inbox[p]
        BY <1>5, <1>t DEF Receive
      <4>2. CASE p = r
        BY <1>5, <4>2, <1>t DEF Receive
      <4>3. QED
        BY <4>1, <4>2
    <3>2. CASE inbox[p] # <<>> /\ inbox'[p] = Tail(inbox[p])
      BY <3>2, <1>q
    <3>3. QED
      BY <3>1, <3>2, <1>u, <1>e
  <2>2. QED
    BY <2>1 DEF FinalsTrue
<1>6. CASE Crash
  <2>1. \A r \in Run : inbox'[r] = <<>>
    BY <1>6 DEF Crash
  <2>2. QED
    BY <2>1, <1>e DEF FinalsTrue
<1>7. CASE UNCHANGED inbox
  BY <1>7, <1>u DEF FinalsTrue
<1>8. ASSUME NEW r \in Run,
             \/ Request(r) \/ RefuseBusy(r) \/ Refuse(r) \/ ListDone(r)
             \/ NoSpace(r) \/ ListFails(r) \/ Cancel(r) \/ Work(r) \/ Finish(r)
             \/ Unlock(r) \/ Subscribe(r)
      PROVE  UNCHANGED inbox
  BY <1>8 DEF Request, RefuseBusy, Refuse, ListDone, NoSpace, ListFails, Cancel,
              Work, Finish, Unlock, Subscribe
<1>9. ASSUME Restart \/ UNCHANGED vars PROVE UNCHANGED inbox
  BY <1>9 DEF Restart, vars
<1>10. QED
  BY <1>3, <1>4, <1>5, <1>6, <1>7, <1>8, <1>9, Steps

(* Every step keeps AlarmIsTrue: the webhook follows a true final message. *)
LEMMA AlarmStep ==
  ASSUME OnlyCrashes', TypeOK, Settled, Honest, FinalsTrue, AlarmIsTrue, [Next]_vars
  PROVE  AlarmIsTrue'
<1> USE DEF AlarmIsTrue
<1>c. OnlyCrashes
  BY CrashStep
<1>t. /\ pushed \in [Run -> BOOLEAN] /\ inbox \in [Run -> Seq(Message)]
      /\ kind \in [Run -> Kind]
  BY DEF TypeOK
<1>k. \A r \in Run : row[r] = "failed" => row'[r] = "failed"
  BY SettledStep
<1>1. ASSUME NEW r \in Run, Request(r) PROVE AlarmIsTrue'
  <2>1. ~pushed[r] /\ UNCHANGED <<pushed, row>>
        /\ \A q \in Run \ {r} : kind'[q] = kind[q]
    BY <1>1, <1>t DEF Request, Move, Honest, channel
  <2>2. QED
    BY <2>1, <1>c
<1>2. ASSUME NEW r \in Run, Receive(r) PROVE AlarmIsTrue'
  <2>1. UNCHANGED <<kind, row>> /\ \A q \in Run \ {r} : pushed'[q] = pushed[q]
    BY <1>2, <1>t DEF Receive, job
  <2>2. ASSUME pushed'[r], ~pushed[r] PROVE kind[r] = "scheduled" /\ row[r] = "failed"
    <3> DEFINE m == Head(inbox[r])
    <3>1. /\ ~lagged[r] /\ inbox[r] # <<>> /\ watch[r] = "listening"
          /\ m.run = r /\ m.final /\ m.status = "failed"
      BY <1>2, <2>2, <1>t DEF Receive
    <3>2. TrueMessage(m, row)
      <4>1. inbox[r] \in Seq(Message) /\ inbox[r] # <<>>
        BY <3>1, <1>t
      <4>2. 1 \in 1..Len(inbox[r]) /\ m = inbox[r][1]
        BY <4>1
      <4>3. QED
        BY <4>2 DEF FinalsTrue
    <3>3. QED
      BY <3>1, <3>2 DEF TrueMessage, Honest
  <2>3. QED
    BY <2>1, <2>2, <1>c
<1>3. ASSUME UNCHANGED <<kind, pushed>> PROVE AlarmIsTrue'
  BY <1>3, <1>k, <1>c
<1>4. ASSUME NEW r \in Run,
             \/ RefuseBusy(r) \/ Refuse(r) \/ StartRun(r) \/ ListDone(r)
             \/ NoSpace(r) \/ ListFails(r) \/ Cancel(r) \/ Progress(r) \/ Work(r)
             \/ Finish(r) \/ Tell(r) \/ Unlock(r) \/ Subscribe(r)
      PROVE  UNCHANGED <<kind, pushed>>
  BY <1>4 DEF RefuseBusy, Refuse, StartRun, ListDone, NoSpace, ListFails, Cancel,
              Progress, Work, Finish, Tell, Unlock, Subscribe, Send, channel, job
<1>5. ASSUME Crash \/ Restart \/ UNCHANGED vars PROVE UNCHANGED <<kind, pushed>>
  BY <1>5 DEF Crash, Restart, vars, channel, job
<1>6. QED
  BY <1>1, <1>2, <1>3, <1>4, <1>5, Steps

(* What the queues and the webhook rest on. *)
ReportInv == Settled /\ (OnlyCrashes => Honest /\ FinalsTrue /\ AlarmIsTrue)

(* It holds, and the two properties follow from it. *)
LEMMA Reports == Spec => [](TypeOK /\ ReportInv)
<1>1. Init => ReportInv
  BY DEF Init, ReportInv, Settled, Honest, FinalsTrue, AlarmIsTrue
<1>2. TypeOK /\ ReportInv /\ [Next]_vars => ReportInv'
  <2> SUFFICES ASSUME TypeOK, ReportInv, [Next]_vars PROVE ReportInv'
    OBVIOUS
  <2>1. Settled'
    BY SettledStep DEF ReportInv
  <2>2. OnlyCrashes' => Honest' /\ FinalsTrue' /\ AlarmIsTrue'
    BY CrashStep, HonestStep, FinalsStep, AlarmStep DEF ReportInv
  <2>3. QED
    BY <2>1, <2>2 DEF ReportInv
<1>3. QED
  BY <1>1, <1>2, JobsTyped, PTL DEF Spec

(* run.rs: finish_run comes before the final message, so what subscribers are *)
(* told is what the history holds.                                            *)
THEOREM FinalsAreRecorded == Spec => []ToldIsRecorded
<1>1. TypeOK /\ ReportInv => ToldIsRecorded
  <2> SUFFICES ASSUME TypeOK, ReportInv, OnlyCrashes,
                      NEW r \in Run, NEW i \in DOMAIN inbox[r], inbox[r][i].final
               PROVE  row[inbox[r][i].run] = inbox[r][i].status
    BY DEF ToldIsRecorded
  <2>1. inbox[r] \in Seq(Message)
    BY DEF TypeOK
  <2>2. i \in 1..Len(inbox[r])
    BY <2>1
  <2>3. QED
    BY <2>2 DEF ReportInv, FinalsTrue, TrueMessage
<1>2. QED
  BY <1>1, Reports, PTL

(* main.rs: the webhook is only called for a scheduled run that the history *)
(* holds as failed.                                                         *)
THEOREM AlarmsAreTrue == Spec => []AlarmIsTrue
<1>1. ReportInv => AlarmIsTrue
  BY DEF ReportInv, AlarmIsTrue
<1>2. QED
  BY <1>1, Reports, PTL

-----------------------------------------------------------------------------
(* The page and the stopping server *)

(* Every step of the specification, one named action each. *)
LEMMA BoardSteps ==
  ASSUME [BoardNext]_boardVars
  PROVE  \/ \E r \in Run : Arrive(r)
         \/ \E r \in Run : Loud(r)
         \/ \E r \in Run : Quiet(r) \/ (Cancel(r) /\ UNCHANGED board)
         \/ Connect \/ Disconnect \/ Hear \/ Fade
         \/ Sigterm \/ Drained \/ QuietSeen \/ QuietTimeout \/ Leave
         \/ Killed \/ Back
         \/ UNCHANGED boardVars
  BY DEF BoardNext

(* A step of JobBoard is a step of JobRuns, or changes none of its variables, or *)
(* the process leaves by itself.                                                 *)
LEMMA BoardStep ==
  ASSUME [BoardNext]_boardVars
  PROVE  [Next]_vars \/ Leave
<1>1. ASSUME NEW r \in Run,
             Arrive(r) \/ Loud(r) \/ Quiet(r) \/ (Cancel(r) /\ UNCHANGED board)
      PROVE  Next
  BY <1>1 DEF Arrive, Loud, Quiet, Next, Handler, Task
<1>2. Killed \/ Back => Next
  BY DEF Killed, Back, Next
<1>3. \/ Connect \/ Disconnect \/ Hear \/ Fade
      \/ Sigterm \/ Drained \/ QuietSeen \/ QuietTimeout
      \/ UNCHANGED boardVars
      => UNCHANGED vars
  BY DEF Connect, Disconnect, Hear, Fade, Sigterm, Drained, QuietSeen, QuietTimeout,
         boardVars
<1>4. QED
  BY <1>1, <1>2, <1>3, BoardSteps

(* What JobRuns promises also holds when the process leaves. *)
JobInv ==
  /\ Types /\ OneJobAtATime
  /\ OnlyCrashes => Honest
  /\ \A r \in Run : phase[r] \in {"new", "checking", "listing", "working"}
                      => outcome[r] = "none"

(* At first no request has come. *)
LEMMA InitJob == Init => JobInv
  BY InitType, TypeForm DEF Init, JobInv, OneJobAtATime, Honest

(* Every step keeps it. *)
LEMMA JobStep == JobInv /\ [BoardNext]_boardVars => JobInv'
<1> SUFFICES ASSUME JobInv, [BoardNext]_boardVars PROVE JobInv'
  OBVIOUS
<1>1. CASE [Next]_vars
  <2>1. Types' /\ OneJobAtATime'
    BY <1>1, TypeStep, LockStep, TypeForm DEF JobInv
  <2>2. OnlyCrashes' => Honest'
    BY <1>1, TypeForm, CrashStep, HonestStep DEF JobInv
  <2>3. \A r \in Run : phase'[r] \in {"new", "checking", "listing", "working"}
                         => outcome'[r] = "none"
    <3> DEFINE Fresh == \A r \in Run :
                 phase[r] \in {"new", "checking", "listing", "working"}
                   => outcome[r] = "none"
    <3> USE DEF JobInv, Types, Move, job
    <3>1. ASSUME NEW r \in Run, Work(r) PROVE Fresh'
      BY <3>1 DEF Work
    <3>2. ASSUME NEW r \in Run,
                 \/ Request(r) \/ RefuseBusy(r) \/ Refuse(r) \/ StartRun(r)
                 \/ ListDone(r) \/ NoSpace(r) \/ ListFails(r) \/ Cancel(r)
                 \/ Progress(r) \/ Finish(r) \/ Tell(r) \/ Unlock(r)
                 \/ Subscribe(r) \/ Receive(r)
          PROVE  /\ outcome' = outcome
                 /\ \/ phase' = phase
                    \/ /\ phase[r] \in {"new", "checking", "listing"}
                       /\ \E p \in Phase : phase' = [phase EXCEPT ![r] = p]
                    \/ \E p \in {"telling", "unlocking", "over"} :
                         phase' = [phase EXCEPT ![r] = p]
      BY <3>2 DEF Request, RefuseBusy, Refuse, StartRun, ListDone, NoSpace, ListFails,
                  Cancel, Progress, Finish, Tell, Unlock, Subscribe, Receive, Phase
    <3>3. ASSUME NEW r \in Run, outcome' = outcome,
                 \/ phase' = phase
                 \/ /\ phase[r] \in {"new", "checking", "listing"}
                    /\ \E p \in Phase : phase' = [phase EXCEPT ![r] = p]
                 \/ \E p \in {"telling", "unlocking", "over"} :
                      phase' = [phase EXCEPT ![r] = p]
          PROVE  Fresh'
      BY <3>3
    <3>4. ASSUME Crash \/ Restart \/ UNCHANGED vars PROVE Fresh'
      BY <3>4 DEF Crash, Restart, vars
    <3> HIDE DEF Fresh
    <3>5. Fresh'
      BY <1>1, <3>1, <3>2, <3>3, <3>4, Steps
    <3>6. QED
      BY <3>5 DEF Fresh
  <2>4. QED
    BY <2>1, <2>2, <2>3 DEF JobInv
<1>2. CASE Leave
  <2> USE DEF JobInv, Types, Leave, Release, NoFault
  <2>1. <<>> \in {q \in Seq(Message) : Len(q) <= Capacity}
    BY LimitAssumption
  <2>2. /\ inbox' \in Inbox /\ phase' \in [Run -> Phase]
        /\ watch' \in [Run -> {"none", "listening", "gone"}]
    BY <1>2, <2>1 DEF Inbox, Phase
  <2>3. Types'
    BY <1>2, <2>2
  <2>4. OneJobAtATime'
    BY <1>2 DEF OneJobAtATime
  <2>5. OnlyCrashes' => Honest'
    BY <1>2 DEF OnlyCrashes, Honest
  <2>6. \A r \in Run : phase'[r] \in {"new", "checking", "listing", "working"}
                         => outcome'[r] = "none"
    BY <1>2
  <2>7. QED
    BY <2>3, <2>4, <2>5, <2>6
<1>3. QED
  BY <1>1, <1>2, BoardStep

(* JobInv holds throughout, so the lock stays exclusive while the process stops. *)
LEMMA JobsOnBoard == BoardSpec => []JobInv
<1>1. BoardInit => JobInv
  BY InitJob DEF BoardInit
<1>2. QED
  BY <1>1, JobStep, PTL DEF BoardSpec

(* The jobs that a stopping process interrupts: its last look at the lock, or the  *)
(* end of its patience, comes before the process leaves, and what starts after it  *)
(* is cut off too.                                                                 *)
StopInv ==
  /\ server = "leaving" => lock \in cutOff \cup {NoRun}
  /\ suffered = {} =>
       \A r \in Run : \/ row[r] = "interrupted"
                      \/ ~up /\ row[r] = "running"
                      => r \in cutOff

(* Every step keeps StopInv. *)
LEMMA StopStep == JobInv /\ StopInv /\ [BoardNext]_boardVars => StopInv'
<1> SUFFICES ASSUME JobInv, StopInv, [BoardNext]_boardVars PROVE StopInv'
  OBVIOUS
<1> USE DEF StopInv, page, stop, board, NoFault
<1>f. ASSUME NEW k, Fault(k) PROVE suffered' # {}
  BY <1>f DEF Fault
<1>1. ASSUME NEW r \in Run, Arrive(r) PROVE StopInv'
  BY <1>1 DEF Arrive, Request, RefuseBusy
<1>2. ASSUME NEW r \in Run, Loud(r) PROVE StopInv'
  <2>1. UNCHANGED <<server, cutOff, lock, up, suffered>>
    BY <1>2 DEF Loud, Cast, StartRun, Progress, Tell
  <2>2. /\ up
        /\ \A q \in Run : row'[q] = "interrupted" => row[q] = "interrupted"
    BY <1>2 DEF Loud, StartRun, Progress, Tell, SetRow, Move, JobInv, Types
  <2>3. QED
    BY <2>1, <2>2
<1>3. ASSUME NEW r \in Run, Quiet(r) \/ (Cancel(r) /\ UNCHANGED board) PROVE StopInv'
  <2>1. up /\ UNCHANGED <<server, cutOff, up>> /\ lock' \in {lock, NoRun}
    BY <1>3 DEF Quiet, Refuse, ListDone, NoSpace, ListFails, Work, Finish, Unlock,
                Cancel, Move, Release
  <2>2. suffered' = {} => suffered = {}
    BY <1>3 DEF Quiet, Refuse, ListDone, NoSpace, ListFails, Work, Finish, Unlock,
                Cancel, Fault
  <2>3. \A q \in Run : row'[q] = "interrupted" => row[q] = "interrupted"
    BY <1>3 DEF Quiet, Refuse, ListDone, NoSpace, ListFails, Work, Finish, Unlock,
                Cancel, SetRow, JobInv, Types
  <2>4. QED
    BY <2>1, <2>2, <2>3
<1>4. CASE Connect \/ Disconnect \/ Hear \/ Fade \/ UNCHANGED boardVars
  BY <1>4 DEF Connect, Disconnect, Hear, Fade, boardVars, vars, job, channel
<1>5. CASE Sigterm \/ Drained \/ QuietSeen \/ QuietTimeout
  BY <1>5 DEF Sigterm, Drained, QuietSeen, QuietTimeout, vars, job, channel
<1>6. CASE Leave
  <2>1. UNCHANGED <<server, cutOff, row, suffered>> /\ lock' = NoRun /\ up
    BY <1>6 DEF Leave, Release
  <2>2. suffered = {} => \A r \in Run : row[r] = "running" => r \in cutOff
    <3>1. ASSUME suffered = {}, NEW r \in Run, row[r] = "running" PROVE lock = r
      BY <2>1, <3>1 DEF JobInv, OnlyCrashes, Honest, OneJobAtATime
    <3>2. server = "leaving"
      BY <1>6 DEF Leave
    <3>3. QED
      BY <3>1, <3>2, RunAssumption
  <2>3. QED
    BY <2>1, <2>2
<1>7. CASE Killed
  BY <1>7, <1>f DEF Killed, Crash, Release
<1>8. CASE Back
  <2>1. suffered' = {} => suffered = {} /\ ~up /\ up'
                          /\ \A r \in Run : row'[r] = "interrupted"
                               => row[r] \in {"running", "interrupted"}
    BY <1>8, <1>f DEF Back, Restart, JobInv, Types
  <2>2. server' # "leaving" /\ cutOff' = cutOff
    BY <1>8 DEF Back
  <2>3. QED
    BY <2>1, <2>2
<1>9. QED
  BY <1>1, <1>2, <1>3, <1>4, <1>5, <1>6, <1>7, <1>8, BoardSteps

(* main.rs:311-315: while nothing else fails, the only runs that a redeploy leaves *)
(* interrupted are those it did not wait for.                                      *)
THEOREM RedeploysWait == BoardSpec => []InterruptedOnlyByForce
<1>1. BoardInit => StopInv
  BY DEF BoardInit, Init, StopInv
<1>2. StopInv => InterruptedOnlyByForce
  BY DEF StopInv, InterruptedOnlyByForce
<1>3. QED
  BY <1>1, <1>2, StopStep, JobsOnBoard, PTL DEF BoardSpec

(* A message fits the jobs when the busy job, if there is one, is the one it names, *)
(* and it does not show a job as running that has ended properly.                   *)
Busy(r) == phase[r] \in {"listing", "working", "finishing", "telling"}

Fits(m) ==
  /\ \A r \in Run : Busy(r) => m.run = r /\ ~m.final
  /\ m.final \/ Busy(m.run) \/ Abandoned(m.run)

(* The last message a socket was sent fits: it is in the queue or on the page. *)
PageInv ==
  /\ queue \in Seq(Message) /\ shown \in Message \cup {Nothing}
  /\ socket \in {"open", "closed"} /\ (socket = "closed" => ~heard)
  /\ fading => shown # Nothing /\ shown.final
  /\ socket = "open" /\ queue # <<>> => Fits(queue[Len(queue)])
  /\ socket = "open" /\ queue = <<>> /\ heard =>
       IF shown = Nothing THEN \A r \in Run : ~Busy(r) ELSE Fits(shown)

(* A step that sends a message that fits. *)
LEMMA CastStep ==
  ASSUME PageInv, NEW m \in Message, Cast(m), Fits(m)'
  PROVE  PageInv'
<1>1. UNCHANGED <<socket, shown, fading, heard>>
  BY DEF Cast
<1>2. queue' \in Seq(Message) /\ (socket = "open" => queue' # <<>> /\ queue'[Len(queue')] = m)
  <2>1. CASE socket = "closed"
    BY <2>1 DEF Cast
  <2>2. ASSUME NEW q \in Seq(Message)
        PROVE  /\ Append(q, m) \in Seq(Message) /\ Append(q, m) # <<>>
               /\ Append(q, m)[Len(Append(q, m))] = m
    BY <2>2
  <2>3. CASE socket # "closed"
    <3>1. PICK q \in Seq(Message) : queue' = Append(q, m)
      <4>1. CASE Len(queue) = Capacity
        <5>1. Tail(queue) \in Seq(Message)
          BY <4>1, LimitAssumption DEF PageInv
        <5>2. QED
          BY <2>3, <4>1, <5>1 DEF Cast
      <4>2. CASE Len(queue) # Capacity
        BY <2>3, <4>2 DEF Cast, PageInv
      <4>3. QED
        BY <4>1, <4>2
    <3>2. QED
      BY <2>2, <3>1
  <2>4. QED
    BY <2>1, <2>3
<1>3. QED
  BY <1>1, <1>2 DEF PageInv

(* A step that sends nothing and after which the same messages fit. *)
LEMMA SilentStep ==
  ASSUME PageInv, UNCHANGED page,
         \A m \in Message : Fits(m) => Fits(m)',
         (\A r \in Run : ~Busy(r)) => \A r \in Run : ~Busy(r)'
  PROVE  PageInv'
<1>1. queue # <<>> => queue[Len(queue)] \in Message
  BY DEF PageInv
<1>2. QED
  BY <1>1 DEF PageInv, page

(* A step of the job, as far as the page can tell. *)
LEMMA MessagesStillFit ==
  ASSUME NEW r \in Run,
         \A q \in Run \ {r} : phase'[q] = phase[q] /\ outcome'[q] = outcome[q],
         Abandoned(r) => Abandoned(r)',
         Busy(r)' => Busy(r),
         Busy(r) => Busy(r)' \/ Abandoned(r)'
  PROVE  /\ \A m \in Message : Fits(m) => Fits(m)'
         /\ (\A q \in Run : ~Busy(q)) => \A q \in Run : ~Busy(q)'
<1>1. \A q \in Run : Busy(q)' => Busy(q)
  BY DEF Busy
<1>2. \A q \in Run : Abandoned(q) => Abandoned(q)'
  BY DEF Abandoned
<1>3. \A q \in Run : Busy(q) => Busy(q)' \/ Abandoned(q)'
  BY DEF Busy
<1>4. \A m \in Message : m.run \in Run
  BY DEF Message
<1> HIDE DEF Busy, Abandoned
<1>5. QED
  BY <1>1, <1>2, <1>3, <1>4 DEF Fits

(* Every step keeps PageInv. *)
LEMMA PageStep == JobInv /\ PageInv /\ [BoardNext]_boardVars => PageInv'
<1> SUFFICES ASSUME JobInv, PageInv, [BoardNext]_boardVars PROVE PageInv'
  OBVIOUS
<1>t. /\ phase \in [Run -> Phase] /\ OneJobAtATime
      /\ outcome \in [Run -> {"none", "succeeded", "failed"}]
      /\ \A r \in Run : phase[r] \in {"new", "checking", "listing", "working"}
                          => outcome[r] = "none"
  BY DEF JobInv, Types
<1>o. ASSUME NEW r \in Run, phase[r] \notin {"new", "over"}, NEW q \in Run, q # r
      PROVE  ~Busy(q)
  BY <1>o, <1>t DEF OneJobAtATime, Busy
<1>1. ASSUME NEW r \in Run, Arrive(r) PROVE PageInv'
  <2>1. /\ outcome' = outcome /\ UNCHANGED page /\ phase[r] = "new"
        /\ \E p \in {"checking", "over"} : phase' = [phase EXCEPT ![r] = p]
    BY <1>1 DEF Arrive, Request, RefuseBusy, Move, board
  <2>2. ~Busy(r) /\ ~Busy(r)' /\ ~Abandoned(r) /\ \A q \in Run \ {r} : phase'[q] = phase[q]
    BY <2>1, <1>t DEF Busy, Abandoned
  <2>3. QED
    BY <2>1, <2>2, MessagesStillFit, SilentStep
<1>2. ASSUME NEW r \in Run, Loud(r) PROVE PageInv'
  <2>1. CASE (StartRun(r) \/ Progress(r)) /\ Cast(Note(r))
    <3>1. PICK m \in Message : m = Note(r)
      BY DEF Note, Message
    <3>2. /\ phase[r] \notin {"new", "over"} /\ Busy(r)'
          /\ \A q \in Run \ {r} : phase'[q] = phase[q]
      BY <2>1, <1>t DEF StartRun, Progress, Move, Busy
    <3>3. \A q \in Run : Busy(q)' => q = r
      BY <3>2, <1>o DEF Busy
    <3>4. Fits(m)'
      BY <3>1, <3>2, <3>3 DEF Fits, Note
    <3>5. QED
      BY <2>1, <3>1, <3>4, CastStep
  <2>2. CASE Tell(r) /\ Cast(Last(r))
    <3>1. PICK m \in Message : m = Last(r)
      BY <1>t DEF Last, Message
    <3>2. /\ phase[r] \notin {"new", "over"} /\ ~Busy(r)'
          /\ \A q \in Run \ {r} : phase'[q] = phase[q]
      BY <2>2, <1>t DEF Tell, Move, Busy
    <3>3. \A q \in Run : ~Busy(q)'
      BY <3>2, <1>o DEF Busy
    <3>4. Fits(m)'
      BY <3>1, <3>3 DEF Fits, Last
    <3>5. QED
      BY <2>2, <3>1, <3>4, CastStep
  <2>3. QED
    BY <1>2, <2>1, <2>2 DEF Loud
<1>3. ASSUME NEW r \in Run, Quiet(r) \/ (Cancel(r) /\ UNCHANGED board) PROVE PageInv'
  <2>1. UNCHANGED page /\ \A q \in Run \ {r} : phase'[q] = phase[q]
    BY <1>3, <1>t DEF Quiet, Refuse, ListDone, NoSpace, ListFails, Work, Finish, Unlock,
                      Cancel, Move, board
  <2>2. CASE Work(r)
    <3>1. /\ phase[r] = "working" /\ phase'[r] = "finishing"
          /\ \A q \in Run \ {r} : outcome'[q] = outcome[q]
      BY <2>2, <1>t DEF Work, Move
    <3>2. QED
      BY <2>1, <3>1, MessagesStillFit, SilentStep DEF Busy, Abandoned
  <2>3. CASE ~Work(r)
    <3>1. /\ outcome' = outcome /\ phase[r] # "over"
          /\ \/ phase'[r] = "over"
             \/ phase[r] = "listing" /\ phase'[r] = "working"
             \/ phase[r] = "finishing" /\ phase'[r] = "telling"
          /\ phase'[r] = "over" => phase[r] \in {"checking", "listing", "unlocking"}
      BY <1>3, <2>3, <1>t DEF Quiet, Refuse, ListDone, NoSpace, ListFails, Finish,
                              Unlock, Cancel, Move, job
    <3>2. ~Abandoned(r) /\ (Busy(r)' => Busy(r)) /\ (Busy(r) => Busy(r)' \/ Abandoned(r)')
      BY <3>1, <1>t DEF Busy, Abandoned
    <3>3. QED
      BY <2>1, <3>1, <3>2, MessagesStillFit, SilentStep
  <2>4. QED
    BY <2>2, <2>3
<1>5. CASE Connect \/ Disconnect
  <2>1. <<>> \in Seq(Message) /\ UNCHANGED <<shown, fading>> /\ queue' = <<>> /\ ~heard'
        /\ socket' \in {"open", "closed"}
    BY <1>5 DEF Connect, Disconnect, HangUp, PageInv
  <2>2. QED
    BY <2>1 DEF PageInv
<1>6. CASE Hear
  <2>1. /\ socket = "open" /\ queue \in Seq(Message) /\ queue # <<>>
        /\ shown' = Head(queue) /\ queue' = Tail(queue)
        /\ fading' = Head(queue).final /\ UNCHANGED <<vars, socket>>
    BY <1>6 DEF Hear, PageInv
  <2>2. Head(queue) \in Message /\ Tail(queue) \in Seq(Message)
    BY <2>1
  <2>3. CASE Tail(queue) = <<>>
    <3>1. queue[Len(queue)] = Head(queue)
      <4>1. Len(Tail(queue)) = Len(queue) - 1 /\ Len(queue) \in Nat
        BY <2>1
      <4>2. Len(Tail(queue)) = 0
        <5>1. \A t : t = <<>> => Len(t) = 0
          OBVIOUS
        <5>2. QED
          BY <2>3, <5>1, Zenon
      <4>3. Len(queue) = 1
        BY <4>1, <4>2
      <4>4. QED
        BY <2>1, <4>3
    <3>2. Fits(Head(queue))
      BY <2>1, <3>1 DEF PageInv
    <3>3. Fits(shown)'
      BY <2>1, <3>2 DEF vars, job, Fits, Busy, Abandoned
    <3>4. QED
      BY <2>1, <2>2, <2>3, <3>3, NothingAssumption DEF PageInv
  <2>4. CASE Tail(queue) # <<>>
    <3>1. Tail(queue)[Len(Tail(queue))] = queue[Len(queue)]
      BY <2>1, <2>4
    <3>2. Fits(queue[Len(queue)])
      BY <2>1 DEF PageInv
    <3>3. Fits(queue[Len(queue)])'
      BY <2>1, <3>1, <3>2 DEF vars, job, Fits, Busy, Abandoned
    <3>4. QED
      BY <2>1, <2>2, <2>4, <3>3, NothingAssumption DEF PageInv
  <2>5. QED
    BY <2>3, <2>4
<1>7. CASE Fade
  <2>1. /\ shown # Nothing /\ shown.final /\ shown' = Nothing /\ ~fading'
        /\ UNCHANGED <<vars, socket, queue, heard>>
    BY <1>7 DEF Fade, PageInv
  <2>2. ASSUME socket = "open", queue = <<>>, heard PROVE \A r \in Run : ~Busy(r)'
    <3>1. Fits(shown)
      BY <2>1, <2>2 DEF PageInv
    <3>2. \A r \in Run : ~Busy(r)
      BY <2>1, <3>1 DEF Fits
    <3>3. QED
      BY <2>1, <3>2 DEF Busy, vars, job
  <2>3. queue # <<>> => (Fits(queue[Len(queue)]) => Fits(queue[Len(queue)])')
    BY <2>1 DEF vars, job, Fits, Busy, Abandoned
  <2>4. QED
    BY <2>1, <2>2, <2>3 DEF PageInv
<1>8. CASE Sigterm \/ Drained \/ QuietSeen \/ QuietTimeout \/ UNCHANGED boardVars
  <2>1. UNCHANGED <<vars, page>>
    BY <1>8 DEF Sigterm, Drained, QuietSeen, QuietTimeout, boardVars, board
  <2>2. (\A m \in Message : Fits(m) => Fits(m)') /\ (\A r \in Run : Busy(r)' = Busy(r))
    BY <2>1 DEF vars, job, Fits, Busy, Abandoned
  <2>3. QED
    BY <2>1, <2>2, SilentStep
<1>9. CASE Leave \/ Killed
  <2>1. <<>> \in Seq(Message) /\ UNCHANGED <<shown, fading>> /\ queue' = <<>> /\ ~heard'
        /\ socket' = "closed"
    BY <1>9 DEF Leave, Killed, HangUp
  <2>2. QED
    BY <2>1 DEF PageInv
<1>10. CASE Back
  <2>1. UNCHANGED <<job, page>>
    BY <1>10 DEF Back, Restart
  <2>2. (\A m \in Message : Fits(m) => Fits(m)') /\ (\A r \in Run : Busy(r)' = Busy(r))
    BY <2>1 DEF job, Fits, Busy, Abandoned
  <2>3. QED
    BY <2>1, <2>2, SilentStep
<1>11. QED
  BY <1>1, <1>2, <1>3, <1>5, <1>6, <1>7, <1>8, <1>9, <1>10, BoardSteps

(* progress.tsx:14-21: the page that has received everything its socket was sent   *)
(* agrees with the server, whatever is dropped, cancelled or killed.               *)
THEOREM PagesAgree == BoardSpec => []PageAgrees
<1>1. BoardInit => PageInv
  BY DEF BoardInit, PageInv
<1>2. JobInv /\ PageInv => PageAgrees
  <2> SUFFICES ASSUME JobInv, PageInv, socket = "open", heard, queue = <<>>
               PROVE  /\ \A r \in Run :
                           lock = r /\ phase[r] \in {"listing", "working", "finishing", "telling"}
                             => shown # Nothing /\ shown.run = r /\ ~shown.final
                      /\ shown # Nothing =>
                           shown.final \/ lock = shown.run \/ Abandoned(shown.run)
    BY Zenon DEF PageAgrees
  <2>1. CASE shown = Nothing
    BY <2>1 DEF PageInv, Busy
  <2>2. CASE shown # Nothing
    <3>1. Fits(shown) /\ shown.run \in Run
      BY <2>2 DEF PageInv, Message
    <3>2. Busy(shown.run) => lock = shown.run
      BY <3>1 DEF JobInv, OneJobAtATime, Busy
    <3>3. QED
      BY <2>2, <3>1, <3>2 DEF Fits, Busy
  <2>3. QED
    BY <2>1, <2>2
<1>3. QED
  BY <1>1, <1>2, PageStep, JobsOnBoard, PTL DEF BoardSpec

=============================================================================
