-------------------------- MODULE EventIndexProofs --------------------------
(* Theorems about EventIndex (types, and what becomes of the saved settings), and about
   Setup (types, what has been confirmed, and what a sync finds). *)
EXTENDS EventIndex, Setup, SequenceTheorems, FiniteSetTheorems, WellFoundedInduction, TLAPS

\* The words of the fault kinds and steps are all the tables need.
USE DEF Row, Age, Status, Step, Ids, Setting, Default, Blank, Fresh, AllFaults

-----------------------------------------------------------------------------
(* Types *)

\* What Goto leaves behind: one task has moved, from the step named to the step named.
LEMMA GotoStep ==
  ASSUME pc \in [Task -> Step], NEW t \in Task, NEW from, NEW to \in Step,
         Goto(t, from, to)
  PROVE  /\ pc[t] = from /\ pc' \in [Task -> Step]
         /\ pc'[t] = to /\ \A u \in Task \ {t} : pc'[u] = pc[u]
BY DEF Goto

\* A fault is counted and its kind remembered; no kind is forgotten.
LEMMA FaultStep ==
  ASSUME TypeOK, NEW f, Fault(f) \/ NoFault
  PROVE  /\ faults' \in 0..MaxFaults /\ suffered' \subseteq FaultKinds
         /\ suffered \subseteq suffered'
BY LimitsAssumption DEF TypeOK, Fault, NoFault

\* The status of an event is one that ClipStatus has.
LEMMA ClassifyStatus ==
  ASSUME NEW row \in Row, NEW years, NEW there, NEW known
  PROVE  Classify(row, years, there, known) \in Status
BY DEF Classify

\* A task that has its container back goes on to read only with complete settings.
LEMMA ResolveStep ==
  ASSUME TypeOK, NEW t \in Task, NEW from, NEW c \in Ids, Resolve(t, from, c),
         mine' = mine
  PROVE  /\ pc[t] = from /\ pc' \in [Task -> Step] /\ pc'[t] \in {"reading", "idle"}
         /\ \A u \in Task \ {t} : pc'[u] = pc[u] /\ copy'[u] = copy[u]
         /\ copy' \in [Task -> Setting] /\ found' \in [Task -> Ids]
         /\ \A u \in Task : pc'[u] \in {"reading", "looking", "writing"} => mine'[u].complete
<1>1. Default \in Setting  BY LimitsAssumption
<1> QED  BY <1>1 DEF TypeOK, Resolve, Goto

\* What current_container works with is the settings as they are, or the default.
LEMMA LoadStep ==
  ASSUME TypeOK, NEW t \in Task, LoadCopy(t)
  PROVE  /\ pc[t] = "idle" /\ pc' \in [Task -> Step] /\ copy' \in [Task -> Setting]
         /\ copy'[t] \in {settings, Default}
         /\ pc'[t] \in {"asking", "discovering"}
         /\ pc'[t] = "discovering" => copy'[t].cid = NoContainer
         /\ \A u \in Task \ {t} : pc'[u] = pc[u] /\ copy'[u] = copy[u]
         /\ faults' \in 0..MaxFaults /\ suffered' \subseteq FaultKinds
         /\ suffered \subseteq suffered'
<1>1. Default \in Setting  BY LimitsAssumption
<1>2. PICK s \in {settings, Default} :
        /\ \/ s = settings /\ NoFault
           \/ s = Default /\ Fault("db")
        /\ copy' = [copy EXCEPT ![t] = s]
        /\ Goto(t, "idle", IF s.cid = NoContainer THEN "discovering" ELSE "asking")
  BY DEF LoadCopy
<1>3. s \in Setting  BY <1>1, <1>2 DEF TypeOK
<1>4. /\ faults' \in 0..MaxFaults /\ suffered' \subseteq FaultKinds
      /\ suffered \subseteq suffered'
  BY <1>2, FaultStep
<1> QED  BY <1>2, <1>3, <1>4 DEF TypeOK, Goto

\* The first state has the types.
LEMMA TypeInit == Init => TypeOK
<1> SUFFICES ASSUME Init PROVE TypeOK  OBVIOUS
<1>1. PICK s \in Start :
        /\ up = s.up /\ exists = s.exists
        /\ settings = [edit |-> 0, cid |-> s.picked, complete |-> TRUE]
  BY DEF Init
<1>2. settings \in Setting /\ saved \in Setting /\ Default \in Setting
  BY <1>1, StartAssumption, LimitsAssumption DEF Init
<1>3. /\ up \in [Event -> Row] /\ exists \subseteq Container
      /\ disk \subseteq Event /\ index \in [Event -> Status] /\ age \in [Event -> Age]
  BY <1>1, StartAssumption DEF Init
<1>4. gone = {} /\ raced = {} /\ built = 0 /\ failed = FALSE
      /\ moves = 0 /\ faults = 0 /\ suffered = {} /\ built \in 0..MaxSaves
      /\ moves \in 0..MaxMoves /\ faults \in 0..MaxFaults
  BY LimitsAssumption DEF Init
<1>5. /\ pc \in [Task -> Step] /\ \A t \in Task : pc[t] = "idle"
      /\ mine \in [Task -> Setting] /\ copy \in [Task -> Setting] /\ found \in [Task -> Ids]
      /\ rows \in [Task -> [Event -> Row]] /\ then \in [Task -> [Event -> Age]]
      /\ recs \in [Task -> [Event -> Status]]
  BY <1>2 DEF Init
<1> QED  BY <1>2, <1>3, <1>4, <1>5 DEF TypeOK

\* A task that ends lets go of everything it had read.
LEMMA ForgetStep ==
  ASSUME TypeOK, NEW t \in Task, Forget(t)
  PROVE  /\ mine' \in [Task -> Setting] /\ copy' \in [Task -> Setting]
         /\ found' \in [Task -> Ids] /\ rows' \in [Task -> [Event -> Row]]
         /\ recs' \in [Task -> [Event -> Status]] /\ then' \in [Task -> [Event -> Age]]
         /\ \A u \in Task \ {t} : mine'[u] = mine[u] /\ copy'[u] = copy[u]
<1>1. Default \in Setting  BY LimitsAssumption
<1> QED  BY <1>1 DEF TypeOK, Forget

\* The steps of syncs and of current_container keep the types.
LEMMA TypeTask ==
  ASSUME TypeOK, NEW t \in Task, StartSync(t) \/ StartLook(t) \/ TaskStep(t)
  PROVE  TypeOK'
<1>1. CASE StartSync(t)
  <2>1. CASE settings.complete /\ LoadCopy(t) /\ mine' = [mine EXCEPT ![t] = settings]
    BY <1>1, <2>1, LoadStep DEF TypeOK, StartSync, world, stored, user
  <2>2. CASE /\ Goto(t, "idle", "failing") /\ UNCHANGED <<mine, copy>>
             /\ NoFault \/ Fault("db")
    <3>1. faults' \in 0..MaxFaults /\ suffered' \subseteq FaultKinds
      BY <2>2, FaultStep
    <3> QED  BY <1>1, <2>2, <3>1 DEF TypeOK, StartSync, Goto, world, stored, user
  <2> QED  BY <1>1, <2>1, <2>2 DEF StartSync
<1>2. CASE StartLook(t)
  BY <1>2, LoadStep DEF TypeOK, StartLook, world, stored, user
<1>3. CASE Ask(t)
  <2>1. faults' \in 0..MaxFaults /\ suffered' \subseteq FaultKinds
    BY <1>3, FaultStep DEF Ask
  <2>2. CASE copy[t].cid \in exists /\ Resolve(t, "asking", copy[t].cid)
    <3>1. copy[t].cid \in Ids  BY DEF TypeOK
    <3> QED  BY <1>3, <2>1, <2>2, <3>1, ResolveStep DEF TypeOK, Ask, world, stored, user
  <2>3. CASE Goto(t, "asking", "discovering") /\ UNCHANGED <<found, copy>>
    BY <1>3, <2>1, <2>3 DEF TypeOK, Ask, Goto, world, stored, user
  <2> QED  BY <1>3, <2>2, <2>3 DEF Ask
<1>4. CASE Discover(t)
  <2>1. faults' \in 0..MaxFaults /\ suffered' \subseteq FaultKinds
    BY <1>4, FaultStep DEF Discover
  <2>2. ASSUME NEW c \in Ids, Resolve(t, "discovering", c)
        PROVE  TypeOK'
    BY <1>4, <2>1, <2>2, ResolveStep DEF TypeOK, Discover, world, stored, user
  <2>3. ASSUME NEW c \in exists,
               Goto(t, "discovering", "saving"), Learn(t, c), UNCHANGED copy
        PROVE  TypeOK'
    BY <1>4, <2>1, <2>3 DEF TypeOK, Discover, Goto, Learn, world, stored, user
  <2>4. exists \subseteq Ids /\ NoContainer \in Ids  BY DEF TypeOK
  <2> QED  BY <1>4, <2>2, <2>3, <2>4 DEF Discover
<1>5. CASE SaveId(t)
  <2>1. faults' \in 0..MaxFaults /\ suffered' \subseteq FaultKinds
    BY <1>5, FaultStep DEF SaveId
  <2>2. found[t] \in Ids  BY DEF TypeOK
  <2>3. settings' \in Setting  BY <1>5, <2>2 DEF TypeOK, SaveId
  <2> QED  BY <1>5, <2>1, <2>2, <2>3, ResolveStep DEF TypeOK, SaveId, world, stored, user
<1>6. CASE ReadUpstream(t)
  <2>1. faults' \in 0..MaxFaults /\ suffered' \subseteq FaultKinds
    BY <1>6, FaultStep DEF ReadUpstream
  <2>2. rows' \in [Task -> [Event -> Row]] /\ then' \in [Task -> [Event -> Age]]
    <3>1. \/ rows' = rows /\ then' = then
          \/ rows' = [rows EXCEPT ![t] = up] /\ then' = [then EXCEPT ![t] = age]
      BY <1>6 DEF ReadUpstream
    <3>2. up \in [Event -> Row] /\ age \in [Event -> Age]  BY DEF TypeOK
    <3>3. rows \in [Task -> [Event -> Row]] /\ then \in [Task -> [Event -> Age]]
      BY DEF TypeOK
    <3> QED  BY <3>1, <3>2, <3>3
  <2>3. /\ pc' \in [Task -> Step]
        /\ \A u \in Task : pc'[u] \in {"reading", "looking", "writing"} => mine[u].complete
    <3>1. /\ pc[t] = "reading" /\ pc' \in [Task -> Step]
          /\ \A u \in Task \ {t} : pc'[u] = pc[u]
      BY <1>6, GotoStep DEF TypeOK, ReadUpstream
    <3> SUFFICES ASSUME NEW u \in Task, pc'[u] \in {"reading", "looking", "writing"}
                 PROVE  mine[u].complete
      BY <3>1
    <3>2. pc[u] \in {"reading", "looking", "writing"}  BY <3>1
    <3> QED  BY <3>2 DEF TypeOK
  <2> QED  BY <1>6, <2>1, <2>2, <2>3 DEF TypeOK, ReadUpstream, world, stored, user
<1>7. CASE LookForClips(t)
  <2>1. faults' \in 0..MaxFaults /\ suffered' \subseteq FaultKinds
    BY <1>7, FaultStep DEF LookForClips
  <2>2. [e \in Event |-> Classify(rows[t][e], then[t][e], e \in disk,
                                  found[t] # NoContainer)] \in [Event -> Status]
    <3>1. \A e \in Event : rows[t][e] \in Row  BY DEF TypeOK
    <3> QED  BY <3>1, ClassifyStatus
  <2>3. recs' \in [Task -> [Event -> Status]]  BY <1>7, <2>2 DEF TypeOK, LookForClips
  <2> QED  BY <1>7, <2>1, <2>3 DEF TypeOK, LookForClips, Goto, Learn, world, stored, user
<1>8. CASE WriteIndex(t)
  <2>1. faults' \in 0..MaxFaults /\ suffered' \subseteq FaultKinds
    BY <1>8, FaultStep DEF WriteIndex
  <2>2. CASE /\ Goto(t, "writing", "idle") /\ Forget(t)
             /\ index' = recs[t] /\ built' = mine[t].edit /\ failed' = FALSE
    <3>1. /\ pc' \in [Task -> Step] /\ pc'[t] = "idle"
          /\ \A u \in Task \ {t} : pc'[u] = pc[u]
      BY <2>2, GotoStep DEF TypeOK
    <3>2. index' \in [Event -> Status] /\ built' \in 0..MaxSaves /\ failed' \in BOOLEAN
      BY <2>2 DEF TypeOK
    <3>3. \A u \in Task : pc'[u] \in {"reading", "looking", "writing"} => mine'[u].complete
      <4> SUFFICES ASSUME NEW u \in Task, pc'[u] \in {"reading", "looking", "writing"}
                   PROVE  mine'[u].complete
        OBVIOUS
      <4>1. u # t /\ pc'[u] = pc[u]  BY <3>1
      <4>2. mine'[u] = mine[u]  BY <2>2, <4>1, ForgetStep
      <4> QED  BY <4>1, <4>2 DEF TypeOK
    <3> QED  BY <1>8, <2>1, <2>2, <3>1, <3>2, <3>3, ForgetStep
             DEF TypeOK, WriteIndex, world, user
  <2>3. CASE Goto(t, "writing", "failing") /\ UNCHANGED <<stored, locals>>
    BY <1>8, <2>1, <2>3 DEF TypeOK, WriteIndex, Goto, world, stored, locals, user
  <2> QED  BY <1>8, <2>2, <2>3 DEF WriteIndex
<1>9. CASE RecordError(t)
  <2>1. faults' \in 0..MaxFaults /\ suffered' \subseteq FaultKinds
    BY <1>9, FaultStep DEF RecordError
  <2>2. /\ pc' \in [Task -> Step] /\ pc'[t] = "idle"
        /\ \A u \in Task \ {t} : pc'[u] = pc[u]
    BY <1>9, GotoStep DEF TypeOK, RecordError
  <2>3. failed' \in BOOLEAN  BY <1>9 DEF TypeOK, RecordError
  <2>4. \A u \in Task : pc'[u] \in {"reading", "looking", "writing"} => mine'[u].complete
    <3> SUFFICES ASSUME NEW u \in Task, pc'[u] \in {"reading", "looking", "writing"}
                 PROVE  mine'[u].complete
      OBVIOUS
    <3>1. u # t /\ pc'[u] = pc[u]  BY <2>2
    <3>2. mine'[u] = mine[u]  BY <1>9, <3>1, ForgetStep DEF RecordError
    <3> QED  BY <3>1, <3>2 DEF TypeOK
  <2> QED  BY <1>9, <2>1, <2>2, <2>3, <2>4, ForgetStep
           DEF TypeOK, RecordError, world, user
<1> QED  BY <1>1, <1>2, <1>3, <1>4, <1>5, <1>6, <1>7, <1>8, <1>9 DEF TaskStep

\* So do users and the surroundings.
LEMMA TypeRest ==
  ASSUME TypeOK,
         \/ Save \/ Recreate \/ Crash \/ UNCHANGED vars
         \/ \E e \in Event : Record(e) \/ Download(e) \/ Prune(e) \/ Leave(e)
                             \/ GrowOlder(e)
  PROVE  TypeOK'
<1>1. CASE Save
  <2>1. settings' \in Setting /\ saved' \in Setting /\ raced' \subseteq 1..MaxSaves
    <3>1. PICK cid \in exists \cup gone \cup {NoContainer}, complete \in BOOLEAN :
            settings' = [edit |-> saved.edit + 1, cid |-> cid, complete |-> complete]
      BY <1>1 DEF Save
    <3>2. saved.edit \in 0..MaxSaves /\ saved.edit < MaxSaves /\ MaxSaves \in Nat
      BY <1>1, LimitsAssumption DEF TypeOK, Save
    <3>3. saved.edit + 1 \in 1..MaxSaves  BY <3>2
    <3>4. settings' \in Setting  BY <3>1, <3>3 DEF TypeOK
    <3> QED  BY <1>1, <3>3, <3>4 DEF TypeOK, Save
  <2> QED  BY <1>1, <2>1 DEF TypeOK, Save, NoFault, world, stored, locals
<1>2. CASE Recreate
  BY <1>2, LimitsAssumption
  DEF TypeOK, Recreate, Move, NoFault, stored, locals, user
<1>3. CASE Crash
  <2>1. faults' \in 0..MaxFaults /\ suffered' \subseteq FaultKinds
    BY <1>3, FaultStep DEF Crash
  <2>2. Default \in Setting  BY LimitsAssumption
  <2> QED  BY <1>3, <2>1, <2>2 DEF TypeOK, Crash, world, stored, user
<1>4. CASE UNCHANGED vars
  BY <1>4 DEF TypeOK, vars, world, stored, locals, user
<1>5. ASSUME NEW e \in Event,
             Record(e) \/ Download(e) \/ Prune(e) \/ Leave(e) \/ GrowOlder(e)
      PROVE  TypeOK'
  <2>1. up' \in [Event -> Row] /\ age' \in [Event -> Age] /\ disk' \subseteq Event
    BY <1>5 DEF TypeOK, Record, Download, Prune, Leave, GrowOlder
  <2>2. UNCHANGED <<exists, gone, settings, stored, pc, locals, user, faults, suffered>>
        /\ moves' \in 0..MaxMoves
    BY <1>5, LimitsAssumption
    DEF TypeOK, Record, Download, Prune, Leave, GrowOlder, Move, NoFault
  <2> QED  BY <2>1, <2>2 DEF TypeOK, stored, locals, user
<1> QED  BY <1>1, <1>2, <1>3, <1>4, <1>5

\* The type invariant, for any events, containers, tasks, users and faults: an index is
\* only ever built from complete settings.
THEOREM IndexTyped == Spec => []TypeOK
<1>1. TypeOK /\ [Next]_vars => TypeOK'  BY TypeTask, TypeRest DEF Next
<1> QED  BY TypeInit, <1>1, PTL DEF Spec

-----------------------------------------------------------------------------
(* What becomes of the saved settings *)

\* Why the container a user picked may have been replaced.
Excused == saved.cid \in gone \/ "docker" \in suffered \/ saved.edit \in raced

Known == exists \cup gone \cup {NoContainer}

\* What a task may know and do: the copy it holds is what the user saved, or names no
\* container and will not be written back, or the save raced with it; and it only looks
\* for another container when the one it knew is excused.
Sound(t) ==
  /\ copy[t].cid \in Known /\ found[t] \in Known
  /\ HoldsCopy(t) => /\ \/ copy[t].cid = NoContainer \/ saved.edit \in raced
                        \/ copy[t].edit = saved.edit /\ copy[t].complete = saved.complete
                     /\ copy[t].cid \in {NoContainer, saved.cid} \/ Excused
  /\ pc[t] = "discovering" => copy[t].cid = NoContainer \/ Excused
  /\ pc[t] = "saving" => copy[t].cid # NoContainer /\ Excused

\* The two properties are not inductive by themselves: what a task writes back is the
\* copy it loaded, several steps before.
SaveInv ==
  /\ SaveStandsUnlessRaced /\ PickStands
  /\ settings.cid \in Known
  /\ \A t \in Task : Sound(t)

\* A task that does nothing stays sound while the world goes on.
LEMMA SoundStays ==
  ASSUME NEW u \in Task, Sound(u), saved' = saved, raced' = raced,
         gone \subseteq gone', suffered \subseteq suffered', Known \subseteq Known',
         pc'[u] = pc[u], copy'[u] = copy[u], found'[u] = found[u]
  PROVE  Sound(u)'
BY DEF Sound, HoldsCopy, Excused

\* A task that holds no copy is sound.
LEMMA RestSound ==
  ASSUME NEW t \in Task, ~HoldsCopy(t)', copy'[t].cid \in Known', found'[t] \in Known'
  PROVE  Sound(t)'
BY DEF Sound, HoldsCopy

\* A step of one task, which leaves the settings alone, needs to be looked at for that
\* task only.
LEMMA OneTask ==
  ASSUME SaveInv, NEW t \in Task, Sound(t)',
         UNCHANGED <<saved, raced, gone, exists, settings>>, suffered \subseteq suffered',
         \A u \in Task \ {t} : pc'[u] = pc[u] /\ copy'[u] = copy[u] /\ found'[u] = found[u]
  PROVE  SaveInv'
<1>1. Known' = Known  BY DEF Known
<1>2. \A u \in Task \ {t} : Sound(u)'  BY <1>1, SoundStays DEF SaveInv
<1>3. SaveStandsUnlessRaced' /\ PickStands'
  BY DEF SaveInv, SaveStandsUnlessRaced, PickStands
<1> QED  BY <1>1, <1>2, <1>3 DEF SaveInv

\* No task holds a copy at the start.
LEMMA SaveInit == Init => SaveInv
<1> SUFFICES ASSUME Init PROVE SaveInv  OBVIOUS
<1>1. settings.cid \in Known /\ saved = settings  BY StartAssumption DEF Init, Known
<1>2. \A t \in Task : Sound(t)  BY DEF Init, Sound, HoldsCopy, Known
<1> QED  BY <1>1, <1>2 DEF SaveInv, SaveStandsUnlessRaced, PickStands

\* Loading: the settings as they are, or the default, which names no container.
LEMMA LoadSound ==
  ASSUME TypeOK, SaveInv, NEW t \in Task, LoadCopy(t),
         UNCHANGED <<world, settings, user, found>>
  PROVE  SaveInv'
<1>1. UNCHANGED <<saved, raced, gone, exists, settings>>  BY DEF world, user
<1>2. Known' = Known /\ NoContainer \in Known  BY <1>1 DEF Known
<1>3. copy'[t].cid \in Known'  BY <1>2, LoadStep DEF SaveInv
<1>4. /\ copy'[t].cid = NoContainer \/ copy'[t] = settings
      /\ pc'[t] \in {"asking", "discovering"}
      /\ pc'[t] = "discovering" => copy'[t].cid = NoContainer
      /\ suffered \subseteq suffered'
  BY LoadStep
<1>5. settings.cid = saved.cid \/ Excused  BY DEF SaveInv, PickStands, Excused
<1>6. Excused => Excused'  BY <1>1, <1>4 DEF Excused
<1>7. Sound(t)'
  BY <1>1, <1>2, <1>3, <1>4, <1>5, <1>6 DEF Sound, HoldsCopy, SaveInv, SaveStandsUnlessRaced
<1> QED  BY <1>1, <1>4, <1>7, OneTask, LoadStep

\* A task whose answer is a container that is known lets go of its copy.
LEMMA ResolveSound ==
  ASSUME TypeOK, SaveInv, NEW t \in Task, NEW from, NEW c \in Known,
         Resolve(t, from, c), UNCHANGED <<world, settings, user, mine>>,
         suffered \subseteq suffered'
  PROVE  SaveInv'
<1>1. UNCHANGED <<saved, raced, gone, exists, settings>>  BY DEF world, user
<1>2. Known' = Known /\ NoContainer \in Known /\ c \in Ids
  BY <1>1 DEF Known, TypeOK
<1>3. /\ pc'[t] \in {"reading", "idle"}
      /\ \A u \in Task \ {t} : pc'[u] = pc[u] /\ copy'[u] = copy[u]
  BY <1>2, ResolveStep
<1>4. copy'[t].cid = NoContainer /\ found'[t] \in {c, NoContainer}
      /\ \A u \in Task \ {t} : found'[u] = found[u]
  BY DEF Resolve, TypeOK
<1>5. Sound(t)'  BY <1>2, <1>3, <1>4, RestSound DEF HoldsCopy
<1> QED  BY <1>1, <1>3, <1>4, <1>5, OneTask

\* The steps of syncs and of current_container: only SaveId writes the settings.
LEMMA SaveTask ==
  ASSUME TypeOK, SaveInv, NEW t \in Task, StartSync(t) \/ StartLook(t) \/ TaskStep(t)
  PROVE  SaveInv'
<1> DEFINE Stays == UNCHANGED <<saved, raced, gone, exists, settings>>
<1>n. NoContainer \in Known /\ exists \subseteq Known /\ Sound(t)
  BY DEF Known, SaveInv
<1>r. ASSUME Stays, suffered \subseteq suffered', ~HoldsCopy(t)',
             copy'[t].cid \in Known, found'[t] \in Known,
             \A u \in Task \ {t} :
               pc'[u] = pc[u] /\ copy'[u] = copy[u] /\ found'[u] = found[u]
      PROVE  SaveInv'
  <2>1. Known' = Known  BY <1>r DEF Known
  <2>2. Sound(t)'  BY <1>r, <2>1, RestSound
  <2> QED  BY <1>r, <2>2, OneTask
<1>1. CASE StartSync(t)
  <2>1. CASE LoadCopy(t)
    BY <1>1, <2>1, LoadSound DEF StartSync
  <2>2. CASE Goto(t, "idle", "failing") /\ UNCHANGED copy /\ (NoFault \/ Fault("db"))
    <3>1. suffered \subseteq suffered'  BY <2>2, FaultStep
    <3>2. ~HoldsCopy(t)' /\ \A u \in Task \ {t} : pc'[u] = pc[u]
      BY <2>2, GotoStep DEF HoldsCopy, TypeOK
    <3> QED  BY <1>1, <1>n, <2>2, <3>1, <3>2, <1>r DEF StartSync, world, user, Sound
  <2> QED  BY <1>1, <2>1, <2>2 DEF StartSync
<1>2. CASE StartLook(t)
  BY <1>2, LoadSound DEF StartLook
<1>3. CASE Ask(t)
  <2>1. suffered \subseteq suffered'  BY <1>3, FaultStep DEF Ask
  <2>2. CASE copy[t].cid \in exists /\ Resolve(t, "asking", copy[t].cid)
    BY <1>3, <1>n, <2>1, <2>2, ResolveSound DEF Ask
  <2>3. CASE /\ Goto(t, "asking", "discovering") /\ UNCHANGED <<found, copy>>
             /\ copy[t].cid \notin exists \/ Fault("docker")
    <3>1. Stays  BY <1>3 DEF Ask, world, user
    <3>2. pc[t] = "asking" /\ pc'[t] = "discovering"
          /\ \A u \in Task \ {t} : pc'[u] = pc[u]
      BY <2>3, GotoStep DEF TypeOK
    <3>3. copy[t].cid = NoContainer \/ Excused'
      <4>1. copy[t].cid \in {NoContainer, saved.cid} \/ Excused
        BY <1>n, <3>2 DEF Sound, HoldsCopy
      <4>2. copy[t].cid \in exists \cup gone \cup {NoContainer}
        BY <1>n DEF Sound, Known
      <4>3. Fault("docker") => "docker" \in suffered'  BY DEF Fault
      <4> QED  BY <2>1, <2>3, <3>1, <4>1, <4>2, <4>3 DEF Excused
    <3>4. Known' = Known  BY <3>1 DEF Known
    <3>5. Sound(t)'
      BY <1>n, <2>1, <2>3, <3>1, <3>2, <3>3, <3>4 DEF Sound, HoldsCopy
    <3> QED  BY <2>1, <2>3, <3>1, <3>2, <3>5, OneTask
  <2> QED  BY <1>3, <2>2, <2>3 DEF Ask
<1>4. CASE Discover(t)
  <2>1. suffered \subseteq suffered'  BY <1>4, FaultStep DEF Discover
  <2>2. ASSUME NEW c \in Known, Resolve(t, "discovering", c)
        PROVE  SaveInv'
    BY <1>4, <2>1, <2>2, ResolveSound DEF Discover
  <2>3. ASSUME NEW c \in exists, copy[t].cid \notin {NoContainer, c},
               Goto(t, "discovering", "saving"), Learn(t, c), UNCHANGED copy
        PROVE  SaveInv'
    <3>1. Stays  BY <1>4 DEF Discover, world, user
    <3>2. pc[t] = "discovering" /\ pc'[t] = "saving"
          /\ \A u \in Task \ {t} : pc'[u] = pc[u]
      BY <2>3, GotoStep DEF TypeOK
    <3>3. found'[t] = c /\ \A u \in Task \ {t} : found'[u] = found[u]
      BY <2>3 DEF Learn, TypeOK
    <3>4. Known' = Known  BY <3>1 DEF Known
    <3>5. Excused => Excused'  BY <2>1, <3>1 DEF Excused
    <3>6. Sound(t)'
      BY <1>n, <2>3, <3>1, <3>2, <3>3, <3>4, <3>5 DEF Sound, HoldsCopy
    <3> QED  BY <2>1, <2>3, <3>1, <3>2, <3>3, <3>6, OneTask
  <2> QED  BY <1>4, <1>n, <2>2, <2>3 DEF Discover
<1>5. CASE SaveId(t)
  <2>1. suffered \subseteq suffered'  BY <1>5, FaultStep DEF SaveId
  <2>2. CASE UNCHANGED settings
    <3>1. found[t] \in Known  BY <1>n DEF Sound
    <3> QED  BY <1>5, <2>1, <2>2, <3>1, ResolveSound DEF SaveId
  <2>3. CASE settings' = [copy[t] EXCEPT !.cid = found[t]]
    <3>1. UNCHANGED <<saved, raced, gone, exists>>  BY <1>5 DEF SaveId, world, user
    <3>2. Known' = Known  BY <3>1 DEF Known
    <3>3. pc[t] = "saving" /\ found[t] \in Ids
      BY <1>5 DEF SaveId, Resolve, Goto, TypeOK
    <3>4. /\ copy[t].cid # NoContainer /\ Excused /\ found[t] \in Known
          /\ \/ saved.edit \in raced
             \/ copy[t].edit = saved.edit /\ copy[t].complete = saved.complete
      BY <1>n, <3>3 DEF Sound, HoldsCopy
    <3>5. /\ settings'.cid = found[t] /\ settings'.edit = copy[t].edit
          /\ settings'.complete = copy[t].complete
      BY <2>3 DEF TypeOK
    <3>6. SaveStandsUnlessRaced'  BY <3>1, <3>4, <3>5 DEF SaveStandsUnlessRaced
    <3>7. PickStands'  BY <2>1, <3>1, <3>4 DEF PickStands, Excused
    <3>8. /\ pc'[t] \in {"reading", "idle"}
          /\ \A u \in Task \ {t} : pc'[u] = pc[u] /\ copy'[u] = copy[u]
      BY <1>5, <3>3, ResolveStep DEF SaveId
    <3>9. copy'[t].cid = NoContainer /\ found'[t] \in {found[t], NoContainer}
          /\ \A u \in Task \ {t} : found'[u] = found[u]
      BY <1>5 DEF SaveId, Resolve, TypeOK
    <3>10. Sound(t)'  BY <1>n, <3>2, <3>4, <3>8, <3>9, RestSound DEF HoldsCopy
    <3>11. \A u \in Task \ {t} : Sound(u)'
      BY <2>1, <3>1, <3>2, <3>8, <3>9, SoundStays DEF SaveInv
    <3> QED  BY <3>2, <3>4, <3>5, <3>6, <3>7, <3>10, <3>11 DEF SaveInv
  <2> QED  BY <1>5, <2>2, <2>3 DEF SaveId
<1>6. CASE ReadUpstream(t)
  <2>1. suffered \subseteq suffered'  BY <1>6, FaultStep DEF ReadUpstream
  <2>2. pc'[t] \in {"looking", "failing"} /\ \A u \in Task \ {t} : pc'[u] = pc[u]
    BY <1>6, GotoStep DEF ReadUpstream, TypeOK
  <2> QED  BY <1>6, <1>n, <2>1, <2>2, <1>r DEF ReadUpstream, HoldsCopy, Sound, world, user
<1>7. CASE LookForClips(t)
  <2>1. suffered \subseteq suffered'  BY <1>7, FaultStep DEF LookForClips
  <2>2. pc'[t] = "writing" /\ \A u \in Task \ {t} : pc'[u] = pc[u]
    BY <1>7, GotoStep DEF LookForClips, TypeOK
  <2>3. found'[t] = NoContainer /\ \A u \in Task \ {t} : found'[u] = found[u]
    BY <1>7 DEF LookForClips, Learn, TypeOK
  <2> QED  BY <1>7, <1>n, <2>1, <2>2, <2>3, <1>r
           DEF LookForClips, HoldsCopy, Sound, world, user
<1>8. CASE WriteIndex(t) \/ RecordError(t)
  <2>1. suffered \subseteq suffered'
        /\ Stays /\ (Forget(t) \/ UNCHANGED <<copy, found>>)
    BY <1>8, FaultStep DEF WriteIndex, RecordError, world, user, locals
  <2>2. pc'[t] \in {"idle", "failing"} /\ \A u \in Task \ {t} : pc'[u] = pc[u]
    BY <1>8, GotoStep DEF WriteIndex, RecordError, TypeOK
  <2>3. /\ copy'[t].cid \in Known /\ found'[t] \in Known
        /\ \A u \in Task \ {t} : copy'[u] = copy[u] /\ found'[u] = found[u]
    BY <1>n, <2>1 DEF Forget, Sound, TypeOK
  <2> QED  BY <2>1, <2>2, <2>3, <1>r DEF HoldsCopy
<1> QED  BY <1>1, <1>2, <1>3, <1>4, <1>5, <1>6, <1>7, <1>8 DEF TaskStep

\* A save while some task holds a copy has raced; with no copy out, there is nothing
\* that could be written back.
LEMMA SaveSave ==
  ASSUME TypeOK, SaveInv, Save
  PROVE  SaveInv'
<1>1. UNCHANGED <<gone, exists, pc, copy, found, suffered>> /\ saved' = settings'
  BY DEF Save, NoFault, world, locals
<1>2. Known' = Known  BY <1>1 DEF Known
<1>3. settings'.cid \in Known /\ settings'.edit = saved.edit + 1  BY DEF Save, Known
<1>4. SaveStandsUnlessRaced' /\ PickStands'
  BY <1>1 DEF SaveStandsUnlessRaced, PickStands
<1>5. ASSUME NEW t \in Task  PROVE  Sound(t)'
  <2>1. copy[t].cid \in Known /\ found[t] \in Known  BY DEF SaveInv, Sound
  <2>2. CASE ~HoldsCopy(t)
    BY <1>1, <1>2, <2>1, <2>2, RestSound DEF HoldsCopy
  <2>3. CASE HoldsCopy(t)
    <3>1. saved'.edit \in raced'  BY <1>1, <1>3, <2>3 DEF Save
    <3>2. Excused'  BY <3>1 DEF Excused
    <3>3. pc[t] = "saving" => copy[t].cid # NoContainer  BY DEF SaveInv, Sound
    <3> QED  BY <1>1, <1>2, <2>1, <3>1, <3>2, <3>3 DEF Sound
  <2> QED  BY <2>2, <2>3
<1> QED  BY <1>2, <1>3, <1>4, <1>5 DEF SaveInv

\* The surroundings: what is gone stays gone, and a crash takes the copies along.
LEMMA SaveRest ==
  ASSUME TypeOK, SaveInv,
         \/ Recreate \/ Crash \/ UNCHANGED vars
         \/ \E e \in Event : Record(e) \/ Download(e) \/ Prune(e) \/ Leave(e)
                             \/ GrowOlder(e)
  PROVE  SaveInv'
<1>1. CASE Recreate \/ UNCHANGED vars
           \/ \E e \in Event : Record(e) \/ Download(e) \/ Prune(e) \/ Leave(e)
                               \/ GrowOlder(e)
  <2>1. /\ UNCHANGED <<saved, raced, settings, pc, copy, found, suffered>>
        /\ gone \subseteq gone' /\ Known \subseteq Known'
    BY <1>1 DEF Recreate, Record, Download, Prune, Leave, GrowOlder, Move, NoFault,
                Known, vars, world, user, locals
  <2>2. \A u \in Task : Sound(u)'  BY <2>1, SoundStays DEF SaveInv
  <2>3. SaveStandsUnlessRaced' /\ PickStands'
    BY <2>1 DEF SaveInv, SaveStandsUnlessRaced, PickStands
  <2> QED  BY <2>1, <2>2, <2>3 DEF SaveInv
<1>2. CASE Crash
  <2>1. /\ UNCHANGED <<saved, raced, settings, gone, exists>>
        /\ suffered \subseteq suffered'
    BY <1>2, FaultStep DEF Crash, world, user
  <2>2. Known' = Known /\ NoContainer \in Known  BY <2>1 DEF Known
  <2>3. \A u \in Task : Sound(u)'
    BY <1>2, <2>2 DEF Crash, Sound, HoldsCopy
  <2>4. SaveStandsUnlessRaced' /\ PickStands'
    BY <2>1 DEF SaveInv, SaveStandsUnlessRaced, PickStands
  <2> QED  BY <2>1, <2>2, <2>3, <2>4 DEF SaveInv
<1> QED  BY <1>1, <1>2

\* SaveInv is an invariant.
LEMMA SavesKept == Spec => []SaveInv
<1>1. TypeOK /\ SaveInv /\ [Next]_vars => SaveInv'
  BY SaveTask, SaveSave, SaveRest DEF Next
<1> QED  BY SaveInit, <1>1, IndexTyped, PTL DEF Spec

\* What current_container writes back never undoes a save, except one that was made
\* while a task had its copy in hand.
THEOREM SavesStand == Spec => []SaveStandsUnlessRaced
<1>1. SaveInv => SaveStandsUnlessRaced  BY DEF SaveInv
<1> QED  BY <1>1, SavesKept, PTL

\* The container a user picked is replaced only when it is gone, Docker failed, or the
\* save raced.
THEOREM PicksStand == Spec => []PickStands
<1>1. SaveInv => PickStands  BY DEF SaveInv
<1> QED  BY <1>1, SavesKept, PTL

-----------------------------------------------------------------------------
(* Setup: what its constants are, and facts about paths *)

LEMMA SetupConstants ==
  /\ "clip" \in STRING
  /\ Backup \in Path /\ Data \in Path /\ Place \subseteq Path
  /\ NoPath \notin Path
  /\ \A d \in Deployment :
       /\ d.sqlite \in Maybe /\ d.root \in Path
       /\ \A x \in d.mounts : x.source \in Path /\ x.dest \in Path
       /\ \A x, y \in d.mounts : x.dest = y.dest => x = y
  /\ MaxRows \in Nat /\ Camera \subseteq STRING
  BY PathAssumption, NoneAssumption, DeploymentAssumption, NameAssumption, BoundAssumption

(* What is below a directory is a path, *)
LEMMA RestIsPath ==
  ASSUME NEW dir \in Path, NEW p \in Path
  PROVE  Rest(dir, p) \in Path
<1>1. Len(dir) + 1 \in Int /\ Len(p) \in Int
  BY DEF Path
<1>2. \A i \in (Len(dir) + 1) .. Len(p) : p[i] \in STRING
  BY DEF Path
<1> QED
  BY <1>1, <1>2, SubSeqProperties DEF Rest, Path

(* and what is put below one is found there. *)
LEMMA Joined ==
  ASSUME NEW dir \in Path, NEW t \in Path
  PROVE  /\ dir \o t \in Path /\ Len(dir \o t) = Len(dir) + Len(t)
         /\ Under(dir, dir \o t) /\ Rest(dir, dir \o t) = t
<1> DEFINE p == dir \o t
<1>1. /\ p \in Seq(STRING) /\ Len(p) = Len(dir) + Len(t)
      /\ \A i \in 1 .. Len(dir) + Len(t) :
           p[i] = IF i <= Len(dir) THEN dir[i] ELSE t[i - Len(dir)]
  BY ConcatProperties DEF Path
<1>2. Len(dir) \in Nat /\ Len(t) \in Nat /\ dir \in Seq(STRING) /\ t \in Seq(STRING)
  BY DEF Path
<1> HIDE DEF p
<1>3. SubSeq(p, 1, Len(dir)) = dir
  <2>1. /\ SubSeq(p, 1, Len(dir)) \in Seq(STRING)
        /\ Len(SubSeq(p, 1, Len(dir))) = Len(dir)
        /\ \A i \in 1 .. Len(dir) : SubSeq(p, 1, Len(dir))[i] = dir[i]
    <3>1. \A i \in 1 .. Len(dir) : p[i] \in STRING
      BY <1>1, <1>2
    <3>2. /\ SubSeq(p, 1, Len(dir)) \in Seq(STRING)
          /\ Len(SubSeq(p, 1, Len(dir))) = IF 1 <= Len(dir) THEN Len(dir) - 1 + 1 ELSE 0
          /\ \A i \in 1 .. Len(dir) - 1 + 1 : SubSeq(p, 1, Len(dir))[i] = p[1 + i - 1]
      BY <1>2, <3>1, SubSeqProperties
    <3> QED
      BY <1>1, <1>2, <3>2
  <2> QED
    BY <1>2, <2>1, SeqEqual
<1>4. SubSeq(p, Len(dir) + 1, Len(p)) = t
  <2> DEFINE q == SubSeq(p, Len(dir) + 1, Len(p))
  <2>1. q \in Seq(STRING) /\ Len(q) = Len(t) /\ \A i \in 1 .. Len(t) : q[i] = t[i]
    <3>1. \A i \in (Len(dir) + 1) .. Len(p) : p[i] \in STRING
      BY <1>1, <1>2
    <3>2. /\ q \in Seq(STRING)
          /\ Len(q) = IF Len(dir) + 1 <= Len(p) THEN Len(p) - (Len(dir) + 1) + 1 ELSE 0
          /\ \A i \in 1 .. Len(p) - (Len(dir) + 1) + 1 : q[i] = p[(Len(dir) + 1) + i - 1]
      BY <1>1, <1>2, <3>1, SubSeqProperties
    <3> HIDE DEF q
    <3>3. ASSUME NEW i \in 1 .. Len(t) PROVE q[i] = t[i]
      <4>1. /\ i \in 1 .. Len(p) - (Len(dir) + 1) + 1 /\ (Len(dir) + 1) + i - 1 = Len(dir) + i
            /\ Len(dir) + i \in 1 .. Len(dir) + Len(t) /\ ~(Len(dir) + i <= Len(dir))
            /\ Len(dir) + i - Len(dir) = i
        BY <1>1, <1>2
      <4>2. p[Len(dir) + i] = t[i]
        BY <1>1, <4>1
      <4> QED
        BY <3>2, <4>1, <4>2
    <3> QED
      BY <1>1, <1>2, <3>2, <3>3
  <2> QED
    BY <1>2, <2>1, SeqEqual
<1> QED
  BY <1>1, <1>2, <1>3, <1>4 DEF Under, Rest, Path, p

(* A path is its directory and what is below it. *)
LEMMA Rejoined ==
  ASSUME NEW dir \in Path, NEW p \in Path, Under(dir, p)
  PROVE  dir \o Rest(dir, p) = p
<1>1. /\ Len(dir) \in Nat /\ Len(p) \in Nat /\ Len(dir) <= Len(p) /\ p \in Seq(STRING)
      /\ SubSeq(p, 1, Len(dir)) = dir
  BY DEF Path, Under
<1>2. 1 \in 1 .. Len(p) + 1 /\ Len(dir) \in 1 - 1 .. Len(p) /\ Len(p) \in Len(dir) .. Len(p)
  BY <1>1
<1>3. SubSeq(p, 1, Len(dir)) \o SubSeq(p, Len(dir) + 1, Len(p)) = SubSeq(p, 1, Len(p))
  BY <1>1, <1>2, ConcatAdjacentSubSeq
<1>4. SubSeq(p, 1, Len(p)) = p
  BY <1>1, SubSeqFull
<1> QED
  BY <1>1, <1>3, <1>4 DEF Rest

(* What is below a directory is below those above it. *)
LEMMA UnderAll ==
  ASSUME NEW a \in Path, NEW b \in Path, NEW p \in Path, Under(a, b), Under(b, p)
  PROVE  Under(a, p)
<1>1. /\ Len(a) \in Nat /\ Len(b) \in Nat /\ Len(p) \in Nat
      /\ Len(a) <= Len(b) /\ Len(b) <= Len(p)
      /\ a \in Seq(STRING) /\ b \in Seq(STRING) /\ p \in Seq(STRING)
      /\ SubSeq(b, 1, Len(a)) = a /\ SubSeq(p, 1, Len(b)) = b
  BY DEF Path, Under
<1>2. CASE Len(a) = 0
  <2>1. SubSeq(p, 1, Len(a)) = << >> /\ SubSeq(b, 1, Len(a)) = << >>
    BY <1>2, SubSeqEmpty
  <2> QED
    BY <1>1, <2>1 DEF Under
<1>3. CASE Len(a) > 0
  <2>1. SubSeq(SubSeq(p, 1, Len(b)), 1, Len(a)) = SubSeq(p, 1 + 1 - 1, 1 + Len(a) - 1)
    <3>1. /\ 1 \in 1 .. Len(p) /\ Len(b) \in 1 .. Len(p)
          /\ 1 \in 1 .. Len(b) - 1 + 1 /\ Len(a) \in 1 .. Len(b) - 1 + 1
      BY <1>1, <1>3
    <3> QED
      BY <1>1, <3>1, SubSeqOfSubSeq
  <2>2. 1 + 1 - 1 = 1 /\ 1 + Len(a) - 1 = Len(a)
    BY <1>1
  <2> QED
    BY <1>1, <2>1, <2>2 DEF Under
<1> QED
  BY <1>1, <1>2, <1>3

-----------------------------------------------------------------------------
(* Setup: mounts *)

\* The mounts that a path of a container's is under.
Over(mounts, p) == {x \in mounts : Under(x.dest, p)}

(* Of those, one is the most specific. *)
LEMMA MostSpecific ==
  ASSUME NEW d \in Deployment, NEW p \in Path, Over(d.mounts, p) # {}
  PROVE  \E x \in Over(d.mounts, p) :
           \A y \in Over(d.mounts, p) : Len(y.dest) <= Len(x.dest)
<1> DEFINE T == {k \in Nat : \E x \in Over(d.mounts, p) : k = Len(p) - Len(x.dest)}
<1>1. /\ Len(p) \in Nat
      /\ \A x \in Over(d.mounts, p) : Len(x.dest) \in Nat /\ Len(x.dest) <= Len(p)
  BY SetupConstants DEF Over, Path, Under
<1>2. T \subseteq Nat /\ T # {}
  <2>1. PICK x \in Over(d.mounts, p) : TRUE
    OBVIOUS
  <2>2. Len(p) - Len(x.dest) \in T
    BY <1>1, <2>1
  <2> QED
    BY <2>2
<1>3. PICK k \in T : \A m \in T : ~(<<m, k>> \in OpToRel(<, Nat))
  BY <1>2, NatLessThanWellFounded, WFMin
<1>4. \A m \in T : ~(m < k)
  BY <1>3 DEF OpToRel
<1>5. PICK x \in Over(d.mounts, p) : k = Len(p) - Len(x.dest)
  BY <1>3
<1>6. ASSUME NEW y \in Over(d.mounts, p) PROVE Len(y.dest) <= Len(x.dest)
  <2>1. Len(p) - Len(y.dest) \in T
    BY <1>1
  <2>2. ~(Len(p) - Len(y.dest) < Len(p) - Len(x.dest))
    BY <1>4, <1>5, <2>1
  <2> QED
    BY <1>1, <2>2
<1> QED
  BY <1>6

(* Docker resolves a path through that mount, *)
LEMMA ThroughMount ==
  ASSUME NEW d \in Deployment, NEW p \in Path,
         NEW x \in Over(d.mounts, p),
         \A y \in Over(d.mounts, p) : Len(y.dest) <= Len(x.dest)
  PROVE  OnHost(d, p) = x.source \o Rest(x.dest, p)
<1> DEFINE over == Over(d.mounts, p)
           deep == CHOOSE z \in over : \A y \in over : Len(y.dest) <= Len(z.dest)
<1>1. deep \in over /\ \A y \in over : Len(y.dest) <= Len(deep.dest)
  OBVIOUS
<1>2. OnHost(d, p) = IF p = NoPath \/ over = {} THEN NoPath
                       ELSE deep.source \o Rest(deep.dest, p)
  BY DEF OnHost, Over
<1>3. p # NoPath
  BY SetupConstants
<1> HIDE DEF deep, over
<1>4. deep.dest = x.dest
  <2>1. /\ Len(deep.dest) <= Len(x.dest) /\ Len(x.dest) <= Len(deep.dest)
        /\ Len(x.dest) \in Nat /\ Len(deep.dest) \in Nat
        /\ SubSeq(p, 1, Len(deep.dest)) = deep.dest /\ SubSeq(p, 1, Len(x.dest)) = x.dest
    BY <1>1, SetupConstants DEF over, Over, Under, Path
  <2>2. Len(deep.dest) = Len(x.dest)
    BY <2>1
  <2> QED
    BY <2>1, <2>2
<1>5. deep = x
  BY <1>1, <1>4, SetupConstants DEF over, Over
<1> QED
  BY <1>2, <1>3, <1>5 DEF over

(* which gives a path, or nothing of a path under no mount; *)
LEMMA HostPaths ==
  ASSUME NEW d \in Deployment, NEW p \in Maybe
  PROVE  /\ OnHost(d, p) \in Maybe
         /\ OnHost(d, p) # NoPath <=> p # NoPath /\ Over(d.mounts, p) # {}
<1>1. CASE p = NoPath
  BY <1>1 DEF OnHost, Maybe
<1>2. CASE p # NoPath /\ Over(d.mounts, p) = {}
  BY <1>2 DEF OnHost, Over, Maybe
<1>3. CASE p # NoPath /\ Over(d.mounts, p) # {}
  <2>1. p \in Path
    BY <1>3 DEF Maybe
  <2>2. PICK x \in Over(d.mounts, p) :
          \A y \in Over(d.mounts, p) : Len(y.dest) <= Len(x.dest)
    BY <1>3, <2>1, MostSpecific
  <2>3. OnHost(d, p) = x.source \o Rest(x.dest, p)
    BY <2>1, <2>2, ThroughMount
  <2>4. x.source \in Path /\ x.dest \in Path
    BY <2>2, SetupConstants DEF Over
  <2>5. OnHost(d, p) \in Path
    BY <2>1, <2>3, <2>4, RestIsPath, Joined
  <2> QED
    BY <1>3, <2>5, SetupConstants DEF Maybe
<1> QED
  BY <1>1, <1>2, <1>3

(* and to_host_path follows the same rule. *)
LEMMA SameRule ==
  ASSUME NEW d, NEW p, p # NoPath
  PROVE  ToHostPath(d.mounts, p) = OnHost(d, p)
  BY DEF ToHostPath, OnHost

(* A path of ours below our backup directory is below the directory behind it. *)
LEMMA OursIs ==
  ASSUME place \in Path, NEW t \in Path
  PROVE  Ours(Backup \o t) = place \o t
<1>1. /\ Under(Backup, Backup \o t) /\ Rest(Backup, Backup \o t) = t
      /\ Backup \o t # NoPath /\ place # NoPath
  BY Joined, SetupConstants
<1> QED
  BY <1>1 DEF Ours

(* host_to_local: our name of a host path, when it is one of the directory's. *)
LEMMA LocalIs ==
  ASSUME NEW base \in Path, NEW h \in Maybe, h # NoPath
  PROVE  /\ HostToLocal(h, base) \in Maybe
         /\ HostToLocal(h, base) # NoPath /\ place = base
              => Ours(HostToLocal(h, base)) = h
<1>1. h \in Path /\ Backup \in Path
  BY SetupConstants DEF Maybe
<1>2. Rest(base, h) \in Path
  BY <1>1, RestIsPath
<1>3. CASE Under(base, h)
  <2>1. HostToLocal(h, base) = Backup \o Rest(base, h)
    BY <1>3 DEF HostToLocal
  <2>2. Backup \o Rest(base, h) \in Path
    BY <1>1, <1>2, Joined
  <2>3. base \o Rest(base, h) = h
    BY <1>1, <1>3, Rejoined
  <2> QED
    BY <1>2, <2>1, <2>2, <2>3, OursIs DEF Maybe
<1>4. CASE ~Under(base, h)
  BY <1>4 DEF HostToLocal, Maybe
<1> QED
  BY <1>3, <1>4

-----------------------------------------------------------------------------
(* Setup: types and what is known of rows and proposals *)

\* What inspect proposes of a deployment.
ProposedOf(d) ==
  LET at     == {x \in d.mounts : x.dest = Data}
      clips  == CHOOSE x \in at : TRUE
      dbHost == IF d.sqlite = NoPath THEN NoPath ELSE ToHostPath(d.mounts, d.sqlite)
  IN [prefix |-> IF at = {} THEN NoPath ELSE Data,
      db     |-> IF at = {} \/ dbHost = NoPath THEN NoPath
                 ELSE HostToLocal(dbHost, clips.source)]

\* A draft of the settings.
Draft ==
  [db : Maybe, prefix : Maybe, cameras : SUBSET Camera, complete : BOOLEAN,
   from : {<<>>} \cup (Deployment \X (Place \cup {NoPath}))]

\* What an uncorrected draft says is what was proposed of where it came from.
TrueTo(s) ==
  s.from # <<>> => s.db = ProposedOf(s.from[1]).db /\ s.prefix = ProposedOf(s.from[1]).prefix

\* A row as its deployment records it.
Recording(r) ==
  /\ r.by \in Deployment /\ r.camera \in Camera
  /\ r.path = r.by.root \o <<r.camera, "clip">> /\ r.file = OnHost(r.by, r.path)

Drafts ==
  /\ proposal \in Draft /\ confirmed \in Draft
  /\ TrueTo(proposal) /\ TrueTo(confirmed)
  /\ confirmed.complete => confirmed.db # NoPath /\ confirmed.prefix # NoPath
                           /\ confirmed.cameras # {}
  /\ confirmed.from # <<>> => confirmed.complete

Footage ==
  /\ service \in Deployment /\ place \in Place \cup {NoPath}
  /\ dbs \subseteq Path
  /\ OnHost(service, service.sqlite) \in dbs \cup {NoPath}
  /\ recorded \subseteq [db : dbs, path : Path, camera : Camera, file : Path,
                         by : Deployment]
  /\ IsFiniteSet(recorded) /\ Cardinality(recorded) <= MaxRows
  /\ \A r \in recorded : Recording(r)

Listing == \A i \in listed : i.row \in recorded /\ i.status \in {"live", "archived", "vanished"}

SetupInv == Drafts /\ Footage /\ Listing

LEMMA TypesOfSetup == ASSUME SetupInv PROVE SetupTypeOK
<1>2. \A s \in {proposal, confirmed} :
        s.db \in Maybe /\ s.prefix \in Maybe /\ s.cameras \subseteq Camera
  BY DEF SetupInv, Drafts, Draft
<1>3. confirmed.complete =>
        NoPath \notin {confirmed.db, confirmed.prefix} /\ confirmed.cameras # {}
  BY DEF SetupInv, Drafts
<1> QED
  BY <1>2, <1>3, Zenon DEF SetupTypeOK, SetupInv, Footage, Listing

(* A proposal is of paths, or of nothing. *)
LEMMA ProposalIs ==
  ASSUME NEW d \in Deployment
  PROVE  ProposedOf(d).db \in Maybe /\ ProposedOf(d).prefix \in Maybe
<1> DEFINE at     == {x \in d.mounts : x.dest = Data}
           clips  == CHOOSE x \in at : TRUE
           dbHost == IF d.sqlite = NoPath THEN NoPath ELSE ToHostPath(d.mounts, d.sqlite)
<1>1. dbHost \in Maybe
  <2>1. CASE d.sqlite = NoPath
    BY <2>1 DEF Maybe
  <2>2. CASE d.sqlite # NoPath
    BY <2>2, SameRule, HostPaths, SetupConstants
  <2> QED
    BY <2>1, <2>2
<1>2. at # {} => clips.source \in Path
  BY SetupConstants
<1>3. /\ ProposedOf(d).prefix = IF at = {} THEN NoPath ELSE Data
      /\ ProposedOf(d).db = IF at = {} \/ dbHost = NoPath THEN NoPath
                            ELSE HostToLocal(dbHost, clips.source)
  BY DEF ProposedOf
<1> HIDE DEF at, clips, dbHost
<1> QED
  BY <1>1, <1>2, <1>3, LocalIs, SetupConstants DEF Maybe

LEMMA SetupInvInit == SetupInit => SetupInv
<1> SUFFICES ASSUME SetupInit PROVE SetupInv
  OBVIOUS
<1>1. BlankForm \in Draft /\ TrueTo(BlankForm) /\ ~BlankForm.complete /\ BlankForm.from = <<>>
  BY DEF BlankForm, Draft, TrueTo, Maybe
<1>2. Drafts
  BY <1>1 DEF SetupInit, Drafts
<1>3. OnHost(service, service.sqlite) \in Maybe
  BY HostPaths, SetupConstants DEF SetupInit
<1>4. recorded = {} /\ IsFiniteSet(recorded) /\ Cardinality(recorded) = 0
  BY FS_EmptySet DEF SetupInit
<1>5. Footage
  BY <1>3, <1>4, SetupConstants DEF SetupInit, Footage, Maybe
<1> QED
  BY <1>2, <1>5 DEF SetupInit, Listing, SetupInv

(* Every step of the specification, one named action each. *)
LEMMA SetupSteps ==
  ASSUME [SetupNext]_setupVars
  PROVE  \/ Propose \/ Correct \/ SaveSettings \/ Sync \/ RecordClip \/ Redeploy
         \/ Remount \/ UNCHANGED setupVars
  BY DEF SetupNext

LEMMA DraftsStep ==
  ASSUME SetupInv, [SetupNext]_setupVars
  PROVE  Drafts'
<1> USE DEF SetupInv
<1>1. ASSUME UNCHANGED <<proposal, confirmed>> PROVE Drafts'
  BY <1>1 DEF Drafts, TrueTo
<1>2. CASE Propose
  <2>1. CASE proposal' = confirmed
    BY <1>2, <2>1 DEF Propose, Drafts, TrueTo
  <2>2. CASE proposal' = [BlankForm EXCEPT !.db = Proposed.db, !.prefix = Proposed.prefix,
                            !.cameras = FindCameras, !.from = <<service, place>>]
    <3>1. Proposed = ProposedOf(service)
      BY DEF Proposed, ProposedOf
    <3>2. /\ service \in Deployment /\ place \in Place \cup {NoPath}
          /\ FindCameras \subseteq Camera
      BY DEF Footage, FindCameras
    <3>3. proposal' = [db |-> ProposedOf(service).db, prefix |-> ProposedOf(service).prefix,
                       cameras |-> FindCameras, complete |-> FALSE,
                       from |-> <<service, place>>]
      BY <2>2, <3>1 DEF BlankForm
    <3>4. proposal' \in Draft
      BY <3>2, <3>3, ProposalIs DEF Draft
    <3>5. TrueTo(proposal')
      BY <3>3 DEF TrueTo
    <3> QED
      BY <1>2, <3>4, <3>5 DEF Propose, Drafts, TrueTo
  <2> QED
    BY <1>2, <2>1, <2>2 DEF Propose
<1>3. CASE Correct
  <2>1. PICK d \in Deployment, h \in dbs, p \in Place :
          proposal' = [proposal EXCEPT !.prefix = d.root, !.db = HostToLocal(h, p),
                                       !.from = <<>>]
    BY <1>3 DEF Correct
  <2>2. d.root \in Maybe /\ HostToLocal(h, p) \in Maybe
    BY LocalIs, SetupConstants DEF Maybe, Footage
  <2>3. proposal' \in Draft /\ proposal'.from = <<>>
    BY <2>1, <2>2 DEF Drafts, Draft
  <2> QED
    BY <1>3, <2>3 DEF Correct, Drafts, TrueTo
<1>4. CASE SaveSettings
  <2>1. /\ confirmed' = [proposal EXCEPT !.complete = TRUE] /\ Valid(proposal)
        /\ UNCHANGED proposal
    BY <1>4 DEF SaveSettings
  <2>2. proposal.db # NoPath
    BY <2>1, SetupConstants DEF Valid, Ours, Footage
  <2>3. /\ confirmed' \in Draft /\ TrueTo(confirmed') /\ confirmed'.complete
        /\ confirmed'.db # NoPath /\ confirmed'.prefix # NoPath /\ confirmed'.cameras # {}
    BY <2>1, <2>2 DEF Valid, Drafts, Draft, TrueTo
  <2> QED
    BY <2>1, <2>3 DEF Drafts, TrueTo
<1>5. CASE Sync \/ RecordClip \/ Redeploy \/ Remount \/ UNCHANGED setupVars
  BY <1>1, <1>5 DEF Sync, RecordClip, Redeploy, Remount, setupVars, surroundings
<1> QED
  BY <1>2, <1>3, <1>4, <1>5, SetupSteps

LEMMA PairIsSeq ==
  ASSUME NEW T, NEW a \in T, NEW b \in T
  PROVE  <<a, b>> \in Seq(T) /\ Len(<<a, b>>) = 2 /\ <<a, b>>[1] = a
  OBVIOUS

(* A clip that is recorded lies on the host. *)
LEMMA ClipOnHost ==
  ASSUME NEW d \in Deployment, NEW c \in Camera,
         OnHost(d, d.root) # NoPath
  PROVE  /\ d.root \o <<c, "clip">> \in Path
         /\ OnHost(d, d.root \o <<c, "clip">>) \in Path
<1>1. d.root \in Path /\ <<c, "clip">> \in Path
  <2>1. c \in STRING /\ d.root \in Path
    BY SetupConstants
  <2>2. <<c, "clip">> \in Seq(STRING)
    <3>1. "clip" \in STRING
      BY SetupConstants
    <3> QED
      BY <2>1, <3>1, PairIsSeq
  <2> QED
    BY <2>1, <2>2 DEF Path
<1>2. /\ d.root \o <<c, "clip">> \in Path
      /\ Under(d.root, d.root \o <<c, "clip">>)
  BY <1>1, Joined
<1>3. PICK x \in Over(d.mounts, d.root) : TRUE
  BY <1>1, HostPaths DEF Maybe
<1>4. x \in Over(d.mounts, d.root \o <<c, "clip">>)
  BY <1>1, <1>2, <1>3, UnderAll, SetupConstants DEF Over
<1>5. d.root \o <<c, "clip">> # NoPath
  BY <1>2, SetupConstants
<1> QED
  BY <1>2, <1>4, <1>5, HostPaths DEF Maybe

(* Docker's rule is no matter of time. *)
LEMMA SameHost ==
  ASSUME service' = service
  PROVE  OnHost(service, service.sqlite)' = OnHost(service, service.sqlite)
<1>1. OnHost(service, service.sqlite)' = OnHost(service', service'.sqlite)
  BY Zenon DEF OnHost, Under, Rest
<1> QED
  BY <1>1

LEMMA FootageStep ==
  ASSUME SetupInv, [SetupNext]_setupVars
  PROVE  Footage' /\ recorded \subseteq recorded'
<1> USE DEF SetupInv
<1>1. ASSUME UNCHANGED <<service, place, dbs, recorded>>
      PROVE  Footage' /\ recorded \subseteq recorded'
  BY <1>1, SameHost DEF Footage
<1>2. CASE RecordClip
  <2>1. PICK c \in Camera :
          recorded' = recorded \cup
            {[db |-> OnHost(service, service.sqlite),
              path |-> service.root \o <<c, "clip">>, camera |-> c,
              file |-> OnHost(service, service.root \o <<c, "clip">>), by |-> service]}
    BY <1>2 DEF RecordClip
  <2> DEFINE r == [db |-> OnHost(service, service.sqlite),
                   path |-> service.root \o <<c, "clip">>, camera |-> c,
                   file |-> OnHost(service, service.root \o <<c, "clip">>), by |-> service]
  <2>2. /\ UNCHANGED <<service, place, dbs>> /\ Cardinality(recorded) < MaxRows
        /\ OnHost(service, service.root) # NoPath
        /\ OnHost(service, service.sqlite) \in dbs
    <3>1. /\ UNCHANGED <<service, place, dbs>> /\ Cardinality(recorded) < MaxRows
          /\ OnHost(service, service.root) # NoPath
          /\ OnHost(service, service.sqlite) # NoPath
      BY <1>2, Zenon DEF RecordClip
    <3> QED
      BY <3>1 DEF Footage
  <2>3. /\ service.root \o <<c, "clip">> \in Path
        /\ OnHost(service, service.root \o <<c, "clip">>) \in Path
    BY <2>2, ClipOnHost DEF Footage
  <2>4. /\ r \in [db : dbs, path : Path, camera : Camera, file : Path, by : Deployment]
        /\ Recording(r)
    BY <2>2, <2>3 DEF Footage, Recording
  <2> HIDE DEF r
  <2>5. recorded' = recorded \cup {r}
    BY <2>1 DEF r
  <2>6. IsFiniteSet(recorded') /\ Cardinality(recorded') <= MaxRows
    <3>1. /\ IsFiniteSet(recorded) /\ Cardinality(recorded) \in Nat /\ MaxRows \in Nat
      BY FS_CardinalityType, SetupConstants DEF Footage
    <3>2. /\ IsFiniteSet(recorded \cup {r})
          /\ Cardinality(recorded \cup {r}) = Cardinality(recorded)
             \/ Cardinality(recorded \cup {r}) = Cardinality(recorded) + 1
      BY <3>1, FS_AddElement
    <3> QED
      BY <2>2, <2>5, <3>1, <3>2
  <2>7. OnHost(service, service.sqlite)' = OnHost(service, service.sqlite)
    BY <2>2, SameHost
  <2>8. \A q \in recorded' : Recording(q)
    BY <2>4, <2>5 DEF Footage
  <2> QED
    BY <2>2, <2>4, <2>5, <2>6, <2>7, <2>8 DEF Footage
<1>3. CASE Redeploy
  <2>1. /\ service' \in Deployment /\ UNCHANGED <<place, recorded>>
        /\ dbs' = dbs \cup ({OnHost(service', service'.sqlite)} \ {NoPath})
    BY <1>3 DEF Redeploy
  <2>2. OnHost(service', service'.sqlite) \in Maybe
    BY <2>1, HostPaths, SetupConstants
  <2>3. dbs \subseteq dbs' /\ dbs' \subseteq Path
    BY <2>1, <2>2 DEF Footage, Maybe
  <2>4. OnHost(service, service.sqlite)' \in dbs' \cup {NoPath}
    <3>1. OnHost(service, service.sqlite)' = OnHost(service', service'.sqlite)
      BY Zenon DEF OnHost, Under, Rest
    <3> QED
      BY <2>1, <3>1
  <2> QED
    BY <2>1, <2>3, <2>4 DEF Footage
<1>4. CASE Remount
  BY <1>4, SameHost DEF Remount, Footage
<1>5. CASE Propose \/ Correct \/ SaveSettings \/ Sync \/ UNCHANGED setupVars
  BY <1>1, <1>5 DEF Propose, Correct, SaveSettings, Sync, setupVars, surroundings
<1> QED
  BY <1>2, <1>3, <1>4, <1>5, SetupSteps

LEMMA ListingStep ==
  ASSUME SetupInv, [SetupNext]_setupVars
  PROVE  Listing'
<1>1. recorded \subseteq recorded'
  BY FootageStep
<1>2. CASE Sync
  <2>1. \A r : Derive(r).row = r /\ Derive(r).status \in {"live", "archived", "vanished"}
    BY DEF Derive
  <2>2. \A i \in listed' : \E r \in recorded : i = Derive(r)
    BY <1>2 DEF Sync
  <2> QED
    BY <1>1, <2>1, <2>2 DEF Listing
<1>3. CASE listed' = listed
  BY <1>1, <1>3 DEF Listing, SetupInv
<1> QED
  BY <1>2, <1>3, SetupSteps
     DEF Propose, Correct, SaveSettings, RecordClip, Redeploy, Remount, setupVars

LEMMA SetupKept == SetupSpec => []SetupInv
<1>1. SetupInv /\ [SetupNext]_setupVars => SetupInv'
  BY DraftsStep, FootageStep, ListingStep DEF SetupInv
<1> QED
  BY <1>1, SetupInvInit, PTL DEF SetupSpec

(* The types of Setup hold; settings are complete only with a database, a prefix and
   cameras. *)
THEOREM SetupTyped == SetupSpec => []SetupTypeOK
<1>1. SetupInv => SetupTypeOK
  BY TypesOfSetup
<1> QED
  BY <1>1, SetupKept, PTL

-----------------------------------------------------------------------------
(* Setup: what has been confirmed, and what a sync finds *)

(* The deployment's mount of our directory is the one that is proposed. *)
LEMMA ClipMount ==
  ASSUME SetupInv, place \in ClipDir
  PROVE  \E m \in service.mounts :
           /\ m.dest = Data /\ m.source = place /\ service.root = Data /\ place \in Path
           /\ {x \in service.mounts : x.dest = Data} = {m}
<1>1. PICK m \in service.mounts : m.dest = Data /\ service.root = Data /\ m.source = place
  BY DEF ClipDir
<1>2. service \in Deployment
  BY DEF SetupInv, Footage
<1>3. {x \in service.mounts : x.dest = Data} = {m} /\ place \in Path
  BY <1>1, <1>2, SetupConstants
<1> QED
  BY <1>1, <1>3

(* A clip of a deployment is below its clip root, in its camera's directory. *)
LEMMA ClipBelow ==
  ASSUME SetupInv, NEW r \in recorded
  PROVE  /\ r.path \in Path /\ r.by \in Deployment /\ r.by.root \in Path
         /\ <<r.camera, "clip">> \in Path
         /\ StripPrefix(r.path, r.by.root) = <<r.camera, "clip">>
         /\ CameraName(r.path, r.by.root) = r.camera
<1> DEFINE t == <<r.camera, "clip">>
<1>1. /\ r.by \in Deployment /\ r.camera \in Camera /\ r.path = r.by.root \o t
  BY DEF SetupInv, Footage, Recording
<1>2. t \in Path /\ Len(t) = 2 /\ t[1] = r.camera /\ t # NoPath
  <2>1. r.camera \in STRING /\ "clip" \in STRING
    BY <1>1, SetupConstants
  <2>2. t \in Path /\ Len(t) = 2 /\ t[1] = r.camera
    BY <2>1, PairIsSeq DEF Path
  <2> QED
    BY <2>2, SetupConstants
<1> HIDE DEF t
<1>3. r.by.root \in Path
  BY <1>1, SetupConstants
<1>4. /\ r.path \in Path /\ Len(r.path) = Len(r.by.root) + 2
      /\ Under(r.by.root, r.path) /\ Rest(r.by.root, r.path) = t
  BY <1>1, <1>2, <1>3, Joined
<1>5. Len(r.by.root) < Len(r.path)
  BY <1>3, <1>4 DEF Path
<1>6. StripPrefix(r.path, r.by.root) = t
  BY <1>4, <1>5 DEF StripPrefix
<1>7. CameraName(r.path, r.by.root) = r.camera
  <2>1. CameraName(r.path, r.by.root) = IF Len(t) > 1 THEN t[1] ELSE ""
    BY <1>2, <1>6, Zenon DEF CameraName
  <2>2. Len(t) > 1
    BY <1>2
  <2> QED
    BY <1>2, <2>1, <2>2, Zenon
<1> QED
  BY <1>1, <1>2, <1>3, <1>4, <1>6, <1>7 DEF t

(* What was proposed and confirmed is right while it stands. *)
THEOREM ConfirmedStaysRight == SetupSpec => []ConfirmedIsRight
<1>1. SetupInv => ConfirmedIsRight
  <2> SUFFICES ASSUME SetupInv, confirmed.from = <<service, place>>, place \in ClipDir
               PROVE  /\ Ours(confirmed.db) = OnHost(service, service.sqlite)
                      /\ \A r \in recorded : r.by = service =>
                           /\ ~Apart(service, r.path) => Ours(LocalPath(r)) = r.file
                           /\ CameraName(r.path, confirmed.prefix) = r.camera
    BY DEF ConfirmedIsRight
  <2>1. PICK m \in service.mounts :
          /\ m.dest = Data /\ m.source = place /\ service.root = Data /\ place \in Path
          /\ {x \in service.mounts : x.dest = Data} = {m}
    BY ClipMount
  <2>2. /\ confirmed.from # <<>> /\ confirmed.from[1] = service /\ service \in Deployment
        /\ place # NoPath
    BY <2>1, SetupConstants DEF SetupInv, Footage
  <2>3. /\ confirmed.db = ProposedOf(service).db
        /\ confirmed.prefix = ProposedOf(service).prefix
        /\ confirmed.db # NoPath
    BY <2>2 DEF SetupInv, Drafts, TrueTo
  <2> DEFINE dbHost == IF service.sqlite = NoPath THEN NoPath
                       ELSE ToHostPath(service.mounts, service.sqlite)
  <2>4. /\ confirmed.prefix = Data
        /\ confirmed.db = IF dbHost = NoPath THEN NoPath ELSE HostToLocal(dbHost, place)
    <3>1. (CHOOSE x \in {m} : TRUE) = m /\ {m} # {}
      OBVIOUS
    <3>2. /\ ProposedOf(service).prefix = Data
          /\ ProposedOf(service).db = IF dbHost = NoPath THEN NoPath
                                      ELSE HostToLocal(dbHost, m.source)
      <4> HIDE DEF dbHost
      <4> QED
        BY <2>1, <3>1 DEF ProposedOf, dbHost
    <3> QED
      BY <2>1, <2>3, <3>2
  <2>5. dbHost = OnHost(service, service.sqlite) /\ dbHost \in Maybe
    <3>1. service.sqlite # NoPath
      BY <2>3, <2>4
    <3>2. dbHost = OnHost(service, service.sqlite)
      BY <3>1, SameRule
    <3> QED
      BY <2>2, <3>2, HostPaths, SetupConstants
  <2> HIDE DEF dbHost
  <2>6. Ours(confirmed.db) = OnHost(service, service.sqlite)
    BY <2>1, <2>3, <2>4, <2>5, LocalIs
  <2>7. ASSUME NEW r \in recorded, r.by = service
        PROVE  /\ ~Apart(service, r.path) => Ours(LocalPath(r)) = r.file
               /\ CameraName(r.path, confirmed.prefix) = r.camera
    <3>1. /\ r.path \in Path /\ <<r.camera, "clip">> \in Path
          /\ StripPrefix(r.path, Data) = <<r.camera, "clip">>
          /\ CameraName(r.path, Data) = r.camera
      BY <2>1, <2>7, ClipBelow
    <3>2. /\ r.path = Data \o <<r.camera, "clip">> /\ r.file = OnHost(service, r.path)
      BY <2>1, <2>7 DEF SetupInv, Footage, Recording
    <3>3. LocalPath(r) = Backup \o <<r.camera, "clip">>
      BY <2>4, <3>1, SetupConstants DEF LocalPath
    <3>4. Ours(LocalPath(r)) = place \o <<r.camera, "clip">>
      BY <2>1, <3>1, <3>3, OursIs
    <3>5. ASSUME ~Apart(service, r.path) PROVE r.file = place \o <<r.camera, "clip">>
      <4>1. Under(Data, r.path) /\ Rest(Data, r.path) = <<r.camera, "clip">>
        BY <3>1, <3>2, Joined, SetupConstants
      <4>2. m \in Over(service.mounts, r.path)
        BY <2>1, <4>1, SetupConstants DEF Over
      <4>3. \A y \in Over(service.mounts, r.path) : Len(y.dest) <= Len(m.dest)
        <5> SUFFICES ASSUME NEW y \in service.mounts, Under(y.dest, r.path)
                     PROVE  Len(y.dest) <= Len(Data)
          BY <2>1 DEF Over
        <5>1. ~(Len(Data) < Len(y.dest))
          BY <2>1, <3>5, SetupConstants DEF Apart
        <5>2. Len(Data) \in Nat /\ Len(y.dest) \in Nat
          BY <2>2 DEF Path
        <5> QED
          BY <5>1, <5>2
      <4>4. OnHost(service, r.path) = m.source \o Rest(m.dest, r.path)
        BY <2>2, <3>1, <4>2, <4>3, ThroughMount
      <4> QED
        BY <2>1, <3>2, <4>1, <4>4
    <3> QED
      BY <2>4, <3>1, <3>4, <3>5
  <2> QED
    BY <2>6, <2>7
<1> QED
  BY <1>1, SetupKept, PTL

(* A sync finds the clips that lie where the saved prefix says, and their cameras. *)
LEMMA SyncFinds ==
  ASSUME SetupInv, Sync,
         NEW i \in listed' \ listed, NEW x \in i.row.by.mounts,
         x.dest = confirmed.prefix, x.source = place,
         Under(x.dest, i.row.path), x.dest # i.row.path,
         i.row.file = place \o Rest(x.dest, i.row.path)
  PROVE  /\ i.status = "live"
         /\ confirmed.prefix = i.row.by.root => i.camera = i.row.camera
<1>1. PICK r \in recorded : i = Derive(r)
  BY DEF Sync
<1>2. /\ i.row = r /\ i.camera = CameraName(r.path, confirmed.prefix)
      /\ i.status = IF LocalPath(r) = NoPath THEN "archived"
                    ELSE IF OnDisk(LocalPath(r)) THEN "live" ELSE "vanished"
  BY <1>1 DEF Derive
<1>3. r.path \in Path /\ r.by \in Deployment
  BY ClipBelow
<1>4. x.dest \in Path /\ place \in Path
  BY <1>2, <1>3, SetupConstants
<1> DEFINE t == Rest(confirmed.prefix, r.path)
<1>5. t \in Path /\ t # NoPath /\ Backup \o t # NoPath
  <2>1. Rest(x.dest, r.path) \in Path
    BY <1>3, <1>4, RestIsPath, Zenon
  <2>2. t \in Path
    BY <2>1, Zenon
  <2> HIDE DEF t
  <2>3. Backup \o t \in Path
    BY <2>2, Joined, SetupConstants
  <2> QED
    BY <2>2, <2>3, SetupConstants
<1>6. Len(confirmed.prefix) < Len(r.path)
  <2>1. /\ Len(x.dest) \in Nat /\ Len(r.path) \in Nat /\ Len(x.dest) <= Len(r.path)
        /\ SubSeq(r.path, 1, Len(x.dest)) = x.dest
    BY <1>2, <1>3, <1>4 DEF Path, Under
  <2>2. SubSeq(r.path, 1, Len(r.path)) = r.path
    BY <1>3, SubSeqFull DEF Path
  <2>3. Len(x.dest) # Len(r.path)
    BY <1>2, <2>1, <2>2
  <2> QED
    BY <2>1, <2>3
<1>7. StripPrefix(r.path, confirmed.prefix) = t
  BY <1>2, <1>6 DEF StripPrefix
<1> HIDE DEF t
<1>8. LocalPath(r) = Backup \o t
  BY <1>5, <1>7 DEF LocalPath
<1>9. Ours(LocalPath(r)) = r.file
  BY <1>2, <1>4, <1>5, <1>8, OursIs DEF t
<1>10. OnDisk(LocalPath(r))
  BY <1>9 DEF OnDisk
<1>11. i.status = "live"
  BY <1>2, <1>5, <1>8, <1>10
<1>12. confirmed.prefix = r.by.root => i.camera = r.camera
  BY <1>2, ClipBelow
<1> QED
  BY <1>2, <1>11, <1>12

(* So every sync, whatever deployments and settings have come before it. *)
THEOREM SyncsFindClips == SetupSpec => SyncFindsClips
<1> DEFINE Finds ==
      \A i \in listed' \ listed :
        (\E x \in i.row.by.mounts :
           /\ x.dest = confirmed.prefix /\ x.source = place
           /\ Under(x.dest, i.row.path) /\ x.dest # i.row.path
           /\ i.row.file = place \o Rest(x.dest, i.row.path))
        => /\ i.status = "live"
           /\ confirmed.prefix = i.row.by.root => i.camera = i.row.camera
<1>1. SetupInv /\ [SetupNext]_setupVars => [Finds]_setupVars
  <2> SUFFICES ASSUME SetupInv, [SetupNext]_setupVars PROVE Finds
    OBVIOUS
  <2>1. CASE Sync
    BY <2>1, SyncFinds
  <2>2. CASE listed' = listed
    BY <2>2
  <2> QED
    BY <2>1, <2>2, SetupSteps
       DEF Propose, Correct, SaveSettings, RecordClip, Redeploy, Remount, setupVars
<1>2. SyncFindsClips <=> [][Finds]_setupVars
  BY DEF SyncFindsClips
<1> HIDE DEF Finds
<1> QED
  BY <1>1, <1>2, SetupKept, PTL DEF SetupSpec

=============================================================================
