-------------------------- MODULE MediaCacheProofs --------------------------
(***************************************************************************)
(* Theorems about MediaCache, for any requests, clips, number of permits   *)
(* and faults: types, the limit on ffmpeg processes, whole transcodes, and *)
(* live clips that are served.                                             *)
(***************************************************************************)
EXTENDS MediaCache, FiniteSetTheorems, TLAPS

USE NamesAssumption DEF Stage, Reply, Name, AllFaults, Dest

ProcState == {"none", "starting", "writing", "done", "failed"}

\* Every step of the specification, one named action each.
LEMMA Steps ==
  ASSUME [Next]_vars
  PROVE  \/ \E r \in Request :
              \/ Resolve(r) \/ Refuse(r) \/ UseOriginal(r) \/ UseCached(r) \/ Wait(r)
              \/ FoundAfterAll(r) \/ StartEncoder(r) \/ CheckOutput(r) \/ Discard(r)
              \/ Rename(r) \/ RenameFails(r) \/ Serve(r) \/ ServeOriginal(r) \/ Drop(r)
              \/ EncoderOpens(r) \/ EncoderFindsNoClip(r) \/ EncoderEnds(r)
              \/ EncoderFails(r)
         \/ \E s \in Sync : RebuildIndex(s) \/ ReadLive(s) \/ EvictionDone(s)
                            \/ \E n \in FileName : EvictOne(s, n)
         \/ \E c \in Clip : Leave(c) \/ Arrive(c)
         \/ Crash \/ UNCHANGED vars
BY DEF Next, Ask, RequestStep, EncoderStep, SyncStep

\* A fault is counted and its kind remembered; no kind is forgotten.
LEMMA FaultStep ==
  ASSUME TypeOK, NEW f, Fault(f) \/ NoFault
  PROVE  /\ faults' \in 0..MaxFaults /\ suffered' \subseteq FaultKinds
         /\ suffered \subseteq suffered'
BY LimitsAssumption DEF TypeOK, Fault, NoFault

-----------------------------------------------------------------------------
(* Types, permits and the line for them *)

\* What TypeOK says, without the line and the permits.
Plain ==
  /\ disk \subseteq Clip /\ live \subseteq Clip
  /\ missed \subseteq Clip /\ doubled \subseteq FileName
  /\ at \in [Sync -> {"idle", "written", "evicting"}]
  /\ keep \in [Sync -> SUBSET Clip] /\ todo \in [Sync -> SUBSET FileName]
  /\ scratch \in [FileName -> Name] /\ cached \in [FileName -> Name]
  /\ whole \subseteq Request /\ mixed \subseteq Request
  /\ pc \in [Request -> Stage] /\ reply \in [Request -> Reply] /\ clip \in [Request -> Clip]
  /\ proc \in [Request -> ProcState] /\ file \in [Request -> Name]
  /\ \A r \in Request : proc[r] = "writing" => file[r] # NoFile
  /\ moves \in 0..MaxMoves

Budget == faults \in 0..MaxFaults /\ suffered \subseteq FaultKinds

\* Nobody stands in the line twice: else a request that leaves it would stay in it.
Line ==
  /\ queue \in Seq(Request)
  /\ \A i \in 1..Len(queue) : pc[queue[i]] = "queued"
  /\ \A i, j \in 1..Len(queue) : queue[i] = queue[j] => i = j

\* A permit is held exactly by the requests between acquire and the end of playable.
Held ==
  /\ holders = {r \in Request : pc[r] \in {"encoding", "renaming"}}
  /\ Cardinality(holders) <= Permits

TypeInv == Plain /\ Budget /\ Line /\ Held

\* The strengthening implies the type invariant.
LEMMA TypeInvImplies == TypeInv => TypeOK
BY DEF TypeInv, Plain, Budget, Line, Held, TypeOK, ProcState

\* The line does not change with what happens to requests that are not in it.
LEMMA LineStays ==
  ASSUME Line, pc \in [Request -> Stage], NEW r \in Request, pc[r] # "queued",
         queue' = queue, \A q \in Request \ {r} : pc'[q] = pc[q]
  PROVE  Line'
<1>1. \A i \in 1..Len(queue) : queue[i] \in Request /\ queue[i] # r  BY DEF Line
<1> QED  BY <1>1 DEF Line

\* The head of the line leaves it.
LEMMA LineMoves ==
  ASSUME Line, pc \in [Request -> Stage], NEW r \in Request, MyTurn(r),
         \A q \in Request \ {r} : pc'[q] = pc[q]
  PROVE  Line'
<1>1. /\ queue # <<>> /\ Len(queue) \in Nat /\ Len(queue) > 0 /\ queue[1] = r
      /\ queue' = Tail(queue)
  BY DEF Line, MyTurn
<1>2. /\ queue' \in Seq(Request) /\ Len(queue') = Len(queue) - 1
      /\ \A i \in 1..Len(queue') : queue'[i] = queue[i + 1]
  BY <1>1 DEF Line
<1>3. ASSUME NEW i \in 1..Len(queue')
      PROVE  pc'[queue'[i]] = "queued"
  <2>1. i + 1 \in 1..Len(queue) /\ i + 1 # 1 /\ 1 \in 1..Len(queue)  BY <1>1, <1>2
  <2>2. queue[i + 1] \in Request /\ queue[i + 1] # r /\ pc[queue[i + 1]] = "queued"
    BY <1>1, <2>1 DEF Line
  <2> QED  BY <1>2, <2>2
<1>4. ASSUME NEW i \in 1..Len(queue'), NEW j \in 1..Len(queue'), queue'[i] = queue'[j]
      PROVE  i = j
  <2>1. i + 1 \in 1..Len(queue) /\ j + 1 \in 1..Len(queue)  BY <1>1, <1>2
  <2>2. queue[i + 1] = queue[j + 1]  BY <1>2, <1>4
  <2>3. i + 1 = j + 1  BY <2>1, <2>2 DEF Line
  <2> QED  BY <2>3
<1> QED  BY <1>2, <1>3, <1>4 DEF Line

\* A request joins the line.
LEMMA LineGrows ==
  ASSUME Line, pc \in [Request -> Stage], NEW r \in Request, pc[r] # "queued",
         queue' = Append(queue, r), pc'[r] = "queued",
         \A q \in Request \ {r} : pc'[q] = pc[q]
  PROVE  Line'
<1>1. Len(queue) \in Nat /\ \A i \in 1..Len(queue) : queue[i] \in Request \ {r}
  BY DEF Line
<1>2. /\ queue' \in Seq(Request) /\ Len(queue') = Len(queue) + 1
      /\ queue'[Len(queue) + 1] = r
      /\ \A i \in 1..Len(queue) : queue'[i] = queue[i]
  BY DEF Line
<1>3. \A i \in 1..Len(queue') : i \in 1..Len(queue) \/ i = Len(queue) + 1
  BY <1>1, <1>2
<1>4. \A i \in 1..Len(queue') : pc'[queue'[i]] = "queued"
  BY <1>1, <1>2, <1>3 DEF Line
<1>5. \A i, j \in 1..Len(queue') : queue'[i] = queue'[j] => i = j
  BY <1>1, <1>2, <1>3 DEF Line
<1> QED  BY <1>2, <1>4, <1>5 DEF Line

\* A request that is dropped leaves the line, wherever it stands.
LEMMA LineCloses ==
  ASSUME Line, pc \in [Request -> Stage], NEW r \in Request,
         NEW i \in 1..Len(queue), queue[i] = r, queue' = Without(queue, i),
         \A q \in Request \ {r} : pc'[q] = pc[q]
  PROVE  Line'
<1> DEFINE n == Len(queue)
           from(j) == IF j < i THEN j ELSE j + 1
<1>1. n \in Nat /\ n > 0 /\ n - 1 \in Nat  BY DEF Line
<1>2. queue' = [j \in 1..n - 1 |-> queue[from(j)]]  BY DEF Without
<1>3. \A j \in 1..n - 1 : from(j) \in 1..n /\ from(j) # i  BY <1>1
<1>4. \A j \in 1..n - 1 : queue[from(j)] \in Request \ {r}
  BY <1>3 DEF Line
<1>5. queue' \in Seq(Request) /\ Len(queue') = n - 1
  <2>1. queue' \in [1..n - 1 -> Request]  BY <1>2, <1>4
  <2> HIDE DEF n
  <2> QED  BY <1>1, <2>1
<1>6. \A j \in 1..n - 1 : pc'[queue'[j]] = "queued"
  BY <1>2, <1>3, <1>4 DEF Line
<1>7. ASSUME NEW j \in 1..n - 1, NEW k \in 1..n - 1, queue'[j] = queue'[k]
      PROVE  j = k
  <2>1. from(j) = from(k)  BY <1>2, <1>3, <1>7 DEF Line
  <2> QED  BY <1>1, <2>1
<1> QED  BY <1>5, <1>6, <1>7 DEF Line

-----------------------------------------------------------------------------
(* The permits *)

\* Permits do not move as long as nobody enters or leaves the part that needs one.
LEMMA HeldStays ==
  ASSUME Held, pc \in [Request -> Stage], holders' = holders,
         \A q \in Request : pc'[q] \in {"encoding", "renaming"}
                              <=> pc[q] \in {"encoding", "renaming"}
  PROVE  Held'
BY DEF Held

\* A permit is taken when one is left.
LEMMA HeldTaken ==
  ASSUME Held, pc \in [Request -> Stage], NEW r \in Request, pc[r] = "queued",
         pc' = [pc EXCEPT ![r] = "encoding"],
         Cardinality(holders) < Permits, holders' = holders \cup {r}
  PROVE  Held'
<1>1. IsFiniteSet(holders)  BY SetsAssumption, FS_Subset DEF Held
<1>2. Cardinality(holders) \in Nat /\ Cardinality(holders') <= Cardinality(holders) + 1
  <2>1. Cardinality(holders) \in Nat  BY <1>1, FS_CardinalityType
  <2>2. Cardinality(holders \cup {r}) \in {Cardinality(holders), Cardinality(holders) + 1}
    BY <1>1, FS_AddElement
  <2> QED  BY <2>1, <2>2
<1>3. IsFiniteSet(holders') /\ Cardinality(holders') \in Nat
  BY <1>1, FS_AddElement, FS_CardinalityType
<1>4. Cardinality(holders') <= Permits  BY <1>2, <1>3, LimitsAssumption
<1>5. holders' = {q \in Request : pc'[q] \in {"encoding", "renaming"}}  BY DEF Held
<1> QED  BY <1>4, <1>5 DEF Held

\* A permit is given back with the end of playable, whichever way it ends.
LEMMA HeldGiven ==
  ASSUME Held, pc \in [Request -> Stage], NEW r \in Request, Release(r),
         pc'[r] \notin {"encoding", "renaming"}, \A q \in Request \ {r} : pc'[q] = pc[q]
  PROVE  Held'
<1>1. IsFiniteSet(holders)  BY SetsAssumption, FS_Subset DEF Held
<1>2. Cardinality(holders) \in Nat /\ Cardinality(holders') <= Cardinality(holders)
      /\ Cardinality(holders') \in Nat
  <2>1. holders' = holders \ {r}  BY DEF Release
  <2>2. IsFiniteSet(holders \ {r}) /\ Cardinality(holders \ {r}) \in Nat
        /\ Cardinality(holders) \in Nat
    BY <1>1, FS_RemoveElement, FS_CardinalityType
  <2>3. Cardinality(holders \ {r}) <= Cardinality(holders)
    BY <1>1, <2>2, FS_RemoveElement
  <2> QED  BY <2>1, <2>2, <2>3
<1>3. Cardinality(holders') <= Permits  BY <1>2, LimitsAssumption DEF Held
<1>4. holders' = {q \in Request : pc'[q] \in {"encoding", "renaming"}}
  BY DEF Held, Release
<1> QED  BY <1>3, <1>4 DEF Held

-----------------------------------------------------------------------------
(* The type invariant *)

\* At the start nobody waits and nobody holds a permit.
LEMMA TypeInit == Init => TypeInv
<1> SUFFICES ASSUME Init PROVE TypeInv  OBVIOUS
<1>1. Plain  BY SetsAssumption, LimitsAssumption DEF Init, Plain, ProcState
<1>2. Budget  BY LimitsAssumption DEF Init, Budget
<1>3. Line  BY DEF Init, Line
<1>4. Held  BY FS_EmptySet, LimitsAssumption DEF Init, Held
<1> QED  BY <1>1, <1>2, <1>3, <1>4 DEF TypeInv

\* What a handler does before it joins the line, and after it has left it.
LEMMA TypeSimple ==
  ASSUME TypeInv, NEW r \in Request,
         \/ Resolve(r) \/ Refuse(r) \/ UseOriginal(r) \/ UseCached(r) \/ Wait(r)
         \/ CheckOutput(r) \/ Serve(r) \/ ServeOriginal(r)
  PROVE  TypeInv'
<1>1. pc \in [Request -> Stage] /\ Plain /\ Budget /\ Line /\ Held /\ TypeOK
  BY TypeInvImplies DEF TypeInv, Plain
<1>2. /\ UNCHANGED <<world, syncs, files, clip, procs, holders>>
      /\ Fault("probe") \/ NoFault
      /\ reply' \in [Request -> Reply]
  BY <1>1 DEF Resolve, Refuse, UseOriginal, UseCached, Wait, NeedsTranscode, CheckOutput,
              Serve, ServeOriginal, Answer, permits, Plain
<1>3. /\ pc' \in [Request -> Stage] /\ pc[r] # "queued"
      /\ \A q \in Request \ {r} : pc'[q] = pc[q]
      /\ pc'[r] \in {"encoding", "renaming"} <=> pc[r] \in {"encoding", "renaming"}
      /\ \/ queue' = queue
         \/ queue' = Append(queue, r) /\ pc'[r] = "queued"
  BY <1>1 DEF Resolve, Refuse, UseOriginal, UseCached, Wait, CheckOutput, Serve,
              ServeOriginal, Answer, Goto, permits
<1>4. Plain'  BY <1>1, <1>2, <1>3 DEF Plain, world, syncs, files, procs
<1>5. Budget'  BY <1>1, <1>2, FaultStep DEF Budget
<1>6. Line'  BY <1>1, <1>3, LineStays, LineGrows
<1>7. Held'  BY <1>1, <1>2, <1>3, HeldStays
<1> QED  BY <1>4, <1>5, <1>6, <1>7 DEF TypeInv

\* The steps in which a request leaves the line.
LEMMA TypeLine ==
  ASSUME TypeInv, NEW r \in Request, FoundAfterAll(r) \/ StartEncoder(r) \/ Drop(r)
  PROVE  TypeInv'
<1>1. pc \in [Request -> Stage] /\ Plain /\ Budget /\ Line /\ Held /\ TypeOK
  BY TypeInvImplies DEF TypeInv, Plain
<1>2. CASE FoundAfterAll(r)
  <2>1. /\ pc' \in [Request -> Stage] /\ pc[r] = "queued" /\ pc'[r] = "found"
        /\ \A q \in Request \ {r} : pc'[q] = pc[q]
    BY <1>1, <1>2 DEF FoundAfterAll, Goto
  <2>2. UNCHANGED <<world, syncs, files, clip, reply, holders, procs>> /\ NoFault
        /\ MyTurn(r)
    BY <1>2 DEF FoundAfterAll
  <2>3. Plain'  BY <1>1, <2>1, <2>2 DEF Plain, world, syncs, files, procs
  <2>4. Budget'  BY <1>1, <2>2, FaultStep DEF Budget
  <2>5. Line'  BY <1>1, <2>1, <2>2, LineMoves
  <2>6. Held'  BY <1>1, <2>1, <2>2, HeldStays
  <2> QED  BY <2>3, <2>4, <2>5, <2>6 DEF TypeInv
<1>3. CASE StartEncoder(r)
  <2>1. /\ pc' \in [Request -> Stage] /\ pc[r] = "queued" /\ pc'[r] = "encoding"
        /\ pc' = [pc EXCEPT ![r] = "encoding"]
        /\ \A q \in Request \ {r} : pc'[q] = pc[q]
    BY <1>1, <1>3 DEF StartEncoder, Goto
  <2>2. UNCHANGED <<world, syncs, files, clip, reply, file>> /\ NoFault /\ MyTurn(r)
    BY <1>3 DEF StartEncoder
  <2>3. Dest(r) \in FileName  BY <1>1 DEF Plain
  <2>4. Plain'
    <3>1. /\ proc' \in [Request -> ProcState] /\ doubled' \subseteq FileName
          /\ \A q \in Request : proc'[q] = "writing" => file[q] # NoFile
      BY <1>1, <1>3, <2>3 DEF StartEncoder, Plain, ProcState
    <3> QED  BY <1>1, <2>1, <2>2, <3>1 DEF Plain, world, syncs, files
  <2>5. Budget'  BY <1>1, <2>2, FaultStep DEF Budget
  <2>6. Line'  BY <1>1, <2>1, <2>2, LineMoves
  <2>7. Held'  BY <1>1, <1>3, <2>1, HeldTaken DEF StartEncoder, MyTurn
  <2> QED  BY <2>4, <2>5, <2>6, <2>7 DEF TypeInv
<1>4. CASE Drop(r)
  <2>1. /\ pc' \in [Request -> Stage] /\ pc'[r] = "over"
        /\ \A q \in Request \ {r} : pc'[q] = pc[q]
        /\ reply' \in [Request -> Reply]
    BY <1>1, <1>4 DEF Drop, Answer, Goto, Plain
  <2>2. UNCHANGED <<world, syncs, files, clip, procs>> /\ Fault("cancel")
    BY <1>4 DEF Drop
  <2>3. Plain'  BY <1>1, <2>1, <2>2 DEF Plain, world, syncs, files, procs
  <2>4. Budget'  BY <1>1, <2>2, FaultStep DEF Budget
  <2>5. CASE pc[r] = "queued"
    <3>1. PICK i \in 1..Len(queue) : queue[i] = r /\ queue' = Without(queue, i)
      BY <1>4, <2>5 DEF Drop, Answer, Goto
    <3>2. Line'  BY <1>1, <2>1, <3>1, LineCloses
    <3>3. holders' = holders  BY <1>4, <2>5 DEF Drop, Answer, Goto
    <3>4. Held'  BY <1>1, <2>1, <2>5, <3>3, HeldStays
    <3> QED  BY <2>3, <2>4, <3>2, <3>4 DEF TypeInv
  <2>6. CASE pc[r] # "queued"
    <3>1. Release(r)  BY <1>4, <2>6 DEF Drop, Answer, Goto
    <3>2. Line'  BY <1>1, <2>1, <2>6, <3>1, LineStays DEF Release
    <3>3. Held'  BY <1>1, <2>1, <3>1, HeldGiven
    <3> QED  BY <2>3, <2>4, <3>2, <3>3 DEF TypeInv
  <2> QED  BY <2>5, <2>6
<1> QED  BY <1>2, <1>3, <1>4

\* The steps that give the permit back.
LEMMA TypeFinish ==
  ASSUME TypeInv, NEW r \in Request, Discard(r) \/ Rename(r) \/ RenameFails(r)
  PROVE  TypeInv'
<1>1. pc \in [Request -> Stage] /\ Plain /\ Budget /\ Line /\ Held /\ TypeOK
  BY TypeInvImplies DEF TypeInv, Plain
<1>2. /\ pc' \in [Request -> Stage] /\ pc[r] # "queued"
      /\ pc'[r] \in {"found", "over"} /\ \A q \in Request \ {r} : pc'[q] = pc[q]
      /\ reply' \in [Request -> Reply] /\ Release(r)
  BY <1>1 DEF Discard, Rename, RenameFails, Answer, Goto, Plain
<1>3. UNCHANGED <<world, syncs, whole, mixed, clip, procs>>
  BY DEF Discard, Rename, RenameFails, files
<1>4. faults' \in 0..MaxFaults /\ suffered' \subseteq FaultKinds
  BY <1>1, FaultStep DEF Discard, Rename, RenameFails
<1>5. scratch' \in [FileName -> Name] /\ cached' \in [FileName -> Name]
  <2>1. Dest(r) \in FileName /\ scratch[Dest(r)] \in Name /\ NoFile \in Name
    BY <1>1 DEF Plain
  <2> QED  BY <1>1, <2>1 DEF Discard, Rename, RenameFails, Plain, files
<1>6. Plain'  BY <1>1, <1>2, <1>3, <1>5 DEF Plain, world, syncs, procs
<1>7. Line'  BY <1>1, <1>2, LineStays DEF Release
<1>8. Held'  BY <1>1, <1>2, HeldGiven
<1> QED  BY <1>4, <1>6, <1>7, <1>8 DEF TypeInv, Budget

\* The steps of ffmpeg leave requests, line and permits alone.
LEMMA TypeEncoder ==
  ASSUME TypeInv, NEW r \in Request,
         EncoderOpens(r) \/ EncoderFindsNoClip(r) \/ EncoderEnds(r) \/ EncoderFails(r)
  PROVE  TypeInv'
<1>1. pc \in [Request -> Stage] /\ Plain /\ Budget /\ Line /\ Held /\ TypeOK
  BY TypeInvImplies DEF TypeInv, Plain
<1>2. UNCHANGED <<world, syncs, cached, reqs, permits, doubled>>
  BY DEF EncoderOpens, EncoderFindsNoClip, EncoderEnds, EncoderFails, files
<1>3. faults' \in 0..MaxFaults /\ suffered' \subseteq FaultKinds
  BY <1>1, FaultStep DEF EncoderOpens, EncoderFindsNoClip, EncoderEnds, EncoderFails
<1>4. proc' \in [Request -> ProcState]
  BY <1>1 DEF EncoderOpens, EncoderFindsNoClip, EncoderEnds, EncoderFails, Plain, ProcState
<1>5. Dest(r) \in FileName /\ scratch[Dest(r)] \in Name /\ file[r] \in Name
  BY <1>1 DEF Plain
<1>6. /\ scratch' \in [FileName -> Name] /\ file' \in [Request -> Name]
      /\ whole' \subseteq Request /\ mixed' \subseteq Request
  <2>1. CASE EncoderOpens(r)
    <3>1. PICK f \in Request :
            /\ scratch' = [scratch EXCEPT ![Dest(r)] = f]
            /\ file' = [file EXCEPT ![r] = f]
            /\ whole' = whole \ {f}
            /\ mixed' \in {mixed \ {f}, mixed \cup {f}}
      BY <1>5, <2>1 DEF EncoderOpens
    <3> QED  BY <1>1, <1>5, <3>1 DEF Plain
  <2>2. CASE EncoderFindsNoClip(r)
    BY <1>1, <2>2 DEF EncoderFindsNoClip, Plain, files
  <2>3. CASE EncoderEnds(r)
    <3>1. file' = [file EXCEPT ![r] = NoFile] /\ UNCHANGED <<scratch, mixed>>
          /\ whole' \in {whole, whole \cup {file[r]}}
      BY <2>3 DEF EncoderEnds
    <3>2. file[r] \in Request  BY <1>1, <1>5, <2>3 DEF EncoderEnds, Plain
    <3> QED  BY <1>1, <3>1, <3>2 DEF Plain
  <2>4. CASE EncoderFails(r)
    BY <1>1, <2>4 DEF EncoderFails, Plain, files
  <2> QED  BY <2>1, <2>2, <2>3, <2>4
<1>7. \A q \in Request : proc'[q] = "writing" => file'[q] # NoFile
  <2>1. /\ \A q \in Request \ {r} : proc'[q] = proc[q] /\ file'[q] = file[q]
        /\ proc'[r] = "writing" => file'[r] # NoFile
    BY <1>1, <1>5, SetsAssumption
    DEF EncoderOpens, EncoderFindsNoClip, EncoderEnds, EncoderFails, Plain
  <2> QED  BY <1>1, <2>1 DEF Plain
<1>8. Plain'  BY <1>1, <1>2, <1>4, <1>6, <1>7 DEF Plain, world, syncs, reqs
<1>9. Line' /\ Held'  BY <1>1, <1>2 DEF Line, Held, reqs, permits
<1> QED  BY <1>3, <1>8, <1>9 DEF TypeInv, Budget

\* Syncs, clips that come and go, and steps that change nothing leave requests alone.
LEMMA TypeWorld ==
  ASSUME TypeInv,
         \/ \E s \in Sync : RebuildIndex(s) \/ ReadLive(s) \/ EvictionDone(s)
                            \/ \E n \in FileName : EvictOne(s, n)
         \/ \E c \in Clip : Leave(c) \/ Arrive(c)
         \/ UNCHANGED vars
  PROVE  TypeInv'
<1>1. Plain /\ Budget /\ Line /\ Held /\ TypeOK  BY TypeInvImplies DEF TypeInv
<1>2. /\ UNCHANGED <<scratch, whole, mixed, reqs, permits, procs>>
      /\ (\E f : Fault(f)) \/ NoFault
  BY DEF RebuildIndex, ReadLive, EvictionDone, EvictOne, Leave, Arrive, NoFault,
         vars, files
<1>3. Line' /\ Held'  BY <1>1, <1>2 DEF Line, Held, reqs, permits
<1>4. Budget'  BY <1>1, <1>2, FaultStep DEF Budget
<1>5. cached' \in [FileName -> Name]
  BY <1>1 DEF RebuildIndex, ReadLive, EvictionDone, EvictOne, Leave, Arrive, Plain,
              vars, files
<1>6. /\ disk' \subseteq Clip /\ live' \subseteq Clip /\ missed' \subseteq Clip
      /\ moves' \in 0..MaxMoves
  BY <1>1, LimitsAssumption
  DEF RebuildIndex, ReadLive, EvictionDone, EvictOne, Leave, Arrive, Plain,
      vars, world, syncs
<1>7. /\ at' \in [Sync -> {"idle", "written", "evicting"}]
      /\ keep' \in [Sync -> SUBSET Clip] /\ todo' \in [Sync -> SUBSET FileName]
  <2>1. /\ at \in [Sync -> {"idle", "written", "evicting"}]
        /\ keep \in [Sync -> SUBSET Clip] /\ todo \in [Sync -> SUBSET FileName]
        /\ live \subseteq Clip
    BY <1>1 DEF Plain
  <2>2. CASE UNCHANGED <<at, keep, todo>>  BY <2>1, <2>2
  <2>3. CASE \E s \in Sync : RebuildIndex(s)  BY <2>1, <2>3 DEF RebuildIndex
  <2>4. CASE \E s \in Sync : ReadLive(s)  BY <2>1, <2>4 DEF ReadLive
  <2>5. CASE \E s \in Sync : EvictionDone(s)  BY <2>1, <2>5 DEF EvictionDone
  <2>6. CASE \E s \in Sync, n \in FileName : EvictOne(s, n)  BY <2>1, <2>6 DEF EvictOne
  <2> QED  BY <2>2, <2>3, <2>4, <2>5, <2>6 DEF Leave, Arrive, vars, syncs
<1> QED  BY <1>1, <1>2, <1>3, <1>4, <1>5, <1>6, <1>7 DEF TypeInv, Plain, reqs, procs

\* After a crash the line is empty and all permits are free.
LEMMA TypeCrash ==
  ASSUME TypeInv, Crash
  PROVE  TypeInv'
<1>1. Plain /\ Budget /\ Line /\ Held /\ TypeOK  BY TypeInvImplies DEF TypeInv
<1>2. Budget'  BY <1>1, FaultStep DEF Crash, Budget
<1>3. Line'  BY DEF Crash, Line
<1>4. Held'
  <2>1. \A r \in Request : pc'[r] \in {"new", "over"}  BY DEF Crash
  <2> QED  BY <2>1, FS_EmptySet, LimitsAssumption DEF Crash, Held
<1>5. /\ pc' \in [Request -> Stage] /\ reply' \in [Request -> Reply]
      /\ proc' \in [Request -> ProcState] /\ file' \in [Request -> Name]
      /\ \A r \in Request : proc'[r] # "writing"
  BY <1>1 DEF Crash, Plain, ProcState, Encoding
<1>6. Plain'  BY <1>1, <1>5 DEF Crash, Plain, world, files
<1> QED  BY <1>2, <1>3, <1>4, <1>6 DEF TypeInv

\* TypeInv is an invariant.
LEMMA Typed == Spec => []TypeInv
<1>1. TypeInv /\ [Next]_vars => TypeInv'
  BY Steps, TypeSimple, TypeLine, TypeFinish, TypeEncoder, TypeWorld, TypeCrash
<1> QED  BY TypeInit, <1>1, PTL DEF Spec

\* The type invariant, for any requests, clips and faults: no more permits are held
\* than there are, and only requests that wait stand in the line.
THEOREM CacheTyped == Spec => []TypeOK
BY Typed, TypeInvImplies, PTL

-----------------------------------------------------------------------------
(* The limit on ffmpeg processes *)

\* Until a client goes away in the middle, a running ffmpeg has its handler waiting for
\* it, permit in hand.
EncInv ==
  "cancel" \notin suffered => \A r \in Request : Encoding(r) => pc[r] = "encoding"

\* Only a dropped handler leaves its ffmpeg behind.
LEMMA EncStep ==
  ASSUME TypeInv, EncInv, [Next]_vars
  PROVE  EncInv'
<1>0. Plain /\ TypeOK  BY TypeInvImplies DEF TypeInv
<1>s. ASSUME NEW r \in Request,
             \A q \in Request \ {r} : pc'[q] = pc[q] /\ proc'[q] = proc[q],
             Encoding(r)' => pc'[r] = "encoding" \/ (Encoding(r) /\ pc[r] # "encoding"),
             suffered \subseteq suffered'
      PROVE  EncInv'
  BY <1>s DEF EncInv, Encoding
<1>1. ASSUME NEW r \in Request,
             \/ Resolve(r) \/ Refuse(r) \/ UseOriginal(r) \/ UseCached(r) \/ Wait(r)
             \/ FoundAfterAll(r) \/ CheckOutput(r) \/ Discard(r) \/ Rename(r)
             \/ RenameFails(r) \/ Serve(r) \/ ServeOriginal(r)
      PROVE  EncInv'
  <2>1. /\ \A q \in Request \ {r} : pc'[q] = pc[q] /\ proc'[q] = proc[q]
        /\ pc[r] # "encoding" \/ proc[r] \in {"done", "failed"}
        /\ proc' = proc
    BY <1>0, <1>1 DEF Plain, Resolve, Refuse, UseOriginal, UseCached, Wait, FoundAfterAll,
      CheckOutput, Discard, Rename, RenameFails, Serve, ServeOriginal, Answer, Goto, procs
  <2>2. suffered \subseteq suffered'
    BY <1>0, <1>1, FaultStep DEF Resolve, Refuse, UseOriginal, UseCached, Wait,
      NeedsTranscode, FoundAfterAll, CheckOutput, Discard, Rename, RenameFails, Serve,
      ServeOriginal
  <2> QED  BY <1>s, <2>1, <2>2 DEF Encoding
<1>2. ASSUME NEW r \in Request, StartEncoder(r)
      PROVE  EncInv'
  <2>1. /\ \A q \in Request \ {r} : pc'[q] = pc[q] /\ proc'[q] = proc[q]
        /\ pc'[r] = "encoding" /\ suffered' = suffered
    BY <1>0, <1>2 DEF Plain, StartEncoder, Goto, NoFault
  <2> QED  BY <1>s, <2>1
<1>3. ASSUME NEW r \in Request, Drop(r)
      PROVE  EncInv'
  BY <1>3 DEF Drop, Fault, EncInv
<1>4. ASSUME NEW r \in Request,
             EncoderOpens(r) \/ EncoderFindsNoClip(r) \/ EncoderEnds(r) \/ EncoderFails(r)
      PROVE  EncInv'
  <2>1. /\ \A q \in Request \ {r} : pc'[q] = pc[q] /\ proc'[q] = proc[q]
        /\ pc'[r] = pc[r] /\ Encoding(r)
    BY <1>0, <1>4 DEF Plain, EncoderOpens, EncoderFindsNoClip, EncoderEnds, EncoderFails,
                      Encoding, reqs
  <2>2. suffered \subseteq suffered'
    BY <1>0, <1>4, FaultStep
    DEF EncoderOpens, EncoderFindsNoClip, EncoderEnds, EncoderFails
  <2> QED  BY <1>s, <2>1, <2>2
<1>5. CASE \/ \E s \in Sync : RebuildIndex(s) \/ ReadLive(s) \/ EvictionDone(s)
                              \/ \E n \in FileName : EvictOne(s, n)
           \/ \E c \in Clip : Leave(c) \/ Arrive(c)
           \/ UNCHANGED vars
  <2>1. UNCHANGED <<pc, proc>> /\ ((\E f : Fault(f)) \/ NoFault)
    BY <1>5 DEF RebuildIndex, ReadLive, EvictionDone, EvictOne, Leave, Arrive, NoFault,
                vars, reqs, procs
  <2>2. suffered \subseteq suffered'  BY <1>0, <2>1, FaultStep
  <2> QED  BY <2>1, <2>2 DEF EncInv, Encoding
<1>6. CASE Crash
  <2>1. \A r \in Request : ~Encoding(r)'  BY <1>0, <1>6 DEF Crash, Plain, Encoding
  <2> QED  BY <2>1 DEF EncInv
<1> QED  BY <1>1, <1>2, <1>3, <1>4, <1>5, <1>6, Steps

\* No more ffmpegs than permits, for any number of requests and permits, as long as no
\* handler has been dropped.
THEOREM EncodersLimited == Spec => []EncodersBounded
<1>1. Init => EncInv  BY DEF Init, EncInv, Encoding
<1>2. TypeInv /\ EncInv => EncodersBounded
  <2> SUFFICES ASSUME TypeInv, EncInv, "cancel" \notin suffered
               PROVE  Cardinality({r \in Request : Encoding(r)}) <= Permits
    BY DEF EncodersBounded
  <2> DEFINE running == {r \in Request : Encoding(r)}
  <2>1. running \subseteq holders  BY DEF TypeInv, Held, EncInv
  <2>2. IsFiniteSet(holders) /\ Cardinality(holders) <= Permits
    BY SetsAssumption, FS_Subset DEF TypeInv, Held
  <2>3. /\ IsFiniteSet(running) /\ Cardinality(running) <= Cardinality(holders)
        /\ Cardinality(running) \in Nat /\ Cardinality(holders) \in Nat
    BY <2>1, <2>2, FS_Subset, FS_CardinalityType
  <2> HIDE DEF running
  <2>4. Cardinality(running) <= Permits  BY <2>2, <2>3, LimitsAssumption
  <2> QED  BY <2>4 DEF running
<1> QED  BY <1>1, <1>2, EncStep, Typed, PTL DEF Spec

-----------------------------------------------------------------------------
(* Whole transcodes *)

Ready(f) == f = NoFile \/ f \in whole

\* Files keep to one name: that of the clip their request asked for.
Owned ==
  /\ \A n \in FileName : /\ scratch[n] # NoFile => Dest(scratch[n]) = n
                         /\ cached[n] # NoFile => Dest(cached[n]) = n
                         /\ scratch[n] # NoFile => scratch[n] # cached[n]
  /\ \A r \in Request : file[r] # NoFile => Dest(file[r]) = Dest(r)

\* A request that has not opened its output yet has left no file anywhere.
Unused ==
  \A r \in Request :
    /\ pc[r] \in {"new", "probing", "queued"} => proc[r] = "none"
    /\ proc[r] \in {"none", "starting"} =>
         \A c \in FileName : scratch[c] # r /\ cached[c] # r

\* Two requests at one scratch file are noticed; a rename follows an ffmpeg that ended well.
Noticed ==
  /\ \A r, q \in Request :
       r # q /\ r \in Handling(Dest(r)) /\ q \in Handling(Dest(r)) => Dest(r) \in doubled
  /\ \A r \in Request : pc[r] = "renaming" => proc[r] = "done"

\* The one request that handles a clip writes to the clip's scratch file alone, and
\* when its ffmpeg has ended well the file is complete.
Alone ==
  \A r \in Request : Dest(r) \notin doubled =>
    /\ proc[r] = "writing" => file[r] = scratch[Dest(r)] /\ file[r] \notin mixed
    /\ pc[r] \in {"encoding", "renaming"} /\ proc[r] = "done" => Ready(scratch[Dest(r)])

WholeInv ==
  /\ Owned /\ Unused /\ Noticed /\ Alone
  /\ \A c \in FileName : c \notin doubled => Ready(cached[c])
  /\ TornOnlyByDoubling

\* Steps in which a request moves on without touching a file or an ffmpeg.
LEMMA WholeQuiet ==
  ASSUME TypeInv, WholeInv,
         UNCHANGED <<files, clip, procs>>,
         \A q \in Request :
           /\ pc'[q] \in {"encoding", "renaming"} => pc[q] \in {"encoding", "renaming"}
           /\ pc'[q] \in {"new", "probing", "queued"} =>
                pc[q] \in {"new", "probing", "queued"}
           /\ pc'[q] = "renaming" => proc[q] = "done"
           /\ reply'[q] = "torn" => reply[q] = "torn" \/ ~Ready(cached[Dest(q)])
  PROVE  WholeInv'
<1>1. Plain  BY DEF TypeInv
<1>2. UNCHANGED <<scratch, cached, whole, mixed, proc, file, doubled, clip>>
  BY DEF files, procs
<1>3. Owned'  BY <1>2 DEF WholeInv, Owned
<1>4. Unused'  BY <1>2 DEF WholeInv, Unused
<1>5. \A q \in Request, c \in FileName : q \in Handling(c)' => q \in Handling(c)
  BY <1>2 DEF Handling, Encoding
<1>6. \A q \in Request : Dest(q) \in FileName  BY <1>1 DEF Plain
<1>7. Noticed'  BY <1>2, <1>5, <1>6 DEF WholeInv, Noticed
<1>8. Alone'  BY <1>2 DEF WholeInv, Alone, Ready
<1>9. TornOnlyByDoubling'
  BY <1>2, <1>6 DEF WholeInv, TornOnlyByDoubling
<1>10. \A c \in FileName : c \notin doubled' => Ready(cached[c])'
  BY <1>2 DEF WholeInv, Ready
<1> QED  BY <1>3, <1>4, <1>7, <1>8, <1>9, <1>10 DEF WholeInv

\* The handler up to the line, its end, and the surroundings.
LEMMA WholeSimple ==
  ASSUME TypeInv, WholeInv,
         \/ \E r \in Request :
              \/ Resolve(r) \/ Refuse(r) \/ UseOriginal(r) \/ UseCached(r) \/ Wait(r)
              \/ FoundAfterAll(r) \/ CheckOutput(r) \/ RenameFails(r) \/ Serve(r)
              \/ ServeOriginal(r) \/ Drop(r)
         \/ \E s \in Sync : RebuildIndex(s) \/ ReadLive(s) \/ EvictionDone(s)
         \/ \E c \in Clip : Leave(c) \/ Arrive(c)
         \/ UNCHANGED vars
  PROVE  WholeInv'
<1>1. pc \in [Request -> Stage] /\ reply \in [Request -> Reply]
  BY DEF TypeInv, Plain
<1>2. ASSUME NEW r \in Request,
             \/ Resolve(r) \/ Refuse(r) \/ UseOriginal(r) \/ UseCached(r) \/ Wait(r)
             \/ FoundAfterAll(r) \/ CheckOutput(r) \/ RenameFails(r) \/ Serve(r)
             \/ ServeOriginal(r) \/ Drop(r)
      PROVE  WholeInv'
  <2>1. UNCHANGED <<files, clip, procs>>
    BY <1>2 DEF Resolve, Refuse, UseOriginal, UseCached, Wait, FoundAfterAll,
                CheckOutput, RenameFails, Serve, ServeOriginal, Drop
  <2>2. \A q \in Request \ {r} : pc'[q] = pc[q] /\ reply'[q] = reply[q]
    BY <1>1, <1>2 DEF Resolve, Refuse, UseOriginal, UseCached, Wait, FoundAfterAll,
                CheckOutput, RenameFails, Serve, ServeOriginal, Drop, Answer, Goto
  <2>3. /\ pc'[r] \in {"encoding", "renaming"} => pc[r] = "encoding" /\ proc[r] = "done"
        /\ pc'[r] \in {"new", "probing", "queued"} => pc[r] \in {"new", "probing", "queued"}
    BY <1>1, <1>2 DEF Resolve, Refuse, UseOriginal, UseCached, Wait, FoundAfterAll,
                CheckOutput, RenameFails, Serve, ServeOriginal, Drop, Answer, Goto
  <2>4. reply'[r] = "torn" => reply[r] = "torn" \/ ~Ready(cached[Dest(r)])
    BY <1>1, <1>2 DEF Resolve, Refuse, UseOriginal, UseCached, Wait, FoundAfterAll,
                CheckOutput, RenameFails, Serve, ServeOriginal, Drop, Answer, Ready
  <2>5. \A q \in Request : pc[q] = "renaming" => proc[q] = "done"
    BY DEF WholeInv, Noticed
  <2> QED  BY <2>1, <2>2, <2>3, <2>4, <2>5, WholeQuiet
<1>3. CASE \/ \E s \in Sync : RebuildIndex(s) \/ ReadLive(s) \/ EvictionDone(s)
           \/ \E c \in Clip : Leave(c) \/ Arrive(c)
           \/ UNCHANGED vars
  <2>1. UNCHANGED <<files, procs, pc, reply, clip>>
    BY <1>3 DEF RebuildIndex, ReadLive, EvictionDone, Leave, Arrive, vars, reqs
  <2>2. \A q \in Request : pc[q] = "renaming" => proc[q] = "done"
    BY DEF WholeInv, Noticed
  <2> QED  BY <2>1, <2>2, WholeQuiet
<1> QED  BY <1>2, <1>3

\* A second ffmpeg under a name is noticed as it starts.
LEMMA WholeStart ==
  ASSUME TypeInv, WholeInv, NEW r \in Request, StartEncoder(r)
  PROVE  WholeInv'
<1>1. Plain /\ Dest(r) \in FileName  BY DEF TypeInv, Plain
<1>2. /\ UNCHANGED <<scratch, cached, whole, mixed, file, clip, reply>>
      /\ pc[r] = "queued" /\ pc' = [pc EXCEPT ![r] = "encoding"]
      /\ proc' = [proc EXCEPT ![r] = "starting"]
      /\ doubled' = doubled \cup (IF Handling(Dest(r)) = {} THEN {} ELSE {Dest(r)})
  BY DEF StartEncoder, Goto, files
<1>3. /\ pc'[r] = "encoding" /\ proc'[r] = "starting"
      /\ \A q \in Request \ {r} : pc'[q] = pc[q] /\ proc'[q] = proc[q]
  BY <1>1, <1>2 DEF Plain
<1>4. proc[r] = "none"  BY <1>2 DEF WholeInv, Unused
<1>5. Owned'  BY <1>2 DEF WholeInv, Owned
<1>6. Unused'  BY <1>2, <1>3, <1>4 DEF WholeInv, Unused
<1>7. \A q \in Request \ {r}, c \in FileName : q \in Handling(c)' => q \in Handling(c)
  BY <1>2, <1>3 DEF Handling, Encoding
<1>8. Noticed'
  <2>1. ASSUME NEW p \in Request, NEW q \in Request, p # q,
               p \in Handling(Dest(p))', q \in Handling(Dest(p))'
        PROVE  Dest(p) \in doubled'
    <3>1. Dest(p) \in FileName /\ Dest(q) = Dest(p)
      BY <1>1, <1>2, <2>1 DEF Plain, Handling
    <3>2. CASE p # r /\ q # r
      BY <1>2, <1>7, <2>1, <3>1, <3>2 DEF WholeInv, Noticed
    <3>3. CASE p = r \/ q = r
      BY <1>2, <1>7, <2>1, <3>1, <3>3
    <3> QED  BY <3>2, <3>3
  <2> QED  BY <1>2, <1>3, <2>1 DEF WholeInv, Noticed
<1>9. Alone'
  BY <1>2, <1>3 DEF WholeInv, Alone, Ready
<1>10. \A c \in FileName : c \notin doubled' => Ready(cached[c])'
  BY <1>2 DEF WholeInv, Ready
<1>11. TornOnlyByDoubling'  BY <1>2 DEF WholeInv, TornOnlyByDoubling
<1> QED  BY <1>5, <1>6, <1>8, <1>9, <1>10, <1>11 DEF WholeInv

\* Opening the scratch file empties it; nobody else who is alone loses anything by it.
LEMMA WholeOpen ==
  ASSUME TypeInv, WholeInv, NEW r \in Request, EncoderOpens(r)
  PROVE  WholeInv'
<1> DEFINE c == Dest(r)
           f == IF scratch[c] = NoFile THEN r ELSE scratch[c]
<1>1. Plain /\ c \in FileName /\ f \in Request /\ f # NoFile
  BY SetsAssumption DEF TypeInv, Plain
<1>2. /\ UNCHANGED <<cached, pc, clip, reply, doubled>>
      /\ proc[r] = "starting" /\ proc' = [proc EXCEPT ![r] = "writing"]
      /\ file' = [file EXCEPT ![r] = f] /\ scratch' = [scratch EXCEPT ![c] = f]
      /\ whole' = whole \ {f}
      /\ mixed' = IF Writers(f) = {} THEN mixed \ {f} ELSE mixed \cup {f}
  BY DEF EncoderOpens, reqs
<1> HIDE DEF c, f
<1>3. /\ proc'[r] = "writing" /\ file'[r] = f /\ scratch'[c] = f
      /\ \A q \in Request \ {r} : proc'[q] = proc[q] /\ file'[q] = file[q]
      /\ \A d \in FileName \ {c} : scratch'[d] = scratch[d]
  BY <1>1, <1>2 DEF Plain
<1>4. Dest(f) = c
  BY <1>1 DEF WholeInv, Owned, c, f
<1>5. \A d \in FileName : cached[d] # f
  <2>1. \A d \in FileName \ {c} : cached[d] # f
    BY <1>1, <1>4 DEF WholeInv, Owned
  <2>2. cached[c] # f
    BY <1>1, <1>2 DEF WholeInv, Owned, Unused, f
  <2> QED  BY <2>1, <2>2
<1>6. Owned'  BY <1>1, <1>2, <1>3, <1>4, <1>5 DEF WholeInv, Owned, c
<1>7. Unused'
  <2>1. ASSUME NEW q \in Request, proc'[q] \in {"none", "starting"}
        PROVE  \A d \in FileName : scratch'[d] # q /\ cached'[d] # q
    <3>1. q # r /\ proc[q] = proc'[q]  BY <1>3, <2>1
    <3>2. f # q  BY <1>1, <2>1, <3>1 DEF WholeInv, Unused, f
    <3> QED  BY <1>2, <1>3, <2>1, <3>1, <3>2 DEF WholeInv, Unused
  <2>2. ASSUME NEW q \in Request, pc'[q] \in {"new", "probing", "queued"}
        PROVE  proc'[q] = "none"
    BY <1>2, <1>3, <2>2 DEF WholeInv, Unused
  <2> QED  BY <2>1, <2>2 DEF Unused
<1>8. \A q \in Request, d \in FileName : q \in Handling(d)' <=> q \in Handling(d)
  BY <1>2, <1>3 DEF Handling, Encoding
<1>9. \A q \in Request : Dest(q) \in FileName  BY <1>1 DEF Plain
<1>10. Noticed'
  <2>1. \A q \in Request : pc'[q] = "renaming" => proc'[q] = "done"
    BY <1>2, <1>3 DEF WholeInv, Noticed
  <2> QED  BY <1>2, <1>8, <1>9, <2>1 DEF WholeInv, Noticed
<1>11. c \notin doubled => \A q \in Request \ {r} : q \notin Handling(c)
  BY <1>2 DEF WholeInv, Noticed, Handling, Encoding, c
<1>12. c \notin doubled => Writers(f) = {}
  <2> SUFFICES ASSUME NEW q \in Request, proc[q] = "writing", file[q] = f
               PROVE  c \in doubled
    BY DEF Writers
  <2>1. Dest(q) = c /\ q # r  BY <1>1, <1>2, <1>4 DEF WholeInv, Owned
  <2>2. q \in Handling(c)  BY <2>1 DEF Handling, Encoding
  <2> QED  BY <1>11, <2>1, <2>2
<1>13. Alone'
  <2> SUFFICES ASSUME NEW q \in Request, Dest(q) \notin doubled
               PROVE  /\ proc'[q] = "writing" =>
                           file'[q] = scratch'[Dest(q)] /\ file'[q] \notin mixed'
                      /\ pc[q] \in {"encoding", "renaming"} /\ proc'[q] = "done" =>
                           Ready(scratch[Dest(q)])'
    BY <1>2 DEF Alone
  <2>1. CASE q = r  BY <1>2, <1>3, <1>12, <2>1 DEF c
  <2>2. CASE q # r /\ Dest(q) = c
    <3>1. q \notin Handling(c)  BY <1>11, <2>2
    <3> QED  BY <1>3, <2>2, <3>1 DEF Handling, Encoding
  <2>3. CASE q # r /\ Dest(q) # c
    <3>1. scratch'[Dest(q)] = scratch[Dest(q)] /\ proc'[q] = proc[q] /\ file'[q] = file[q]
      BY <1>3, <1>9, <2>3
    <3>2. scratch[Dest(q)] # f /\ (file[q] # NoFile => file[q] # f)
      BY <1>1, <1>4, <1>9, <2>3 DEF WholeInv, Owned
    <3>3. proc[q] = "writing" => file[q] # NoFile  BY <1>1 DEF Plain
    <3> QED  BY <1>2, <3>1, <3>2, <3>3 DEF WholeInv, Alone, Ready
  <2> QED  BY <2>1, <2>2, <2>3
<1>14. \A d \in FileName : d \notin doubled' => Ready(cached[d])'
  BY <1>2, <1>5 DEF WholeInv, Ready
<1>15. TornOnlyByDoubling'  BY <1>2 DEF WholeInv, TornOnlyByDoubling
<1> QED  BY <1>6, <1>7, <1>10, <1>13, <1>14, <1>15 DEF WholeInv

\* An ffmpeg that ends well leaves a complete file, unless another has written to it.
LEMMA WholeEnd ==
  ASSUME TypeInv, WholeInv, NEW r \in Request,
         EncoderFindsNoClip(r) \/ EncoderEnds(r) \/ EncoderFails(r)
  PROVE  WholeInv'
<1>1. Plain /\ Dest(r) \in FileName  BY DEF TypeInv, Plain
<1>2. /\ UNCHANGED <<scratch, cached, mixed, pc, clip, reply, doubled>>
      /\ whole \subseteq whole'
      /\ Encoding(r) /\ proc'[r] \in {"done", "failed"}
      /\ \A q \in Request \ {r} : proc'[q] = proc[q] /\ file'[q] = file[q]
      /\ file'[r] \in {file[r], NoFile}
  BY <1>1 DEF EncoderFindsNoClip, EncoderEnds, EncoderFails, reqs, files, Encoding, Plain
<1>3. \A d \in FileName : Ready(cached[d]) => Ready(cached[d])'  BY <1>2 DEF Ready
<1>4. Owned'  BY <1>2 DEF WholeInv, Owned
<1>5. Unused'  BY <1>2 DEF WholeInv, Unused, Encoding
<1>6. \A q \in Request, d \in FileName : q \in Handling(d)' => q \in Handling(d)
  BY <1>2 DEF Handling, Encoding
<1>7. \A q \in Request : Dest(q) \in FileName  BY <1>1 DEF Plain
<1>8. Noticed'
  <2>1. \A q \in Request : pc'[q] = "renaming" => proc'[q] = "done"
    BY <1>2 DEF WholeInv, Noticed, Encoding
  <2> QED  BY <1>2, <1>6, <1>7, <2>1 DEF WholeInv, Noticed
<1>9. Dest(r) \notin doubled /\ proc'[r] = "done" => Ready(scratch[Dest(r)])'
  <2> SUFFICES ASSUME Dest(r) \notin doubled, proc'[r] = "done"
               PROVE  Ready(scratch[Dest(r)])'
    OBVIOUS
  <2>1. EncoderEnds(r)
    BY <1>1 DEF EncoderFindsNoClip, EncoderFails, Plain
  <2>2. /\ proc[r] = "writing" /\ file[r] = scratch[Dest(r)] /\ file[r] \notin mixed
        /\ file[r] # NoFile
    BY <1>1, <2>1 DEF EncoderEnds, WholeInv, Alone, Plain
  <2>3. Writers(file[r]) = {r}
    <3>1. ASSUME NEW q \in Request, proc[q] = "writing", file[q] = file[r], q # r
          PROVE  FALSE
      <4>1. Dest(q) = Dest(r)  BY <2>2, <3>1 DEF WholeInv, Owned
      <4>2. q \in Handling(Dest(r)) /\ r \in Handling(Dest(r))
        BY <2>2, <3>1, <4>1 DEF Handling, Encoding
      <4> QED  BY <3>1, <4>2 DEF WholeInv, Noticed
    <3> QED  BY <2>2, <3>1 DEF Writers
  <2>4. whole' = whole \cup {file[r]}  BY <2>1, <2>2, <2>3 DEF EncoderEnds
  <2> QED  BY <1>2, <2>2, <2>4 DEF Ready
<1>10. Alone'
  <2> SUFFICES ASSUME NEW q \in Request, Dest(q) \notin doubled
               PROVE  /\ proc'[q] = "writing" =>
                           file'[q] = scratch[Dest(q)] /\ file'[q] \notin mixed
                      /\ pc[q] \in {"encoding", "renaming"} /\ proc'[q] = "done" =>
                           Ready(scratch[Dest(q)])'
    BY <1>2 DEF Alone
  <2>1. CASE q = r  BY <1>2, <1>9, <2>1
  <2>2. CASE q # r  BY <1>2, <2>2 DEF WholeInv, Alone, Ready
  <2> QED  BY <2>1, <2>2
<1>11. TornOnlyByDoubling'  BY <1>2 DEF WholeInv, TornOnlyByDoubling
<1>12. \A d \in FileName : d \notin doubled' => Ready(cached[d])'
  BY <1>2, <1>3 DEF WholeInv
<1> QED  BY <1>4, <1>5, <1>8, <1>10, <1>11, <1>12 DEF WholeInv

\* Taking the scratch name away, for the cached name or for nothing.
LEMMA WholeTake ==
  ASSUME TypeInv, WholeInv, NEW r \in Request, Discard(r) \/ Rename(r)
  PROVE  WholeInv'
<1> DEFINE c == Dest(r)
<1>1. Plain /\ c \in FileName  BY DEF TypeInv, Plain
<1>2. /\ UNCHANGED <<whole, mixed, clip, proc, file, doubled>>
      /\ pc[r] \in {"encoding", "renaming"} /\ proc[r] \in {"done", "failed"}
      /\ pc'[r] \in {"found", "over"} /\ \A q \in Request \ {r} : pc'[q] = pc[q]
      /\ scratch' = [scratch EXCEPT ![c] = NoFile]
      /\ \A q \in Request : reply'[q] = "torn" => reply[q] = "torn"
      /\ \/ cached' = cached
         \/ /\ cached' = [cached EXCEPT ![c] = scratch[c]]
            /\ pc[r] = "renaming"
  BY <1>1 DEF Discard, Rename, Answer, Goto, procs, Plain, WholeInv, Noticed
<1> HIDE DEF c
<1>3. /\ scratch'[c] = NoFile /\ cached'[c] \in {cached[c], scratch[c]}
      /\ \A d \in FileName \ {c} : scratch'[d] = scratch[d] /\ cached'[d] = cached[d]
  BY <1>1, <1>2 DEF Plain
<1>4. Owned'
  <2> SUFFICES ASSUME NEW d \in FileName
               PROVE  /\ scratch'[d] # NoFile => Dest(scratch'[d]) = d
                      /\ cached'[d] # NoFile => Dest(cached'[d]) = d
                      /\ scratch'[d] # NoFile => scratch'[d] # cached'[d]
    BY <1>2 DEF WholeInv, Owned
  <2>1. CASE d = c  BY <1>1, <1>3, <2>1 DEF WholeInv, Owned
  <2>2. CASE d # c
    <3>1. scratch'[d] = scratch[d] /\ cached'[d] = cached[d]  BY <1>3, <2>2
    <3> QED  BY <3>1 DEF WholeInv, Owned
  <2> QED  BY <2>1, <2>2
<1>5. Unused'
  <2>1. ASSUME NEW q \in Request, proc[q] \in {"none", "starting"}, NEW d \in FileName
        PROVE  scratch'[d] # q /\ cached'[d] # q
    <3>1. NoFile # q  BY SetsAssumption
    <3>2. scratch[d] # q /\ cached[d] # q  BY <2>1 DEF WholeInv, Unused
    <3>3. scratch'[d] \in {scratch[d], NoFile} /\ cached'[d] \in {scratch[d], cached[d]}
      BY <1>3
    <3> QED  BY <3>1, <3>2, <3>3
  <2>2. ASSUME NEW q \in Request, pc'[q] \in {"new", "probing", "queued"}
        PROVE  proc[q] = "none"
    <3>1. pc'[q] = pc[q]  BY <1>2, <2>2
    <3> QED  BY <2>2, <3>1 DEF WholeInv, Unused
  <2> QED  BY <1>2, <2>1, <2>2 DEF Unused
<1>6. \A q \in Request, d \in FileName : q \in Handling(d)' => q \in Handling(d)
  BY <1>2 DEF Handling, Encoding
<1>7. \A q \in Request : Dest(q) \in FileName  BY <1>1 DEF Plain
<1>8. Noticed'
  <2>1. \A q \in Request : pc'[q] = "renaming" => proc'[q] = "done"
    BY <1>2 DEF WholeInv, Noticed
  <2> QED  BY <1>2, <1>6, <1>7, <2>1 DEF WholeInv, Noticed
<1>9. c \notin doubled => \A q \in Request \ {r} : q \notin Handling(c)
  BY <1>2 DEF WholeInv, Noticed, Handling, c
<1>10. Alone'
  <2> SUFFICES ASSUME NEW q \in Request, Dest(q) \notin doubled
               PROVE  /\ proc[q] = "writing" =>
                           file[q] = scratch'[Dest(q)] /\ file[q] \notin mixed
                      /\ pc'[q] \in {"encoding", "renaming"} /\ proc[q] = "done" =>
                           Ready(scratch[Dest(q)])'
    BY <1>2 DEF Alone
  <2>1. CASE q = r  BY <1>2, <2>1
  <2>2. CASE q # r /\ Dest(q) = c
    <3>1. q \notin Handling(c)  BY <1>9, <2>2
    <3> QED  BY <1>2, <2>2, <3>1 DEF Handling, Encoding
  <2>3. CASE q # r /\ Dest(q) # c
    <3>1. scratch'[Dest(q)] = scratch[Dest(q)]  BY <1>3, <1>7, <2>3
    <3> QED  BY <1>2, <2>3, <3>1 DEF WholeInv, Alone, Ready
  <2> QED  BY <2>1, <2>2, <2>3
<1>11. \A d \in FileName : d \notin doubled' => Ready(cached[d])'
  <2>1. pc[r] = "renaming" /\ c \notin doubled => Ready(scratch[c])
    BY DEF WholeInv, Noticed, Alone, c
  <2>2. cached'[c] = cached[c] \/ (pc[r] = "renaming" /\ cached'[c] = scratch[c])
    BY <1>1, <1>2 DEF Plain
  <2> QED  BY <1>1, <1>2, <1>3, <2>1, <2>2 DEF WholeInv, Ready
<1>12. TornOnlyByDoubling'  BY <1>2 DEF WholeInv, TornOnlyByDoubling
<1> QED  BY <1>4, <1>5, <1>8, <1>10, <1>11, <1>12 DEF WholeInv

\* An eviction removes a cached name and touches no file.
LEMMA WholeEvict ==
  ASSUME TypeInv, WholeInv, NEW s \in Sync, NEW n \in FileName, EvictOne(s, n)
  PROVE  WholeInv'
<1>1. Plain  BY DEF TypeInv
<1>2. /\ UNCHANGED <<scratch, whole, mixed, pc, reply, clip, proc, file, doubled>>
      /\ \A d \in FileName : cached'[d] \in {cached[d], NoFile}
  BY <1>1 DEF EvictOne, reqs, procs, Plain
<1>3. Owned'  BY <1>2 DEF WholeInv, Owned
<1>4. Unused'  BY <1>2, SetsAssumption DEF WholeInv, Unused
<1>5. Noticed'  BY <1>2 DEF WholeInv, Noticed, Handling, Encoding
<1>6. Alone'  BY <1>2 DEF WholeInv, Alone, Ready
<1>7. \A d \in FileName : d \notin doubled' => Ready(cached[d])'
  BY <1>2 DEF WholeInv, Ready
<1>8. TornOnlyByDoubling'  BY <1>2 DEF WholeInv, TornOnlyByDoubling
<1> QED  BY <1>3, <1>4, <1>5, <1>6, <1>7, <1>8 DEF WholeInv

\* After a crash no ffmpeg runs and no request goes on; the files stay as they were.
LEMMA WholeCrash ==
  ASSUME TypeInv, WholeInv, Crash
  PROVE  WholeInv'
<1>1. Plain  BY DEF TypeInv
<1>2. /\ UNCHANGED <<scratch, cached, whole, clip, doubled>>
      /\ \A r \in Request :
           /\ pc'[r] \in {"new", "over"} /\ (pc'[r] = "new" => pc[r] = "new")
           /\ proc'[r] \notin {"starting", "writing"} /\ file'[r] = NoFile
           /\ proc'[r] \in {proc[r], "failed"} /\ (proc'[r] # proc[r] => Encoding(r))
           /\ reply'[r] = "torn" => reply[r] = "torn"
  BY <1>1 DEF Crash, files, Plain, ProcState, Encoding
<1>3. Owned'  BY <1>2 DEF WholeInv, Owned
<1>4. Unused'  BY <1>2 DEF WholeInv, Unused, Encoding
<1>5. \A r \in Request, c \in FileName : r \notin Handling(c)'
  BY <1>2 DEF Handling, Encoding
<1>6. \A r \in Request : Dest(r) \in FileName  BY <1>1 DEF Plain
<1>7. Noticed' /\ Alone'  BY <1>2, <1>5, <1>6 DEF Noticed, Alone
<1>8. \A c \in FileName : c \notin doubled' => Ready(cached[c])'
  BY <1>2 DEF WholeInv, Ready
<1>9. TornOnlyByDoubling'  BY <1>2 DEF WholeInv, TornOnlyByDoubling
<1> QED  BY <1>3, <1>4, <1>7, <1>8, <1>9 DEF WholeInv

\* At the start there are no files.
LEMMA WholeInit == Init => WholeInv
<1> SUFFICES ASSUME Init PROVE WholeInv  OBVIOUS
<1>1. Plain  BY TypeInit DEF TypeInv
<1>2. Owned  BY DEF Init, Owned
<1>3. Unused  BY SetsAssumption DEF Init, Unused
<1>4. Noticed /\ Alone  BY DEF Init, Noticed, Alone, Handling, Encoding
<1>5. \A c \in FileName : Ready(cached[c])  BY DEF Init, Ready
<1>6. TornOnlyByDoubling  BY DEF Init, TornOnlyByDoubling
<1> QED  BY <1>2, <1>3, <1>4, <1>5, <1>6 DEF WholeInv

\* Every transcode that is served is complete unless two ffmpegs worked under its name
\* at one time, for any requests and any faults: crashes, dropped handlers, failures.
THEOREM TornNeedsDoubling == Spec => []TornOnlyByDoubling
<1>1. TypeInv /\ WholeInv /\ [Next]_vars => WholeInv'
  BY Steps, WholeSimple, WholeStart, WholeOpen, WholeEnd, WholeTake, WholeEvict, WholeCrash
<1>2. WholeInv => TornOnlyByDoubling  BY DEF WholeInv
<1> QED  BY <1>1, <1>2, WholeInit, Typed, PTL DEF Spec
-----------------------------------------------------------------------------
(* Clips that stay are served *)

\* As long as a clip is on disk and one ffmpeg works on it, each stage of a request finds
\* what the stage before left: the scratch file, then the cached one.
OnItsWay(r) ==
  /\ pc[r] = "encoding" /\ proc[r] \in {"writing", "done"} => scratch[Dest(r)] # NoFile
  /\ pc[r] = "renaming" => scratch[Dest(r)] # NoFile
  /\ pc[r] = "found" => cached[Dest(r)] # NoFile
  /\ proc[r] # "failed"
  /\ reply[r] \notin {"refused", "missing", "error"}

\* The clip has been on disk all the time, one ffmpeg at a time has worked under its name,
\* and the name is its id.
Steady(r) == clip[r] \notin missed /\ Dest(r) \notin doubled /\ Dest(r) = clip[r]

ServedInv ==
  /\ \A c \in Clip \ missed : c \in disk /\ c \in live
  /\ suffered = {} =>
       /\ \A s \in Sync : at[s] = "evicting" => Clip \ missed \subseteq keep[s]
       /\ \A r \in Request : Steady(r) => OnItsWay(r)

\* A clip that has gone from the disk, or was in two ffmpegs' hands, stays so.
LEMMA WorldStep ==
  ASSUME TypeInv, [Next]_vars
  PROVE  /\ clip' = clip /\ missed \subseteq missed' /\ doubled \subseteq doubled'
         /\ suffered' = {} => suffered = {} /\ NoFault
<1>1. NoFault \/ \E f \in AllFaults : Fault(f)
  BY Steps
  DEF Resolve, Refuse, UseOriginal, UseCached, Wait, NeedsTranscode, FoundAfterAll, StartEncoder,
      CheckOutput, Discard, Rename, RenameFails, Serve, ServeOriginal, Drop,
      EncoderOpens, EncoderFindsNoClip, EncoderEnds, EncoderFails, RebuildIndex,
      ReadLive, EvictionDone, EvictOne, Leave, Arrive, Crash, vars, NoFault
<1>2. suffered' = {} => suffered = {} /\ NoFault  BY <1>1 DEF Fault, NoFault
<1>3. clip' = clip /\ missed \subseteq missed' /\ doubled \subseteq doubled'
  BY Steps
  DEF Resolve, Refuse, UseOriginal, UseCached, Wait, FoundAfterAll, StartEncoder,
      CheckOutput, Discard, Rename, RenameFails, Serve, ServeOriginal, Drop,
      EncoderOpens, EncoderFindsNoClip, EncoderEnds, EncoderFails, RebuildIndex,
      ReadLive, EvictionDone, EvictOne, Leave, Arrive, Crash, vars,
      world, reqs, procs
<1> QED  BY <1>2, <1>3

\* What a step must leave in place for the requests that it does not belong to.
LEMMA ServedStep ==
  ASSUME TypeInv, ServedInv, [Next]_vars, NoFault,
         \A c \in Clip \ missed' : c \in disk' /\ c \in live',
         \A s \in Sync : at'[s] = "evicting" => Clip \ missed' \subseteq keep'[s],
         suffered = {} =>
           \A q \in Request : Steady(q)' => OnItsWay(q)'
  PROVE  ServedInv'
<1>1. suffered' = suffered  BY DEF NoFault
<1> QED  BY <1>1 DEF ServedInv

\* The steps of one request keep it on its way, and leave the others' files alone.
LEMMA ServedRequest ==
  ASSUME TypeInv, WholeInv, ServedInv, [Next]_vars, suffered' = {}, NEW r \in Request,
         \/ Resolve(r) \/ Refuse(r) \/ UseOriginal(r) \/ UseCached(r) \/ Wait(r)
         \/ FoundAfterAll(r) \/ StartEncoder(r) \/ CheckOutput(r) \/ Discard(r)
         \/ Rename(r) \/ RenameFails(r) \/ Serve(r) \/ ServeOriginal(r) \/ Drop(r)
         \/ EncoderOpens(r) \/ EncoderFindsNoClip(r) \/ EncoderEnds(r) \/ EncoderFails(r)
  PROVE  ServedInv'
<1>1. Plain /\ clip' = clip /\ NoFault /\ suffered = {} /\ doubled \subseteq doubled'
  BY WorldStep DEF TypeInv
<1>2. /\ \A q \in Request : clip[q] \in Clip
      /\ pc \in [Request -> Stage] /\ reply \in [Request -> Reply]
      /\ proc \in [Request -> ProcState] /\ scratch \in [FileName -> Name]
      /\ cached \in [FileName -> Name]
  BY <1>1 DEF Plain
<1>3. UNCHANGED <<world, syncs>>
  BY DEF Resolve, Refuse, UseOriginal, UseCached, Wait, FoundAfterAll, StartEncoder,
         CheckOutput, Discard, Rename, RenameFails, Serve, ServeOriginal, Drop,
         EncoderOpens, EncoderFindsNoClip, EncoderEnds, EncoderFails
<1>4. ASSUME NEW q \in Request, Steady(q)'
      PROVE  OnItsWay(q)'
  <2>1. /\ OnItsWay(q) /\ clip[q] \in disk \cap live
        /\ Dest(q) \notin doubled' /\ Dest(q)' = Dest(q) /\ Dest(q) \in FileName
    BY <1>1, <1>2, <1>3, <1>4 DEF ServedInv, Steady, world
  <2>2. CASE q = r
    <3> USE <1>1, <1>2, <2>1, <2>2 DEF OnItsWay, Goto, Answer, NoFault
    <3>f. \A k \in AllFaults : ~Fault(k)  BY DEF Fault
    <3>1. CASE \/ Resolve(r) \/ Refuse(r) \/ UseOriginal(r) \/ UseCached(r) \/ Wait(r)
               \/ FoundAfterAll(r)
      BY <3>1, <3>f DEF Resolve, Refuse, UseOriginal, UseCached, Wait, NeedsTranscode,
                        FoundAfterAll, files, procs
    <3>2. CASE StartEncoder(r)  BY <3>2 DEF StartEncoder, files
    <3>3. CASE CheckOutput(r)  BY <3>3 DEF CheckOutput, files, procs
    <3>4. CASE Discard(r)  BY <3>4 DEF Discard
    <3>5. CASE Rename(r)  BY <3>5 DEF Rename, procs
    <3>6. CASE RenameFails(r)  BY <3>6, <3>f DEF RenameFails
    <3>7. CASE Serve(r)  BY <3>7 DEF Serve, files, procs
    <3>8. CASE ServeOriginal(r)  BY <3>8 DEF ServeOriginal, files, procs
    <3>9. CASE Drop(r) \/ EncoderFails(r)  BY <3>9, <3>f DEF Drop, EncoderFails
    <3>10. CASE EncoderOpens(r)
      BY <3>10, SetsAssumption DEF EncoderOpens, reqs
    <3>11. CASE EncoderFindsNoClip(r)  BY <3>11 DEF EncoderFindsNoClip
    <3>12. CASE EncoderEnds(r)  BY <3>12 DEF EncoderEnds, reqs
    <3> QED  BY <3>1, <3>2, <3>3, <3>4, <3>5, <3>6, <3>7, <3>8, <3>9, <3>10, <3>11, <3>12
  <2>3. CASE q # r
    <3>1. pc'[q] = pc[q] /\ reply'[q] = reply[q] /\ proc'[q] = proc[q]
      BY <1>2, <2>3
      DEF Resolve, Refuse, UseOriginal, UseCached, Wait, FoundAfterAll, StartEncoder,
          CheckOutput, Discard, Rename, RenameFails, Serve, ServeOriginal, Drop,
          EncoderOpens, EncoderFindsNoClip, EncoderEnds, EncoderFails, Goto, Answer,
          reqs, procs
    <3>2. cached[Dest(q)] # NoFile => cached'[Dest(q)] # NoFile
      <4>1. CASE Rename(r)  BY <1>2, <2>1, <4>1 DEF Rename
      <4>2. CASE ~Rename(r)
        BY <4>2
        DEF Resolve, Refuse, UseOriginal, UseCached, Wait, FoundAfterAll, StartEncoder,
            CheckOutput, Discard, RenameFails, Serve, ServeOriginal, Drop,
            EncoderOpens, EncoderFindsNoClip, EncoderEnds, EncoderFails, files
      <4> QED  BY <4>1, <4>2
    <3>3. ASSUME scratch[Dest(q)] # NoFile, pc[q] \in {"encoding", "renaming"}
          PROVE  scratch'[Dest(q)] # NoFile
      <4>1. CASE Rename(r) \/ Discard(r)
        <5>1. pc[r] \in {"encoding", "renaming"}
              /\ scratch' = [scratch EXCEPT ![Dest(r)] = NoFile]
          BY <4>1 DEF Rename, Discard, Goto, Answer
        <5>2. Dest(r) # Dest(q)
          BY <1>1, <2>1, <2>3, <3>3, <5>1 DEF WholeInv, Noticed, Handling
        <5> QED  BY <1>2, <2>1, <3>3, <5>1, <5>2
      <4>2. CASE EncoderOpens(r)
        BY <1>2, <2>1, <3>3, <4>2, SetsAssumption DEF EncoderOpens
      <4>3. CASE ~(Rename(r) \/ Discard(r) \/ EncoderOpens(r))
        BY <3>3, <4>3
        DEF Resolve, Refuse, UseOriginal, UseCached, Wait, FoundAfterAll, StartEncoder,
            CheckOutput, RenameFails, Serve, ServeOriginal, Drop,
            EncoderFindsNoClip, EncoderEnds, EncoderFails, files
      <4> QED  BY <4>1, <4>2, <4>3
    <3> QED  BY <1>1, <2>1, <3>1, <3>2, <3>3 DEF OnItsWay
  <2> QED  BY <2>2, <2>3
<1> QED  BY <1>1, <1>3, <1>4, ServedStep DEF ServedInv, world, syncs

\* An eviction spares the clips that the index called live a moment ago.
LEMMA ServedSync ==
  ASSUME TypeInv, ServedInv, [Next]_vars, suffered' = {}, NEW s \in Sync,
         RebuildIndex(s) \/ ReadLive(s) \/ EvictionDone(s) \/ \E n \in FileName : EvictOne(s, n)
  PROVE  ServedInv'
<1>1. Plain /\ NoFault /\ suffered = {}  BY WorldStep DEF TypeInv
<1>2. ~Fault("db")  BY <1>1 DEF Fault, NoFault
<1>3. UNCHANGED <<disk, missed, doubled, scratch, pc, reply, clip, proc>>
  BY DEF RebuildIndex, ReadLive, EvictionDone, EvictOne, world, files, reqs, procs
<1>4. \A c \in Clip \ missed : c \in disk' /\ c \in live'
  BY <1>3 DEF ServedInv, RebuildIndex, ReadLive, EvictionDone, EvictOne
<1>5. \A t \in Sync : at'[t] = "evicting" => Clip \ missed \subseteq keep'[t]
  BY <1>1, <1>2, <1>3
  DEF ServedInv, RebuildIndex, ReadLive, EvictionDone, EvictOne, Plain
<1>6. \A n \in FileName : n \in Clip \ missed => cached'[n] = cached[n]
  BY <1>1 DEF ServedInv, RebuildIndex, ReadLive, EvictionDone, EvictOne, files, Plain
<1>7. ASSUME NEW q \in Request, Steady(q)' PROVE OnItsWay(q)'
  <2>1. Steady(q) /\ OnItsWay(q) /\ Dest(q) \in Clip \ missed /\ Dest(q) \in FileName
    BY <1>1, <1>3, <1>7 DEF ServedInv, Steady, Plain
  <2> QED  BY <1>3, <1>6, <2>1 DEF OnItsWay
<1> QED  BY <1>1, <1>3, <1>4, <1>5, <1>7, ServedStep

\* Every step keeps ServedInv.
LEMMA ServedAll == TypeInv /\ WholeInv /\ ServedInv /\ [Next]_vars => ServedInv'
<1> SUFFICES ASSUME TypeInv, WholeInv, ServedInv, [Next]_vars PROVE ServedInv'  OBVIOUS
<1>1. CASE suffered' # {}
  <2>1. \A c \in Clip \ missed' : c \in disk' /\ c \in live'
    BY Steps
    DEF ServedInv, Resolve, Refuse, UseOriginal, UseCached, Wait, FoundAfterAll,
        StartEncoder, CheckOutput, Discard, Rename, RenameFails, Serve, ServeOriginal,
        Drop, EncoderOpens, EncoderFindsNoClip, EncoderEnds, EncoderFails, RebuildIndex,
        ReadLive, EvictionDone, EvictOne, Leave, Arrive, Crash, vars, world, syncs
  <2> QED  BY <1>1, <2>1 DEF ServedInv
<1>2. CASE suffered' = {}
  <2>1. NoFault /\ suffered = {} /\ ~Crash
    BY <1>2, WorldStep DEF Crash, Fault, NoFault
  <2>2. ASSUME NEW c \in Clip, Leave(c) \/ Arrive(c) PROVE ServedInv'
    <3>1. /\ UNCHANGED <<live, at, keep, scratch, cached, pc, reply, clip, proc, doubled>>
          /\ missed \subseteq missed' /\ \A d \in Clip \ missed' : d \in disk => d \in disk'
      BY <2>2 DEF Leave, Arrive, syncs, files, reqs, procs
    <3> QED  BY <2>1, <3>1, ServedStep DEF ServedInv, OnItsWay, Steady
  <2>3. CASE UNCHANGED vars
    BY <2>3 DEF vars, world, syncs, files, reqs, procs, ServedInv, OnItsWay, Steady
  <2> QED  BY <1>2, <2>1, <2>2, <2>3, Steps, ServedRequest, ServedSync
<1> QED  BY <1>1, <1>2

\* Without a fault, a request for a clip that stays on disk, whose id is its own safe name,
\* and under whose name no two ffmpegs worked at once, is never refused or answered with an
\* error, whatever the evictions do, and whatever ids the other clips have.
THEOREM LiveClipsServed == Spec => []LiveClipIsServed
<1>1. Init => ServedInv
  BY DEF Init, ServedInv, OnItsWay, Steady
<1>2. TypeInv /\ ServedInv => LiveClipIsServed
  BY DEF TypeInv, Plain, ServedInv, OnItsWay, Steady, LiveClipIsServed
<1>3. TypeInv /\ WholeInv /\ [Next]_vars => WholeInv'
  BY Steps, WholeSimple, WholeStart, WholeOpen, WholeEnd, WholeTake, WholeEvict, WholeCrash
<1> QED  BY <1>1, <1>2, <1>3, ServedAll, WholeInit, Typed, PTL DEF Spec

=============================================================================
