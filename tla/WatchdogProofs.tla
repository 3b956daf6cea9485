---------------------------- MODULE WatchdogProofs ----------------------------
(***************************************************************************)
(* Theorems about Watchdog, for any settings, any stretch of time and any  *)
(* faults.                                                                 *)
(***************************************************************************)
EXTENDS Watchdog, FiniteSetTheorems, WellFoundedInduction, TLAPS

(* Every step of the specification, one named action each. *)
LEMMA Steps ==
  ASSUME [Next]_vars
  PROVE  \/ TickDisabled \/ ReadClocks \/ Recovered \/ Detected \/ DetectedAgain
         \/ Waiting \/ Confirm
         \/ DockerRestarts \/ DockerFails \/ DockerReplyLost \/ MarkRestart \/ ClearStalled
         \/ Sync \/ SyncFails \/ SaveConfig
         \/ EventRecorded \/ ClipDownloaded \/ GetsStuck
         \/ TimePasses \/ Crash \/ Restart
         \/ UNCHANGED vars
  BY DEF Next, Tick

(* NULL or a time that has been. *)
Past == {Never} \cup {t \in Nat : t <= now}

(* The types the argument needs. *)
Timely ==
  /\ now \in Nat
  /\ since \in Past /\ last \in Past /\ streak \in Past /\ restarted \in Past
  /\ hasty \in Nat /\ faults \in Nat
  /\ cfg \in Config /\ held.cfg \in Config
  /\ up \in BOOLEAN

(* stalled_since is older than the row of sick readings it stands for. *)
SinceWrong == since # Never /\ (streak = Never \/ streak > since)

(* last_restart is older than the last restart. *)
LastWrong == restarted # Never /\ (last = Never \/ last < restarted)

(* A mark that is wrong is owed to a fault that no hasty restart has used up.  A *)
(* restart puts both marks wrong for as long as it takes to write them.          *)
Owed ==
  /\ hasty <= faults
  /\ pc \in {"idle", "counting", "docker"} /\ (SinceWrong \/ LastWrong) => hasty < faults
  /\ pc \in {"marking", "clearing"} => streak = Never /\ restarted = now
  /\ pc = "clearing" /\ LastWrong => hasty < faults
  /\ pc = "docker" => Confirmed /\ streak # Never
  /\ ~up => pc = "idle"
  /\ pc \in {"idle", "counting", "docker", "marking", "clearing"}

Inv == Timely /\ Owed

(* At first there are no marks. *)
LEMMA InitInv == Init => Inv
<1> SUFFICES ASSUME Init PROVE Inv
  OBVIOUS
<1>1. cfg \in Config
  BY ConfigAssumption DEF Init
<1>2. up \in BOOLEAN
  BY Zenon DEF Init
<1>3. QED
  BY <1>1, <1>2 DEF Init, Inv, Timely, Past, Owed, SinceWrong, LastWrong

(* Every step keeps Inv. *)
LEMMA InvStep == Inv /\ [Next]_vars => Inv'
<1> SUFFICES ASSUME Inv, [Next]_vars PROVE Inv'
  OBVIOUS
<1> USE NeverAssumption
    DEF Inv, Timely, Past, Owed, SinceWrong, LastWrong, marks, ghosts, Fault, NoFault,
        Statement, Write
<1>1. CASE TickDisabled \/ ReadClocks
  BY <1>1 DEF TickDisabled, ReadClocks
<1>2. CASE Recovered
  BY <1>2 DEF Recovered, Return
<1>3. CASE Detected \/ DetectedAgain
  BY <1>3 DEF Detected, DetectedAgain, Return, Seen
<1>4. CASE Waiting
  BY <1>4 DEF Waiting, Return, Seen
<1>5. CASE Confirm
  BY <1>5 DEF Confirm, Confirmed, Seen
<1>6. CASE DockerRestarts \/ DockerReplyLost
  <2>1. held.cfg.grace \in Nat /\ held.cfg.cooldown \in Nat
    BY DEF Config
  <2>2. ~SinceWrong /\ ~LastWrong => Justified
    BY <1>6, <2>1 DEF DockerRestarts, DockerReplyLost, Confirmed, Justified
  <2>3. hasty' <= faults /\ hasty' \in Nat
    BY <1>6, <2>2 DEF DockerRestarts, DockerReplyLost, ContainerRestarts
  <2>4. CASE DockerRestarts
    BY <2>4, <2>3 DEF DockerRestarts, ContainerRestarts
  <2>5. CASE DockerReplyLost
    BY <2>5, <2>3 DEF DockerReplyLost, ContainerRestarts, Return
  <2>6. QED
    BY <1>6, <2>4, <2>5
<1>7. CASE DockerFails
  BY <1>7 DEF DockerFails, Return
<1>8. CASE MarkRestart
  BY <1>8 DEF MarkRestart
<1>9. CASE ClearStalled
  BY <1>9 DEF ClearStalled, Return
<1>10. CASE Sync
  BY <1>10 DEF Sync, Confirmed
<1>11. CASE SyncFails
  BY <1>11 DEF SyncFails, Confirmed
<1>12. CASE SaveConfig
  <2>1. cfg' \in Config /\ held'.cfg \in Config
    BY <1>12, ConfigAssumption DEF SaveConfig
  <2>2. pc = "docker" => held' = held
    BY <1>12 DEF SaveConfig
  <2>3. QED
    BY <1>12, <2>1, <2>2 DEF SaveConfig, Confirmed
<1>13. CASE EventRecorded \/ ClipDownloaded \/ GetsStuck
  BY <1>13 DEF EventRecorded, ClipDownloaded, GetsStuck, Confirmed
<1>14. CASE TimePasses
  BY <1>14 DEF TimePasses
<1>15. CASE Crash
  <2>1. up' \in BOOLEAN
    BY <1>15, Zenon DEF Crash
  <2>2. QED
    BY <1>15, <2>1 DEF Crash
<1>16. CASE Restart
  <2>1. up' \in BOOLEAN
    BY <1>16, Zenon DEF Restart
  <2>2. QED
    BY <1>16, <2>1 DEF Restart
<1>17. CASE UNCHANGED vars
  BY <1>17 DEF vars, Confirmed
<1>18. QED
  BY <1>1, <1>2, <1>3, <1>4, <1>5, <1>6, <1>7, <1>8, <1>9, <1>10, <1>11, <1>12,
     <1>13, <1>14, <1>15, <1>16, <1>17, Steps

(* watchdog.rs:265-266: no restart before its time that a fault of its own does *)
(* not explain.                                                                 *)
THEOREM HastyNeedsFault == Spec => []HastyOnlyByFault
<1>1. Inv => HastyOnlyByFault
  BY DEF Inv, Owed, HastyOnlyByFault
<1>2. QED
  BY <1>1, InitInv, InvStep, PTL DEF Spec

-----------------------------------------------------------------------------
(* Types *)

(* Of some times, one is the latest. *)
LEMMA LatestTime ==
  ASSUME NEW S, S \subseteq Time, S # {}
  PROVE  \E t \in S : \A u \in S : u <= t
<1> DEFINE T == {k \in Nat : End - k \in S}
<1>1. PICK s \in S : TRUE
  OBVIOUS
<1>2. End - s \in Nat /\ End - (End - s) = s
  BY BoundAssumption DEF Time
<1>3. T \subseteq Nat /\ T # {}
  BY <1>1, <1>2
<1>4. PICK k \in T : \A m \in T : ~(<<m, k>> \in OpToRel(<, Nat))
  BY <1>3, NatLessThanWellFounded, WFMin
<1>5. \A m \in T : ~(m < k)
  BY <1>4 DEF OpToRel
<1>6. ASSUME NEW u \in S PROVE u <= End - k
  <2>1. End - u \in Nat /\ End - (End - u) = u
    BY BoundAssumption DEF Time
  <2>2. ~(End - u < k)
    BY <1>5, <2>1
  <2>3. QED
    BY <2>1, <2>2, BoundAssumption
<1>7. QED
  BY <1>6

(* Events that have been recorded are recorded at a time. *)
LEMMA RecordedAtTime ==
  ASSUME start \in [Event -> Mark], NEW e \in Recorded
  PROVE  e \in Event /\ start[e] \in Time /\ start[e] # Never
  BY DEF Recorded, Mark

(* MAX(start) is the time of one of the rows. *)
LEMMA NewestOf ==
  ASSUME start \in [Event -> Mark], NEW S, S \subseteq Recorded
  PROVE  /\ S = {} => Newest(S) = Never
         /\ S # {} => /\ Newest(S) \in Time /\ Newest(S) # Never
                      /\ \E e \in S : start[e] = Newest(S)
                      /\ \A e \in S : start[e] <= Newest(S)
<1>1. S = {} => Newest(S) = Never
  BY DEF Newest
<1>2. ASSUME S # {}
      PROVE  /\ Newest(S) \in Time /\ Newest(S) # Never
             /\ \E e \in S : start[e] = Newest(S)
             /\ \A e \in S : start[e] <= Newest(S)
  <2> DEFINE R == {start[e] : e \in S}
  <2>1. R \subseteq Time /\ R # {}
    BY <1>2, RecordedAtTime
  <2>2. \E t \in R : \A u \in R : u <= t
    BY <2>1, LatestTime
  <2>3. \E t \in R : \A e \in S : start[e] <= t
    BY <2>2
  <2>4. Newest(S) = CHOOSE t \in R : \A e \in S : start[e] <= t
    BY <1>2 DEF Newest
  <2>5. Newest(S) \in R /\ \A e \in S : start[e] <= Newest(S)
    BY <2>3, <2>4
  <2>6. Newest(S) \in Time
    BY <2>1, <2>5
  <2>7. Newest(S) # Never
    BY <2>6, NeverAssumption, BoundAssumption DEF Time
  <2>8. QED
    BY <2>5, <2>6, <2>7
<1>3. QED
  BY <1>1, <1>2

(* Clips are of events that have been recorded, and the index knows no others. *)
Filed ==
  /\ path \subseteq Recorded
  /\ index.known \subseteq Recorded /\ index.clips \subseteq path

(* The parts of TypeOK: what is true or false, and the rest. *)
Switches == stuck \in BOOLEAN /\ up \in BOOLEAN /\ calm \in BOOLEAN

Values ==
  /\ now \in Time
  /\ start \in [Event -> Mark] /\ path \subseteq Event
  /\ index.known \subseteq Event /\ index.clips \subseteq Event
  /\ cfg \in Config /\ {since, last, streak, restarted} \subseteq Mark
  /\ pc \in {"idle", "counting", "docker", "marking", "clearing"}
  /\ held \in [cfg : Config, read : [newest : Mark, captured : Mark]]
  /\ due \subseteq Loops
  /\ hasty \in Nat /\ ill \in Nat /\ faults \in Nat

LEMMA InitValues == Init => Switches /\ Values /\ Filed
<1> SUFFICES ASSUME Init PROVE Switches /\ Values /\ Filed
  OBVIOUS
<1>1. Switches
  BY Zenon DEF Init, Switches
<1>2. cfg \in Config /\ 0 \in Time /\ Never \in Mark
  BY ConfigAssumption, BoundAssumption DEF Init, Time, Mark
<1>3. path \subseteq Recorded
  BY DEF Init
<1>4. Filed
  BY <1>3 DEF Init, Filed
<1>5. start \in [Event -> Mark]
  BY <1>2 DEF Init, Mark
<1>6. path \subseteq Event
  BY <1>3 DEF Recorded
<1>7. held \in [cfg : Config, read : [newest : Mark, captured : Mark]]
  BY <1>2 DEF Init, Idle
<1>8. QED
  BY <1>1, <1>2, <1>4, <1>5, <1>6, <1>7 DEF Init, Values

LEMMA SwitchesStep == Switches /\ [Next]_vars => Switches'
<1> SUFFICES ASSUME Switches, [Next]_vars PROVE Switches'
  OBVIOUS
<1> USE DEF Switches, Statement, Write, Fault, NoFault, service, ContainerRestarts
<1>1. CASE TickDisabled \/ ReadClocks \/ Recovered \/ Detected
  BY <1>1, Zenon DEF TickDisabled, ReadClocks, Recovered, Detected
<1>2. CASE DetectedAgain \/ Waiting \/ Confirm
  BY <1>2, Zenon DEF DetectedAgain, Waiting, Confirm
<1>3. CASE DockerRestarts \/ DockerFails \/ DockerReplyLost
  BY <1>3, Zenon DEF DockerRestarts, DockerFails, DockerReplyLost
<1>4. CASE MarkRestart \/ ClearStalled
  BY <1>4, Zenon DEF MarkRestart, ClearStalled
<1>5. CASE Sync \/ SyncFails \/ SaveConfig
  BY <1>5, Zenon DEF Sync, SyncFails, SaveConfig
<1>6. CASE EventRecorded \/ ClipDownloaded \/ GetsStuck
  BY <1>6, Zenon DEF EventRecorded, ClipDownloaded, GetsStuck
<1>7. CASE TimePasses \/ Crash \/ Restart
  BY <1>7, Zenon DEF TimePasses, Crash, Restart
<1>8. CASE UNCHANGED vars
  BY <1>8, Zenon DEF vars
<1>9. QED
  BY <1>1, <1>2, <1>3, <1>4, <1>5, <1>6, <1>7, <1>8, Steps

LEMMA ValuesStep == Values /\ Filed /\ [Next]_vars => Values' /\ Filed'
<1> SUFFICES ASSUME Values, Filed, [Next]_vars PROVE Values' /\ Filed'
  OBVIOUS
<1> USE DEF Statement, Write, Fault, NoFault, service, marks, ghosts
<1>0. /\ now \in Mark /\ Never \in Mark /\ Idle \in [newest : Mark, captured : Mark]
  BY DEF Values, Mark, Idle
<1>1. CASE TickDisabled
  BY <1>1 DEF TickDisabled, Values, Filed, Recorded
<1>2. CASE ReadClocks
  <2>1. Newest(index.known) \in Mark /\ Newest(index.clips) \in Mark
    BY NewestOf DEF Values, Filed, Mark
  <2>2. held' \in [cfg : Config, read : [newest : Mark, captured : Mark]]
    BY <1>0, <1>2, <2>1 DEF ReadClocks, Values
  <2>3. QED
    BY <1>2, <2>2 DEF ReadClocks, Values, Filed, Recorded
<1>3. CASE Recovered
  BY <1>0, <1>3 DEF Recovered, Return, Values, Filed, Recorded
<1>4. CASE Detected \/ DetectedAgain
  BY <1>0, <1>4 DEF Detected, DetectedAgain, Return, Seen, Values, Filed, Recorded
<1>5. CASE Waiting \/ Confirm
  BY <1>0, <1>5 DEF Waiting, Confirm, Return, Seen, Values, Filed, Recorded
<1>6. CASE DockerRestarts \/ DockerReplyLost
  BY <1>0, <1>6
  DEF DockerRestarts, DockerReplyLost, ContainerRestarts, Return, Values, Filed, Recorded
<1>7. CASE DockerFails
  BY <1>0, <1>7 DEF DockerFails, Return, Values, Filed, Recorded
<1>8. CASE MarkRestart \/ ClearStalled
  BY <1>0, <1>8 DEF MarkRestart, ClearStalled, Return, Values, Filed, Recorded
<1>9. CASE Sync \/ SyncFails
  BY <1>9 DEF Sync, SyncFails, Values, Filed, Recorded
<1>10. CASE SaveConfig
  <2>1. cfg' \in Config
    BY <1>10, ConfigAssumption DEF SaveConfig
  <2>2. held' \in [cfg : Config, read : [newest : Mark, captured : Mark]]
    BY <1>10, <2>1 DEF SaveConfig, Values
  <2>3. QED
    BY <1>10, <2>1, <2>2 DEF SaveConfig, Values, Filed, Recorded
<1>11. CASE EventRecorded
  <2>1. PICK e \in Event : start[e] = Never /\ start' = [start EXCEPT ![e] = now]
    BY <1>11 DEF EventRecorded
  <2>2. start' \in [Event -> Mark]
    BY <1>0, <2>1 DEF Values
  <2>3. Recorded \subseteq Recorded'
    BY <2>1 DEF Values, Recorded
  <2>4. QED
    BY <1>11, <2>2, <2>3 DEF EventRecorded, Values, Filed
<1>12. CASE ClipDownloaded
  BY <1>12 DEF ClipDownloaded, Values, Filed, Recorded
<1>13. CASE GetsStuck
  BY <1>13 DEF GetsStuck, Values, Filed, Recorded
<1>14. CASE TimePasses
  <2>1. now' \in Time /\ ill' \in Nat
    BY <1>14, BoundAssumption DEF TimePasses, Values, Time
  <2>2. QED
    BY <1>14, <2>1 DEF TimePasses, Values, Filed, Recorded
<1>15. CASE Crash \/ Restart
  BY <1>0, <1>15 DEF Crash, Restart, Values, Filed, Recorded
<1>16. CASE UNCHANGED vars
  BY <1>16 DEF vars, Values, Filed, Recorded
<1>17. QED
  BY <1>1, <1>2, <1>3, <1>4, <1>5, <1>6, <1>7, <1>8, <1>9, <1>10, <1>11, <1>12, <1>13,
     <1>14, <1>15, <1>16, Steps

LEMMA Typing == Spec => [](Switches /\ Values /\ Filed)
  BY InitValues, SwitchesStep, ValuesStep, PTL DEF Spec

(* The variables keep their types. *)
THEOREM WatchdogTyped == Spec => []TypeOK
<1>1. Switches /\ Values => TypeOK
  BY Zenon DEF Switches, Values, TypeOK
<1>2. QED
  BY <1>1, Typing, PTL
-----------------------------------------------------------------------------
(* What a reading shows *)

(* Newest of the events in S that were recorded at s, and those of K that wait. *)
NewestIn(s, S) ==
  IF S = {} THEN Never ELSE CHOOSE t \in {s[e] : e \in S} : \A e \in S : s[e] <= t

LateIn(s, K, C, captured) == {e \in K \ C : captured = Never \/ s[e] > captured}

SickIn(s, K, C, newest, captured, t, grace) ==
  /\ newest # Never
  /\ IF captured # Never THEN newest - captured > grace ELSE t - newest > grace
  /\ Cardinality(LateIn(s, K, C, captured)) >= MinUncaptured

(* The index as it is shows the symptom. *)
IndexSick ==
  SickIn(start, index.known, index.clips, NewestIn(start, index.known),
         NewestIn(start, index.clips), now, cfg.grace)

LEMMA NewestIs == \A S : Newest(S) = NewestIn(start, S)
  BY DEF Newest, NewestIn

LEMMA StalledIs ==
  /\ Stalled = SickIn(start, Recorded, path, NewestIn(start, Recorded),
                      NewestIn(start, path), now, cfg.grace)
  /\ Stalled' = SickIn(start', Recorded', path', NewestIn(start', Recorded'),
                       NewestIn(start', path'), now', cfg'.grace)
<1> DEFINE read == [newest |-> Newest(Recorded), captured |-> Newest(path)]
           late == {e \in Recorded \ path : read.captured = Never \/ start[e] > read.captured}
<1>1. Stalled = Symptom(read, Cardinality(late), cfg.grace)
  BY Zenon DEF Stalled
<1>2. Stalled' = Symptom(read, Cardinality(late), cfg.grace)'
  BY Zenon DEF Stalled
<1>3. read.newest = NewestIn(start, Recorded) /\ read.captured = NewestIn(start, path)
  BY NewestIs
<1>4. /\ read'.newest = NewestIn(start', Recorded')
      /\ read'.captured = NewestIn(start', path')
  BY DEF Newest, NewestIn
<1>5. late = LateIn(start, Recorded, path, read.captured)
  BY DEF LateIn
<1>6. late' = LateIn(start', Recorded', path', read'.captured)
  BY DEF LateIn
<1> HIDE DEF read, late
<1>7. Stalled = SickIn(start, Recorded, path, read.newest, read.captured, now, cfg.grace)
  BY <1>1, <1>5, Zenon DEF Symptom, SickIn
<1>8. Stalled' = SickIn(start', Recorded', path', read'.newest, read'.captured, now', cfg'.grace)
  BY <1>2, <1>6, Zenon DEF Symptom, SickIn
<1>9. QED
  BY <1>3, <1>4, <1>7, <1>8

LEMMA SickIs ==
  /\ Sick = SickIn(start, index.known, index.clips, held.read.newest,
                   held.read.captured, now, held.cfg.grace)
  /\ Sick' = SickIn(start', index'.known, index'.clips, held'.read.newest,
                    held'.read.captured, now', held'.cfg.grace)
  BY Zenon DEF Sick, Symptom, Uncaptured, SickIn, LateIn

(* A reading depends on the events it is about and no others. *)
LEMMA SameNewest ==
  ASSUME NEW s, NEW r, NEW S, \A e \in S : s[e] \in Time /\ s[e] = r[e]
  PROVE  NewestIn(s, S) = NewestIn(r, S)
<1> DEFINE R == {s[e] : e \in S}
<1>1. R = {r[e] : e \in S} /\ R \subseteq Time
  OBVIOUS
<1>2. CASE S = {}
  BY <1>2 DEF NewestIn
<1>3. CASE S # {}
  <2>1. PICK t \in R : \A u \in R : u <= t
    BY <1>1, <1>3, LatestTime
  <2>2. NewestIn(s, S) = CHOOSE x \in R : \A e \in S : s[e] <= x
    BY <1>3 DEF NewestIn
  <2>3. NewestIn(s, S) \in R /\ \A u \in R : u <= NewestIn(s, S)
    BY <2>1, <2>2
  <2>4. NewestIn(r, S) = CHOOSE x \in R : \A e \in S : r[e] <= x
    BY <1>1, <1>3 DEF NewestIn
  <2>5. NewestIn(r, S) \in R /\ \A u \in R : u <= NewestIn(r, S)
    BY <1>1, <2>1, <2>4
  <2>6. QED
    BY <1>1, <2>3, <2>5, BoundAssumption DEF Time
<1>4. QED
  BY <1>2, <1>3

LEMMA SameSymptom ==
  ASSUME NEW s, NEW r, NEW K, NEW C, \A e \in K : s[e] = r[e], NEW n, NEW c, NEW t, NEW g
  PROVE  SickIn(s, K, C, n, c, t, g) = SickIn(r, K, C, n, c, t, g)
<1>1. LateIn(s, K, C, c) = LateIn(r, K, C, c)
  BY DEF LateIn
<1>2. QED
  BY <1>1 DEF SickIn

(* What waits is a finite set. *)
LEMMA LateFinite ==
  ASSUME NEW s, NEW K, NEW C, NEW c, K \subseteq Event
  PROVE  IsFiniteSet(LateIn(s, K, C, c))
<1>1. IsFiniteSet(Event)
  BY BoundAssumption, FS_Interval DEF Event
<1>2. LateIn(s, K, C, c) \subseteq Event
  BY DEF LateIn
<1>3. QED
  BY <1>1, <1>2, FS_Subset

(* What shows a turn ago shows still. *)
LEMMA SickLater ==
  ASSUME NEW s, NEW K, NEW C, NEW n \in Mark, NEW c \in Mark, NEW t \in Nat, NEW g \in Nat,
         SickIn(s, K, C, n, c, t, g)
  PROVE  SickIn(s, K, C, n, c, t + 1, g)
<1>1. n \in Nat
  BY BoundAssumption DEF SickIn, Mark, Time
<1>2. QED
  BY <1>1 DEF SickIn

(* A reading from before a sync and a count from after it show the symptom, if it was *)
(* there before and is there after.                                                  *)
LEMMA SickAcross ==
  ASSUME Values, Filed, IndexSick, Stalled
  PROVE  SickIn(start, Recorded, path, NewestIn(start, index.known),
                NewestIn(start, index.clips), now, cfg.grace)
<1> DEFINE n == NewestIn(start, index.known)
           c == NewestIn(start, index.clips)
           d == NewestIn(start, path)
           L == LateIn(start, Recorded, path, d)
           M == LateIn(start, Recorded, path, c)
<1>1. n # Never /\ (IF c # Never THEN n - c > cfg.grace ELSE now - n > cfg.grace)
  BY DEF IndexSick, SickIn
<1>2. Cardinality(L) >= MinUncaptured
  BY StalledIs DEF SickIn
<1>3. L \subseteq M
  <2>1. CASE c = Never
    BY <2>1 DEF LateIn
  <2>2. CASE c # Never
    <3>1. start \in [Event -> Mark] /\ index.clips \subseteq path /\ path \subseteq Recorded
      BY DEF Values, Filed
    <3>2. index.clips # {}
      BY <2>2 DEF NewestIn
    <3>3. /\ c \in Time /\ \E e \in index.clips : start[e] = c
          /\ d \in Time /\ d # Never /\ \A e \in path : start[e] <= d
      BY <3>1, <3>2, NewestOf, NewestIs
    <3>4. c <= d
      BY <3>1, <3>3
    <3>5. ASSUME NEW e \in L PROVE e \in M
      <4>1. e \in Recorded \ path /\ start[e] > d
        BY <3>3 DEF LateIn
      <4>2. start[e] \in Time
        BY <3>1, <4>1, RecordedAtTime
      <4>3. start[e] > c
        BY <3>3, <3>4, <4>1, <4>2, BoundAssumption DEF Time
      <4>4. QED
        BY <4>1, <4>3 DEF LateIn
    <3>6. QED
      BY <3>5
  <2>3. QED
    BY <2>1, <2>2
<1>4. IsFiniteSet(M)
  BY LateFinite DEF Recorded
<1>5. Cardinality(L) \in Nat /\ Cardinality(M) \in Nat /\ Cardinality(L) <= Cardinality(M)
  BY <1>3, <1>4, FS_Subset, FS_CardinalityType
<1>6. Cardinality(M) >= MinUncaptured
  BY <1>2, <1>5 DEF MinUncaptured
<1>7. QED
  BY <1>1, <1>6 DEF SickIn

-----------------------------------------------------------------------------
(* A stall that nobody gets in the way of *)

Grace == IF cfg.grace < 1 THEN 1 ELSE cfg.grace

(* By that time so many turns may have ended with a stall. *)
Soon(t, turns) ==
  \/ turns <= 1 + Grace + faults
  \/ last # Never /\ t - last <= cfg.cooldown + faults

(* The app runs, with the settings of its start, and a stall counts only if they ask for *)
(* its cure.                                                                             *)
Steady ==
  /\ up /\ held.cfg = cfg
  /\ pc # "idle" => "tick" \in due
  /\ pc \in {"marking", "clearing"} => ill = 0
  /\ ill > 0 => cfg.enabled /\ cfg.auto

(* After a sync the index is what upstream has; before it, a tick has read what the index *)
(* has.                                                                                   *)
Fresh ==
  /\ "sync" \notin due => index.known = Recorded /\ index.clips = path
  /\ pc = "counting" /\ "sync" \in due =>
       held.read = [newest   |-> NewestIn(start, index.known),
                    captured |-> NewestIn(start, index.clips)]

(* Where the last turn ended with a stall the index shows it; and where this turn will    *)
(* too, a tick in progress sees it whenever the sync came.                                *)
Seeing ==
  /\ ill > 0 /\ "sync" \in due => IndexSick
  /\ ill > 0 /\ "sync" \notin due /\ pc = "counting" /\ Stalled => Sick

(* The stall was noted a turn after it began, and each tick since then has waited for     *)
(* the grace period or the cooldown, or has failed.                                       *)
Noted == since # Never /\ since + ill <= now + 1

Acting ==
  /\ ill > 1 /\ "tick" \in due => Noted
  /\ ill > 0 /\ "tick" \notin due /\ Stalled => Noted /\ Soon(now + 1, ill + 1)
  /\ Soon(now, ill)

Calmly == calm => Steady /\ Fresh /\ Seeing /\ Acting

(* The steps of an app that nothing but Docker fails, and whose settings nobody changes. *)
CalmStep ==
  \/ TickDisabled
  \/ ReadClocks /\ held' = [cfg |-> cfg, read |-> [newest   |-> NewestIn(start, index.known),
                                                   captured |-> NewestIn(start, index.clips)]]
                /\ UNCHANGED faults
  \/ Recovered /\ since' = Never /\ UNCHANGED faults
  \/ Detected /\ since' = now /\ UNCHANGED faults
  \/ Waiting \/ Confirm \/ DockerRestarts \/ DockerFails
  \/ MarkRestart /\ last' = now /\ UNCHANGED faults
  \/ ClearStalled /\ since' = Never /\ UNCHANGED faults
  \/ Sync
  \/ EventRecorded \/ ClipDownloaded \/ GetsStuck
  \/ TimePasses
  \/ UNCHANGED vars

LEMMA CalmSteps ==
  ASSUME [Next]_vars, calm', calm => up
  PROVE  calm /\ CalmStep
<1> USE DEF Statement, Write, NoFault
<1>1. CASE TickDisabled
  BY <1>1 DEF TickDisabled, CalmStep
<1>2. CASE ReadClocks
  BY <1>2, NewestIs DEF ReadClocks, CalmStep
<1>3. CASE Recovered
  BY <1>3 DEF Recovered, CalmStep
<1>4. CASE Detected
  BY <1>4 DEF Detected, CalmStep
<1>5. CASE DetectedAgain
  BY <1>5 DEF DetectedAgain
<1>6. CASE Waiting \/ Confirm
  BY <1>6 DEF Waiting, Confirm, CalmStep
<1>7. CASE DockerRestarts \/ DockerFails
  BY <1>7 DEF DockerRestarts, DockerFails, CalmStep
<1>8. CASE DockerReplyLost
  BY <1>8 DEF DockerReplyLost
<1>9. CASE MarkRestart
  BY <1>9 DEF MarkRestart, CalmStep
<1>10. CASE ClearStalled
  BY <1>10 DEF ClearStalled, CalmStep
<1>11. CASE Sync
  BY <1>11 DEF Sync, CalmStep
<1>12. CASE SyncFails \/ SaveConfig \/ Crash
  BY <1>12 DEF SyncFails, SaveConfig, Crash
<1>13. CASE EventRecorded \/ ClipDownloaded \/ GetsStuck
  BY <1>13 DEF EventRecorded, ClipDownloaded, GetsStuck, CalmStep
<1>14. CASE TimePasses
  BY <1>14 DEF TimePasses, CalmStep
<1>15. CASE Restart
  BY <1>15 DEF Restart
<1>16. CASE UNCHANGED vars
  BY <1>16 DEF vars, CalmStep
<1>17. QED
  BY <1>1, <1>2, <1>3, <1>4, <1>5, <1>6, <1>7, <1>8, <1>9, <1>10, <1>11, <1>12, <1>13,
     <1>14, <1>15, <1>16, Steps

(* Steps that leave what a reading is about alone. *)
LEMMA StalledKept ==
  ASSUME UNCHANGED <<now, start, path, cfg>>
  PROVE  Stalled' = Stalled
<1>1. Recorded' = Recorded
  BY DEF Recorded
<1>2. QED
  BY <1>1, StalledIs

LEMMA SickKept ==
  ASSUME UNCHANGED <<now, start, index, held>>
  PROVE  Sick' = Sick
  BY SickIs

LEMMA IndexSickKept ==
  ASSUME UNCHANGED <<now, start, index, cfg>>
  PROVE  IndexSick' = IndexSick
  BY DEF IndexSick

LEMMA SteadyStep ==
  ASSUME Values, Steady, CalmStep
  PROVE  Steady'
<1> USE DEF Steady, service, marks, ghosts
<1>1. CASE TickDisabled
  BY <1>1 DEF TickDisabled
<1>2. CASE ReadClocks
  BY <1>2 DEF ReadClocks, Statement
<1>3. CASE Recovered \/ Detected \/ Waiting \/ DockerFails \/ ClearStalled
  <2>1. /\ UNCHANGED <<up, cfg, ill>> /\ held' = [cfg |-> cfg, read |-> Idle]
        /\ pc' = "idle"
    BY <1>3 DEF Recovered, Detected, Waiting, DockerFails, ClearStalled, Return
  <2>2. QED
    BY <2>1
<1>4. CASE Confirm
  BY <1>4 DEF Confirm
<1>5. CASE DockerRestarts
  BY <1>5 DEF DockerRestarts, ContainerRestarts
<1>6. CASE MarkRestart
  BY <1>6 DEF MarkRestart
<1>7. CASE Sync
  BY <1>7 DEF Sync
<1>8. CASE EventRecorded \/ ClipDownloaded \/ GetsStuck
  BY <1>8 DEF EventRecorded, ClipDownloaded, GetsStuck
<1>9. CASE TimePasses
  BY <1>9 DEF TimePasses, Values
<1>10. CASE UNCHANGED vars
  BY <1>10 DEF vars
<1>11. QED
  BY <1>1, <1>2, <1>3, <1>4, <1>5, <1>6, <1>7, <1>8, <1>9, <1>10 DEF CalmStep

LEMMA FreshStep ==
  ASSUME Values, Filed, Steady, Fresh, CalmStep
  PROVE  Fresh'
<1> USE DEF Fresh, service, marks, ghosts
<1>1. CASE TickDisabled
  BY <1>1 DEF TickDisabled, Recorded
<1>2. CASE ReadClocks /\ held' = [cfg |-> cfg, read |-> [newest |-> NewestIn(start, index.known),
                                                        captured |-> NewestIn(start, index.clips)]]
  BY <1>2 DEF ReadClocks, Recorded
<1>3. CASE Recovered \/ Detected \/ Waiting
  BY <1>3 DEF Recovered, Detected, Waiting, Return, Recorded
<1>4. CASE DockerFails \/ ClearStalled
  BY <1>4 DEF DockerFails, ClearStalled, Return, Recorded
<1>5. CASE Confirm \/ DockerRestarts \/ MarkRestart
  BY <1>5 DEF Confirm, DockerRestarts, MarkRestart, Recorded
<1>6. CASE Sync
  BY <1>6 DEF Sync, Recorded
<1>7. CASE EventRecorded
  <2>1. PICK e \in Event : start[e] = Never /\ start' = [start EXCEPT ![e] = now]
    BY <1>7 DEF EventRecorded
  <2>2. start \in [Event -> Mark] /\ index.known \subseteq Recorded
        /\ index.clips \subseteq Recorded
    BY DEF Values, Filed
  <2>3. \A f \in Recorded : start[f] \in Time /\ start[f] = start'[f]
    BY <2>1, <2>2, RecordedAtTime
  <2>4. NewestIn(start, index.known) = NewestIn(start', index.known)
    BY <2>2, <2>3, SameNewest
  <2>5. NewestIn(start, index.clips) = NewestIn(start', index.clips)
    BY <2>2, <2>3, SameNewest
  <2>6. "sync" \in due'
    BY <1>7 DEF EventRecorded, Early, Loops
  <2>7. QED
    BY <1>7, <2>4, <2>5, <2>6 DEF EventRecorded
<1>8. CASE ClipDownloaded \/ GetsStuck
  BY <1>8 DEF ClipDownloaded, GetsStuck, Early, Loops
<1>9. CASE TimePasses
  BY <1>9 DEF TimePasses, Steady, Loops
<1>10. CASE UNCHANGED vars
  BY <1>10 DEF vars, Recorded
<1>11. QED
  BY <1>1, <1>2, <1>3, <1>4, <1>5, <1>6, <1>7, <1>8, <1>9, <1>10 DEF CalmStep

LEMMA SeeingStep ==
  ASSUME Values, Filed, Steady, Fresh, Seeing, CalmStep
  PROVE  Seeing'
<1> USE DEF Seeing, service, marks, ghosts
<1>1. CASE TickDisabled
  BY <1>1, IndexSickKept, SickKept, StalledKept DEF TickDisabled, Steady
<1>2. CASE ReadClocks /\ held' = [cfg |-> cfg, read |-> [newest |-> NewestIn(start, index.known),
                                                        captured |-> NewestIn(start, index.clips)]]
  <2>1. UNCHANGED <<now, start, path, index, cfg, due, ill>>
    BY <1>2 DEF ReadClocks
  <2>2. IndexSick' = IndexSick /\ Stalled' = Stalled
    BY <2>1, IndexSickKept, StalledKept
  <2>3. Sick' = IndexSick
    BY <1>2, <2>1, SickIs DEF IndexSick
  <2>4. "sync" \notin due => Stalled = IndexSick
    BY StalledIs DEF IndexSick, Fresh
  <2>5. QED
    BY <2>1, <2>2, <2>3, <2>4
<1>3. CASE Recovered \/ Detected \/ Waiting
  <2>1. UNCHANGED <<now, start, index, cfg, ill>> /\ due' = due \ {"tick"} /\ pc' = "idle"
    BY <1>3 DEF Recovered, Detected, Waiting, Return
  <2>2. QED
    BY <2>1, IndexSickKept
<1>4. CASE DockerFails \/ ClearStalled
  <2>1. UNCHANGED <<now, start, index, cfg, ill>> /\ due' = due \ {"tick"} /\ pc' = "idle"
    BY <1>4 DEF DockerFails, ClearStalled, Return
  <2>2. QED
    BY <2>1, IndexSickKept
<1>5. CASE Confirm
  <2>1. UNCHANGED <<now, start, index, cfg, ill, due>> /\ pc' = "docker"
    BY <1>5 DEF Confirm
  <2>2. QED
    BY <2>1, IndexSickKept
<1>6. CASE DockerRestarts
  BY <1>6 DEF DockerRestarts, ContainerRestarts
<1>7. CASE MarkRestart
  BY <1>7 DEF MarkRestart, Steady
<1>8. CASE Sync
  <2>1. /\ UNCHANGED <<now, start, path, cfg, held, pc, ill>> /\ "sync" \in due
        /\ index' = [known |-> Recorded, clips |-> path] /\ "sync" \notin due'
    BY <1>8 DEF Sync
  <2>2. Stalled' = Stalled
    BY <2>1, StalledKept
  <2>3. ASSUME ill > 0, pc = "counting", Stalled
        PROVE  Sick'
    <3>1. IndexSick
      BY <2>1, <2>3
    <3>2. SickIn(start, Recorded, path, NewestIn(start, index.known),
                 NewestIn(start, index.clips), now, cfg.grace)
      BY <2>3, <3>1, SickAcross
    <3>3. held.read = [newest   |-> NewestIn(start, index.known),
                       captured |-> NewestIn(start, index.clips)]
      BY <2>1, <2>3 DEF Fresh
    <3>4. held.cfg = cfg
      BY DEF Steady
    <3>5. QED
      BY <2>1, <3>2, <3>3, <3>4, SickIs
  <2>4. QED
    BY <2>1, <2>2, <2>3
<1>9. CASE EventRecorded
  <2>1. PICK e \in Event : start[e] = Never /\ start' = [start EXCEPT ![e] = now]
    BY <1>9 DEF EventRecorded
  <2>2. start \in [Event -> Mark] /\ index.known \subseteq Recorded
        /\ index.clips \subseteq Recorded
    BY DEF Values, Filed
  <2>3. \A f \in Recorded : start[f] \in Time /\ start[f] = start'[f]
    BY <2>1, <2>2, RecordedAtTime
  <2>4. NewestIn(start, index.known) = NewestIn(start', index.known)
    BY <2>2, <2>3, SameNewest
  <2>5. NewestIn(start, index.clips) = NewestIn(start', index.clips)
    BY <2>2, <2>3, SameNewest
  <2>6. \A n, c, t, g : SickIn(start, index.known, index.clips, n, c, t, g)
                        = SickIn(start', index.known, index.clips, n, c, t, g)
    BY <2>2, <2>3, SameSymptom
  <2>7. UNCHANGED <<now, index, cfg, ill, due>> /\ "sync" \in due
    BY <1>9 DEF EventRecorded, Early, Loops
  <2>8. IndexSick' = IndexSick
    BY <2>4, <2>5, <2>6, <2>7 DEF IndexSick
  <2>9. QED
    BY <2>7, <2>8
<1>10. CASE ClipDownloaded \/ GetsStuck
  <2>1. UNCHANGED <<now, start, index, cfg, ill, due>> /\ "sync" \in due
    BY <1>10 DEF ClipDownloaded, GetsStuck, Early, Loops
  <2>2. QED
    BY <2>1, IndexSickKept
<1>11. CASE TimePasses
  <2>1. /\ UNCHANGED <<start, index, cfg>> /\ now' = now + 1 /\ "sync" \notin due
        /\ "sync" \in due' /\ (ill' > 0 => Stalled)
    BY <1>11 DEF TimePasses, Steady, Loops
  <2>2. ASSUME Stalled
        PROVE  IndexSick'
    <3> DEFINE n == NewestIn(start, index.known)
               c == NewestIn(start, index.clips)
    <3>1. index.known = Recorded /\ index.clips = path
      BY <2>1 DEF Fresh
    <3>2. SickIn(start, index.known, index.clips, n, c, now, cfg.grace)
      BY <2>2, <3>1, StalledIs
    <3>3. n \in Mark /\ c \in Mark
      BY NewestOf, NewestIs DEF Values, Filed, Mark
    <3>4. now \in Nat /\ cfg.grace \in Nat
      BY BoundAssumption DEF Values, Time, Config
    <3>5. SickIn(start, index.known, index.clips, n, c, now + 1, cfg.grace)
      BY <3>2, <3>3, <3>4, SickLater
    <3>6. QED
      BY <2>1, <3>5 DEF IndexSick
  <2>3. QED
    BY <2>1, <2>2
<1>12. CASE UNCHANGED vars
  BY <1>12, IndexSickKept, SickKept, StalledKept DEF vars
<1>13. QED
  BY <1>1, <1>2, <1>3, <1>4, <1>5, <1>6, <1>7, <1>8, <1>9, <1>10, <1>11, <1>12 DEF CalmStep

(* A tick that is over leaves the stall noted, and the next turn's end within its time. *)
LEMMA ActingStep ==
  ASSUME Inv, Values, Steady, Fresh, Seeing, Acting, CalmStep
  PROVE  Acting'
<1> USE DEF Acting, Noted, Soon, service, marks, ghosts
<1>0. /\ now \in Nat /\ ill \in Nat /\ faults \in Nat /\ cfg.grace \in Nat /\ cfg.cooldown \in Nat
      /\ since # Never => since \in Nat /\ since <= now
      /\ last # Never => last \in Nat /\ last <= now
      /\ held.cfg = cfg
      /\ Grace \in Nat /\ cfg.grace <= Grace /\ 1 <= Grace
      /\ cfg' = cfg => Grace' = Grace
  BY DEF Inv, Timely, Past, Values, Config, Steady, Grace
<1>1. CASE TickDisabled
  <2>1. /\ UNCHANGED <<now, ill, since, last, cfg, faults>> /\ ~cfg.enabled
    BY <1>1 DEF TickDisabled, NoFault
  <2>2. ill = 0
    BY <1>0, <2>1 DEF Steady
  <2>3. QED
    BY <1>0, <2>1, <2>2
<1>2. CASE ReadClocks /\ UNCHANGED faults
  <2>1. UNCHANGED <<now, ill, since, last, start, path, cfg, due, faults>>
    BY <1>2 DEF ReadClocks
  <2>2. Stalled' = Stalled
    BY <2>1, StalledKept
  <2>3. QED
    BY <1>0, <2>1, <2>2
<1>3. CASE Recovered /\ UNCHANGED faults
  <2>1. /\ UNCHANGED <<now, ill, last, start, path, cfg, faults>> /\ due' = due \ {"tick"}
        /\ pc = "counting" /\ ~Sick
    BY <1>3 DEF Recovered, Return
  <2>2. Stalled' = Stalled
    BY <2>1, StalledKept
  <2>3. ~(ill > 0 /\ Stalled)
    <3>1. CASE "sync" \in due
      BY <1>0, <2>1, <3>1, SickIs DEF Seeing, Fresh, IndexSick
    <3>2. CASE "sync" \notin due
      BY <2>1, <3>2 DEF Seeing
    <3>3. QED
      BY <3>1, <3>2
  <2>4. QED
    BY <1>0, <2>1, <2>2, <2>3
<1>4. CASE Detected /\ since' = now /\ UNCHANGED faults
  <2>1. /\ UNCHANGED <<now, ill, last, cfg, faults>> /\ due' = due \ {"tick"}
        /\ since = Never /\ since' = now /\ "tick" \in due
    BY <1>4 DEF Detected, Return, Steady
  <2>2. ill <= 1
    BY <1>0, <2>1
  <2>3. now # Never
    BY <1>0, NeverAssumption
  <2>4. QED
    BY <1>0, <2>1, <2>2, <2>3
<1>5. CASE Waiting
  <2>1. /\ UNCHANGED <<now, ill, last, since, cfg, faults>> /\ due' = due \ {"tick"}
        /\ since # Never /\ ~Confirmed /\ "tick" \in due
    BY <1>5 DEF Waiting, Return, NoFault, Steady
  <2>2. ill > 0 => cfg.auto
    BY DEF Steady
  <2>3. ill > 0 => \/ now - since < cfg.grace
                   \/ last # Never /\ now - last < cfg.cooldown
    BY <1>0, <2>1, <2>2 DEF Confirmed
  <2>4. ill > 0 => since + ill <= now + 1
    BY <1>0, <2>1
  <2>5. QED
    BY <1>0, <2>1, <2>3, <2>4
<1>6. CASE Confirm
  <2>1. UNCHANGED <<now, ill, since, last, start, path, cfg, due, faults>>
    BY <1>6 DEF Confirm, NoFault
  <2>2. Stalled' = Stalled
    BY <2>1, StalledKept
  <2>3. QED
    BY <1>0, <2>1, <2>2
<1>7. CASE DockerRestarts
  <2>1. ill' = 0 /\ UNCHANGED <<cfg, faults>>
    BY <1>7 DEF DockerRestarts, ContainerRestarts, NoFault
  <2>2. QED
    BY <1>0, <2>1
<1>8. CASE DockerFails
  <2>1. /\ UNCHANGED <<now, ill, last, since, cfg>> /\ due' = due \ {"tick"}
        /\ faults' = faults + 1 /\ "tick" \in due /\ pc = "docker"
    BY <1>8 DEF DockerFails, Return, Fault, Steady
  <2>2. since # Never
    BY <2>1 DEF Inv, Owed, Confirmed
  <2>3. ill > 0 => since + ill <= now + 1
    BY <1>0, <2>1, <2>2
  <2>4. QED
    BY <1>0, <2>1, <2>2, <2>3
<1>9. CASE MarkRestart /\ UNCHANGED faults
  <2>1. UNCHANGED <<ill, cfg, faults>> /\ ill = 0
    BY <1>9 DEF MarkRestart, Steady
  <2>2. QED
    BY <1>0, <2>1
<1>10. CASE ClearStalled /\ UNCHANGED faults
  <2>1. UNCHANGED <<ill, cfg, faults>> /\ ill = 0
    BY <1>10 DEF ClearStalled, Steady
  <2>2. QED
    BY <1>0, <2>1
<1>11. CASE Sync
  <2>1. /\ UNCHANGED <<now, ill, since, last, start, path, cfg, faults>>
        /\ ("tick" \in due' <=> "tick" \in due)
    BY <1>11 DEF Sync, NoFault
  <2>2. Stalled' = Stalled
    BY <2>1, StalledKept
  <2>3. QED
    BY <1>0, <2>1, <2>2
<1>12. CASE EventRecorded \/ ClipDownloaded \/ GetsStuck
  <2>1. UNCHANGED <<now, ill, since, last, cfg, due, faults>> /\ "tick" \in due
    BY <1>12 DEF EventRecorded, ClipDownloaded, GetsStuck, NoFault, Early, Loops
  <2>2. QED
    BY <1>0, <2>1
<1>13. CASE TimePasses
  <2>1. /\ UNCHANGED <<since, last, cfg, faults>> /\ now' = now + 1
        /\ "tick" \notin due /\ "tick" \in due'
        /\ (ill' = ill + 1 /\ Stalled) \/ ill' = 0
    BY <1>13 DEF TimePasses, NoFault, Steady, Loops
  <2>2. QED
    BY <1>0, <2>1
<1>14. CASE UNCHANGED vars
  <2>1. UNCHANGED <<now, ill, since, last, start, path, cfg, due, faults>>
    BY <1>14 DEF vars
  <2>2. Stalled' = Stalled
    BY <2>1, StalledKept
  <2>3. QED
    BY <1>0, <2>1, <2>2
<1>15. QED
  BY <1>1, <1>2, <1>3, <1>4, <1>5, <1>6, <1>7, <1>8, <1>9, <1>10, <1>11, <1>12, <1>13,
     <1>14 DEF CalmStep

LEMMA InitCalmly == Init => Calmly
<1> SUFFICES ASSUME Init PROVE Calmly
  OBVIOUS
<1>1. /\ up /\ held.cfg = cfg /\ pc = "idle" /\ due = {"sync", "tick"} /\ ill = 0 /\ faults = 0
  BY DEF Init, Loops
<1>2. Grace \in Nat
  BY ConfigAssumption DEF Init, Config, Grace
<1>3. QED
  BY <1>1, <1>2 DEF Calmly, Steady, Fresh, Seeing, Acting, Soon

LEMMA CalmlyStep == Inv /\ Values /\ Filed /\ Calmly /\ [Next]_vars => Calmly'
<1> SUFFICES ASSUME Inv, Values, Filed, Calmly, [Next]_vars, calm'
             PROVE  Steady' /\ Fresh' /\ Seeing' /\ Acting'
  BY DEF Calmly
<1>1. calm => up
  BY DEF Calmly, Steady
<1>2. calm /\ CalmStep
  BY <1>1, CalmSteps
<1>3. Steady /\ Fresh /\ Seeing /\ Acting
  BY <1>2 DEF Calmly
<1>4. QED
  BY <1>2, <1>3, SteadyStep, FreshStep, SeeingStep, ActingStep

(* main.rs:490, watchdog.rs:265-272: a stall is cured in the time the settings give it, *)
(* and a turn for each time Docker fails.                                               *)
THEOREM StallsAreCured == Spec => []StallIsCured
<1>1. Calmly => StallIsCured
  BY DEF Calmly, Acting, Soon, Grace, StallIsCured
<1>2. QED
  BY <1>1, Typing, InitInv, InvStep, InitCalmly, CalmlyStep, PTL DEF Spec

=============================================================================
