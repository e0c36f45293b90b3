--------------------------- MODULE PublishPhase_proofs ---------------------------
(***************************************************************************)
(* Why health can be believed about what was published, for any areas, any *)
(* width of the semaphore, any number of tries and either destination.     *)
(***************************************************************************)
EXTENDS PublishPhase, FiniteSetTheorems, TLAPS

(* Who can be at work: merged before the areas, workers in the fan-out.    *)
Places ==
    /\ pc # "idle" => phase >= 1
    /\ pc # "merged" => st["merged"] = "none"
    /\ pc # "fanout" => \A a \in Area : st[a] = "none"
    /\ complete => pc = "idle"

(* A closure holds this phase's snapshot, and what it takes for published  *)
(* is at every destination.                                                *)
Published(j) ==
    /\ \A d \in Dests : live[d][j] = phase
    /\ j = "merged" /\ "r2" \in Dests => phase \in history

Closures ==
    \A j \in Job :
        /\ st[j] # "none" => gen[j] = phase
        /\ st[j] \in {"try", "pause"} => tries[j] < MaxTries
        /\ st[j] = "won" => Published(j)

NoneAhead ==
    /\ \A d \in Dests, j \in Job : live[d][j] <= phase
    /\ "r2" \notin Dests => history = {}

(* A slot and a place in the WaitGroup for every worker, and no other.     *)
Working(s) == {a \in Area : s[a] # "none"}
SlotsTaken == sem = Cardinality(Working(st)) /\ wg = Cardinality(Working(st))

(* Of the areas that were started, those without a worker are published or *)
(* counted; the others have not been counted.                              *)
Accounted ==
    /\ pc = "merged" => \A a \in Area : failures[a] = 0
    /\ pc = "fanout" =>
        \A i \in 1 .. Len(Areas) :
            IF i < next /\ st[Areas[i]] = "none"
            THEN /\ failures[Areas[i]] <= 1
                 /\ failures[Areas[i]] = 0 => \A d \in Dests : live[d][Areas[i]] = phase
            ELSE failures[Areas[i]] = 0
    /\ pc = "fanout" => \A i \in 1 .. Len(Areas) : i >= next => st[Areas[i]] = "none"

PInv ==
    /\ TypeOK /\ Places /\ Closures /\ NoneAhead /\ SlotsTaken /\ Accounted
    /\ EveryAreaAccounted /\ FreshMeansPublished

-----------------------------------------------------------------------------
LEMMA AreasAreFinite ==
    /\ IsFiniteSet(Area) /\ Cardinality(Area) <= Len(Areas) /\ Len(Areas) \in Nat
<1>1. Len(Areas) \in Nat
  BY PublishAssumption
<1>2. IsFiniteSet(1 .. Len(Areas)) /\ Cardinality(1 .. Len(Areas)) = Len(Areas)
  <2> DEFINE n == Len(Areas)
  <2> HIDE DEF n
  <2>1. n \in Nat
    BY <1>1 DEF n
  <2>2. IsFiniteSet(1 .. n) /\ Cardinality(1 .. n) = IF 1 > n THEN 0 ELSE n - 1 + 1
    BY <2>1, FS_Interval
  <2> QED BY <2>1, <2>2 DEF n
<1>3. Areas \in Surjection(1 .. Len(Areas), Area)
  BY PublishAssumption DEF Surjection, Area
<1> QED BY <1>1, <1>2, <1>3, FS_Surjection

(* At most one worker for every area. *)
LEMMA WorkersAreCounted ==
    ASSUME NEW s
    PROVE  IsFiniteSet(Working(s)) /\ Cardinality(Working(s)) \in 0 .. Len(Areas)
<1>1. Working(s) \in SUBSET Area
  BY DEF Working
<1>2. IsFiniteSet(Working(s)) /\ Cardinality(Working(s)) <= Cardinality(Area)
  BY <1>1, AreasAreFinite, FS_Subset
<1>3. Cardinality(Working(s)) \in Nat /\ Cardinality(Area) \in Nat
  BY <1>2, AreasAreFinite, FS_CardinalityType
<1> QED BY <1>2, <1>3, AreasAreFinite

LEMMA NobodyWorks ==
    ASSUME NEW s, \A a \in Area : s[a] = "none"
    PROVE  Cardinality(Working(s)) = 0
<1>1. Working(s) = {}
  BY DEF Working
<1> QED BY <1>1, FS_EmptySet

(* The merged job is nobody's worker. *)
LEMMA SameWorkers ==
    ASSUME NEW s, NEW t, \A a \in Area : t[a] = "none" <=> s[a] = "none"
    PROVE  Cardinality(Working(t)) = Cardinality(Working(s))
<1>1. Working(t) = Working(s)
  BY DEF Working
<1> QED BY <1>1

LEMMA Jobs == Area \subseteq Job /\ "merged" \in Job /\ "merged" \notin Area
BY PublishAssumption DEF Job

-----------------------------------------------------------------------------
LEMMA InitPInv == Init => PInv
<1> SUFFICES ASSUME Init PROVE PInv
  OBVIOUS
<1> USE Jobs
<1>1. 0 <= Len(Areas) /\ Len(Areas) \in Nat /\ MaxPhases \in Nat /\ MaxTries \in Nat \ {0}
  BY AreasAreFinite, PublishAssumption
<1>2. slots \in Nat \ {0}
  BY PublishAssumption DEF Init
<1>3. TypeOK
  <2>1. ctxDone \in BOOLEAN /\ complete \in BOOLEAN
    BY Zenon DEF Init
  <2> QED BY <1>1, <1>2, <2>1, SMT DEF Init, TypeOK, St
<1>4. Places /\ Closures /\ EveryAreaAccounted
  BY DEF Init, Places, Closures, EveryAreaAccounted
<1>5. NoneAhead /\ FreshMeansPublished
  BY DEF Init, NoneAhead, FreshMeansPublished
<1>6. SlotsTaken
  <2>1. \A a \in Area : st[a] = "none"
    BY DEF Init
  <2>2. Cardinality(Working(st)) = 0
    BY <2>1, NobodyWorks
  <2> QED BY <2>2 DEF Init, SlotsTaken
<1>7. Accounted
  BY DEF Init, Accounted
<1> QED BY <1>3, <1>4, <1>5, <1>6, <1>7 DEF PInv

-----------------------------------------------------------------------------
(* The steps of the poller's goroutine before and after the fan-out. *)
LEMMA PublishBeginsPInv == PInv /\ PublishBegins /\ UNCHANGED slots => PInv'
<1> SUFFICES ASSUME PInv, PublishBegins, UNCHANGED slots PROVE PInv'
  OBVIOUS
<1> USE Jobs DEF PInv
<1>1. phase' = phase + 1 /\ phase' \in 0 .. MaxPhases /\ phase \in Nat
  BY PublishAssumption DEF TypeOK, PublishBegins
<1>2. TypeOK'
  <2>1. ctxDone' \in BOOLEAN /\ complete' \in BOOLEAN
    BY Zenon DEF PublishBegins
  <2> QED BY <1>1, <2>1 DEF TypeOK, PublishBegins, objects, health
<1>3. Places' /\ Closures'
  BY <1>1 DEF Places, Closures, PublishBegins, Published, Job
<1>4. NoneAhead'
  <2>1. \A d \in Dests, j \in Job : live[d][j] \in Nat
    BY DEF TypeOK
  <2> QED BY <1>1, <2>1 DEF NoneAhead, PublishBegins, objects
<1>5. FreshMeansPublished' /\ SlotsTaken'
  BY DEF FreshMeansPublished, SlotsTaken, PublishBegins, objects, health
<1>6. Accounted' /\ EveryAreaAccounted'
  BY DEF Accounted, EveryAreaAccounted, PublishBegins
<1> QED BY <1>2, <1>3, <1>4, <1>5, <1>6

LEMMA ReadFailsPInv == PInv /\ ReadFails /\ UNCHANGED slots => PInv'
<1> SUFFICES ASSUME PInv, ReadFails, UNCHANGED slots PROVE PInv'
  OBVIOUS
<1> USE Jobs DEF PInv
<1>1. TypeOK'
  <2>1. ctxDone' \in BOOLEAN /\ complete' \in BOOLEAN
    BY Zenon DEF ReadFails, TypeOK
  <2> QED BY <2>1 DEF TypeOK, ReadFails, objects, health
<1>2. Places' /\ Closures' /\ NoneAhead'
  BY DEF Places, Closures, NoneAhead, Published, ReadFails, objects
<1>3. FreshMeansPublished' /\ SlotsTaken'
  BY DEF FreshMeansPublished, SlotsTaken, ReadFails, objects, health
<1>4. Accounted' /\ EveryAreaAccounted'
  BY DEF Accounted, EveryAreaAccounted, Places, ReadFails
<1> QED BY <1>1, <1>2, <1>3, <1>4

LEMMA ReadAlertsPInv == PInv /\ ReadAlerts /\ UNCHANGED slots => PInv'
<1> SUFFICES ASSUME PInv, ReadAlerts, UNCHANGED slots PROVE PInv'
  OBVIOUS
<1> USE Jobs DEF PInv
<1>1. TypeOK'
  <2>1. ctxDone' \in BOOLEAN /\ complete' \in BOOLEAN
    BY Zenon DEF ReadAlerts, TypeOK
  <2>2. /\ "try" \in St /\ 0 \in 0 .. MaxTries /\ "merged" \in Job
    BY PublishAssumption DEF St, Job
  <2>3. /\ st' \in [Job -> St] /\ tries' \in [Job -> 0 .. MaxTries]
        /\ gen' \in [Job -> 0 .. MaxPhases]
    BY <2>2 DEF TypeOK, ReadAlerts, Start
  <2>4. /\ failures' \in [Area -> Nat] /\ countedIn' \in 0 .. MaxPhases
        /\ pc' \in {"idle", "read", "merged", "fanout"}
        /\ UNCHANGED <<phase, next, slots, sem, wg, live, history, feedPublish>>
    BY DEF TypeOK, ReadAlerts, objects
  <2> QED BY <2>1, <2>3, <2>4 DEF TypeOK
<1>2. Places' /\ Closures' /\ NoneAhead'
  <2>1. \A a \in Area : st'[a] = st[a] /\ a # "merged"
    BY DEF ReadAlerts, Start, TypeOK
  <2>2. st'["merged"] = "try" /\ gen'["merged"] = phase /\ tries'["merged"] = 0
    BY DEF ReadAlerts, Start, TypeOK
  <2>3. 0 < MaxTries
    BY PublishAssumption
  <2> QED BY <2>1, <2>2, <2>3
      DEF Places, Closures, NoneAhead, Published, ReadAlerts, objects, Job
<1>3. FreshMeansPublished'
  BY DEF FreshMeansPublished, ReadAlerts, objects
<1>4. SlotsTaken'
  <2>1. \A a \in Area : st'[a] = "none" <=> st[a] = "none"
    BY DEF ReadAlerts, Start, TypeOK
  <2>2. Cardinality(Working(st')) = Cardinality(Working(st))
    BY <2>1, SameWorkers
  <2> QED BY <2>2 DEF SlotsTaken, Working, ReadAlerts
<1>5. Accounted' /\ EveryAreaAccounted'
  BY DEF Accounted, EveryAreaAccounted, Places, ReadAlerts
<1> QED BY <1>1, <1>2, <1>3, <1>4, <1>5

LEMMA MergedDonePInv == PInv /\ MergedDone /\ UNCHANGED slots => PInv'
<1> SUFFICES ASSUME PInv, MergedDone, UNCHANGED slots PROVE PInv'
  OBVIOUS
<1> USE Jobs DEF PInv
<1>1. /\ \A a \in Area : st'[a] = st[a] /\ st[a] = "none" /\ a # "merged"
      /\ st'["merged"] = "none"
  BY DEF MergedDone, Forget, TypeOK, Places
<1>2. TypeOK'
  <2>1. ctxDone' \in BOOLEAN /\ complete' \in BOOLEAN
    BY Zenon DEF MergedDone, TypeOK
  <2>2. Len(Areas) \in Nat /\ slots \in Nat \ {0} /\ MaxTries \in Nat \ {0}
    BY AreasAreFinite, PublishAssumption DEF TypeOK
  <2>3. "none" \in St /\ 0 \in 0 .. MaxTries /\ 0 \in 0 .. MaxPhases
    BY <2>2, PublishAssumption DEF St
  <2>4. /\ st' \in [Job -> St] /\ tries' \in [Job -> 0 .. MaxTries]
        /\ gen' \in [Job -> 0 .. MaxPhases]
    BY <2>3 DEF TypeOK, MergedDone, Forget
  <2>5. /\ next' \in 1 .. Len(Areas) + 1 /\ sem' \in 0 .. slots /\ wg' \in 0 .. Len(Areas)
        /\ feedPublish' \in 0 .. MaxPhases /\ pc' \in {"idle", "read", "merged", "fanout"}
    BY <2>2 DEF TypeOK, MergedDone
  <2>6. UNCHANGED <<phase, slots, live, history, failures, countedIn>>
    BY DEF MergedDone, objects
  <2> QED BY <2>1, <2>4, <2>5, <2>6 DEF TypeOK
<1>3. Places' /\ Closures' /\ NoneAhead'
  BY <1>1 DEF Places, Closures, NoneAhead, Published, MergedDone, objects, Job
<1>4. FreshMeansPublished'
  <2>1. CASE st["merged"] = "won"
    <3>1. Published("merged")
      BY <2>1 DEF Closures
    <3>2. \A d \in Dests : live[d]["merged"] \in Nat
      BY DEF TypeOK
    <3> QED BY <2>1, <3>1, <3>2
        DEF FreshMeansPublished, MergedDone, Published, objects, TypeOK
  <2>2. CASE st["merged"] # "won"
    BY <2>2 DEF FreshMeansPublished, MergedDone, objects
  <2> QED BY <2>1, <2>2
<1>5. SlotsTaken'
  <2>1. Cardinality(Working(st')) = 0
    BY <1>1, NobodyWorks
  <2> QED BY <2>1 DEF SlotsTaken, MergedDone
<1>6. Accounted' /\ EveryAreaAccounted'
  <2>1. \A i \in 1 .. Len(Areas) : Areas[i] \in Area /\ ~ (i < 1)
    BY AreasAreFinite DEF Area
  <2> QED BY <1>1, <2>1 DEF Accounted, EveryAreaAccounted, Places, MergedDone
<1> QED BY <1>2, <1>3, <1>4, <1>5, <1>6

LEMMA BudgetExpiresPInv == PInv /\ BudgetExpires /\ UNCHANGED slots => PInv'
<1> SUFFICES ASSUME PInv, BudgetExpires, UNCHANGED slots PROVE PInv'
  OBVIOUS
<1> USE Jobs DEF PInv
<1>1. TypeOK'
  <2>1. ctxDone' \in BOOLEAN /\ complete' \in BOOLEAN
    BY Zenon DEF BudgetExpires, TypeOK
  <2> QED BY <2>1 DEF TypeOK, BudgetExpires, objects, health
<1>2. Places' /\ Closures' /\ NoneAhead'
  BY DEF Places, Closures, NoneAhead, Published, BudgetExpires, objects
<1>3. FreshMeansPublished' /\ SlotsTaken'
  BY DEF FreshMeansPublished, SlotsTaken, BudgetExpires, objects, health
<1>4. Accounted' /\ EveryAreaAccounted'
  BY DEF Accounted, EveryAreaAccounted, Places, BudgetExpires, objects, health
<1> QED BY <1>1, <1>2, <1>3, <1>4

LEMMA PollerPanicsPInv == PInv /\ PollerPanics /\ UNCHANGED slots => PInv'
<1> SUFFICES ASSUME PInv, PollerPanics, UNCHANGED slots PROVE PInv'
  OBVIOUS
<1> USE Jobs DEF PInv
<1>1. /\ \A a \in Area : st'[a] = st[a] /\ st[a] = "none" /\ a # "merged"
      /\ st'["merged"] = "none"
  BY DEF PollerPanics, Forget, TypeOK, Places
<1>2. TypeOK'
  <2>1. ctxDone' \in BOOLEAN /\ complete' \in BOOLEAN
    BY Zenon DEF PollerPanics, TypeOK
  <2> QED BY <2>1, PublishAssumption
      DEF TypeOK, PollerPanics, Forget, St, objects, health
<1>3. Places' /\ Closures' /\ NoneAhead'
  BY <1>1 DEF Places, Closures, NoneAhead, Published, PollerPanics, objects, Job
<1>4. FreshMeansPublished'
  BY DEF FreshMeansPublished, PollerPanics, objects, health
<1>5. SlotsTaken'
  <2>1. Cardinality(Working(st')) = Cardinality(Working(st))
    BY <1>1, SameWorkers
  <2> QED BY <2>1 DEF SlotsTaken, PollerPanics
<1>6. Accounted' /\ EveryAreaAccounted'
  BY DEF Accounted, EveryAreaAccounted, Places, PollerPanics
<1> QED BY <1>2, <1>3, <1>4, <1>5, <1>6

LEMMA RestartPInv == PInv /\ Restart /\ UNCHANGED slots => PInv'
<1> SUFFICES ASSUME PInv, Restart, UNCHANGED slots PROVE PInv'
  OBVIOUS
<1> USE Jobs DEF PInv
<1>1. \A j \in Job : st'[j] = "none"
  BY DEF Restart
<1>2. TypeOK'
  <2>1. ctxDone' \in BOOLEAN /\ complete' \in BOOLEAN
    BY Zenon DEF Restart
  <2>2. Len(Areas) \in Nat /\ slots \in Nat \ {0} /\ MaxTries \in Nat \ {0}
    BY AreasAreFinite, PublishAssumption DEF TypeOK
  <2> QED BY <2>1, <2>2, PublishAssumption DEF TypeOK, Restart, St, objects
<1>3. Places' /\ Closures' /\ NoneAhead'
  BY <1>1 DEF Places, Closures, NoneAhead, Restart, objects
<1>4. FreshMeansPublished'
  BY DEF FreshMeansPublished, Restart, objects
<1>5. SlotsTaken'
  <2>1. Cardinality(Working(st')) = 0
    BY <1>1, NobodyWorks
  <2> QED BY <2>1 DEF SlotsTaken, Restart
<1>6. Accounted' /\ EveryAreaAccounted'
  BY DEF Accounted, EveryAreaAccounted, Restart
<1> QED BY <1>2, <1>3, <1>4, <1>5, <1>6

-----------------------------------------------------------------------------
(* The steps of a job. *)
LEMMA PauseEndsPInv ==
    ASSUME PInv, NEW j \in Job, PauseEnds(j), UNCHANGED slots PROVE PInv'
<1> USE Jobs DEF PInv
<1>1. st[j] = "pause" /\ st'[j] \in {"try", "lost"} /\ \A k \in Job \ {j} : st'[k] = st[k]
  BY DEF PauseEnds, TypeOK
<1>2. TypeOK'
  <2>1. ctxDone' \in BOOLEAN /\ complete' \in BOOLEAN
    BY Zenon DEF PauseEnds, TypeOK
  <2> QED BY <2>1, PublishAssumption DEF TypeOK, PauseEnds, St, objects, health
<1>3. Places' /\ Closures' /\ NoneAhead'
  BY <1>1 DEF Places, Closures, NoneAhead, Published, PauseEnds, objects, Job
<1>4. FreshMeansPublished'
  BY DEF FreshMeansPublished, PauseEnds, objects, health
<1>5. \A k \in Job : st'[k] = "none" <=> st[k] = "none"
  BY <1>1
<1>6. SlotsTaken'
  <2>1. Cardinality(Working(st')) = Cardinality(Working(st))
    BY <1>5, SameWorkers
  <2> QED BY <2>1 DEF SlotsTaken, PauseEnds
<1>7. Accounted' /\ EveryAreaAccounted'
  <2>1. \A i \in 1 .. Len(Areas) : Areas[i] \in Job
    BY DEF Area, Job
  <2> QED BY <1>5, <2>1 DEF Accounted, EveryAreaAccounted, PauseEnds, objects, health
<1> QED BY <1>2, <1>3, <1>4, <1>6, <1>7

(* An attempt moves no key but its own, to this phase's snapshot. *)
Writes(j) ==
    /\ \A d \in Dests, k \in Job :
          live'[d][k] = live[d][k] \/ (k = j /\ live'[d][k] = phase)
    /\ history' = history \/ (j = "merged" /\ "r2" \in Dests /\ history' = history \cup {phase})
    /\ live' \in [Dests -> [Job -> 0 .. MaxPhases]]
    /\ history' \in SUBSET (1 .. MaxPhases)
    /\ \A t \in history' : t \in history \/ live'["r2"]["merged"] = phase
    /\ st' \in [Job -> St]
    /\ st[j] = "try" /\ st'[j] # "none" /\ gen[j] = phase
    /\ \A k \in Job \ {j} : st'[k] = st[k]
    /\ st'[j] \in {"try", "pause"} => tries[j] + 1 < MaxTries
    /\ st'[j] = "won" => Published(j)'

LEMMA AttemptWrites ==
    ASSUME PInv, NEW j \in Job, Attempt(j), UNCHANGED slots PROVE Writes(j)
<1> USE Jobs DEF PInv
<1>1. PICK done \in SUBSET Puts(j), ok \in BOOLEAN :
        /\ ok => AllWritten(j, done)
        /\ "history" \in done => "r2" \in done
        /\ live' = [d \in Dests |-> IF d \in done THEN [live[d] EXCEPT ![j] = gen[j]]
                                                  ELSE live[d]]
        /\ history' = IF "history" \in done THEN history \cup {gen[j]} ELSE history
        /\ st' = [st EXCEPT ![j] = IF ok THEN "won"
                                   ELSE IF tries[j] + 1 = MaxTries THEN "lost" ELSE "pause"]
  BY DEF Attempt
<1>2. st[j] = "try" /\ gen[j] = phase /\ phase >= 1 /\ phase \in 0 .. MaxPhases
  BY DEF Attempt, Closures, Places, TypeOK, Job
<1>3. tries[j] < MaxTries /\ tries[j] \in Nat /\ MaxTries \in Nat
  BY <1>2, PublishAssumption DEF Closures, TypeOK
<1>4. /\ "history" \notin Dests
      /\ "history" \in done => j = "merged" /\ "r2" \in Dests
  BY PublishAssumption DEF Puts
<1>5. \A d \in Dests : live[d] \in [Job -> 0 .. MaxPhases]
  BY DEF TypeOK
<1>6. \A d \in Dests, k \in Job :
        live'[d][k] = IF d \in done /\ k = j THEN phase ELSE live[d][k]
  BY <1>1, <1>2, <1>5
<1>7. live' \in [Dests -> [Job -> 0 .. MaxPhases]]
  BY <1>1, <1>2, <1>5
<1>8. history' \in SUBSET (1 .. MaxPhases)
  BY <1>1, <1>2 DEF TypeOK
<1>9. /\ st'[j] = IF ok THEN "won"
                  ELSE IF tries[j] + 1 = MaxTries THEN "lost" ELSE "pause"
      /\ \A k \in Job \ {j} : st'[k] = st[k]
      /\ st' \in [Job -> St]
  BY <1>1 DEF TypeOK, St
<1>10. \A t \in history' : t \in history \/ live'["r2"]["merged"] = phase
  BY <1>1, <1>2, <1>4, <1>6
<1>11. st'[j] = "won" => Published(j)'
  <2> SUFFICES ASSUME st'[j] = "won" PROVE Published(j)'
    OBVIOUS
  <2>1. ok
    BY <1>9
  <2>2. done = Puts(j)
    BY <1>1, <2>1 DEF AllWritten
  <2>3. phase' = phase
    BY DEF Attempt
  <2> QED BY <1>1, <1>2, <1>6, <2>2, <2>3 DEF Published, Puts
<1>12. history' = history \/ (j = "merged" /\ "r2" \in Dests /\ history' = history \cup {phase})
  BY <1>1, <1>2, <1>4
<1>13. st'[j] # "none" /\ (st'[j] \in {"try", "pause"} => tries[j] + 1 < MaxTries)
  BY <1>3, <1>9
<1>14. \A d \in Dests, k \in Job :
        live'[d][k] = live[d][k] \/ (k = j /\ live'[d][k] = phase)
  BY <1>6
<1> QED BY <1>2, <1>7, <1>8, <1>9, <1>10, <1>11, <1>12, <1>13, <1>14 DEF Writes

LEMMA AttemptPInv ==
    ASSUME PInv, NEW j \in Job, Attempt(j), UNCHANGED slots PROVE PInv'
<1> USE Jobs DEF PInv
<1>0. Writes(j)
  BY AttemptWrites
<1>1. /\ pc' = pc /\ phase' = phase /\ next' = next /\ gen' = gen /\ sem' = sem /\ wg' = wg
      /\ ctxDone' = ctxDone /\ UNCHANGED health /\ complete' = complete
      /\ tries' = [tries EXCEPT ![j] = @ + 1] /\ slots' = slots
  BY DEF Attempt
<1>2. phase \in Nat /\ pc # "idle" /\ ~ complete
  BY <1>0 DEF TypeOK, Places, Job, Writes
<1>3. TypeOK'
  <2>1. ctxDone' \in BOOLEAN /\ complete' \in BOOLEAN
    BY <1>1, Zenon DEF TypeOK
  <2>2. tries' \in [Job -> 0 .. MaxTries]
    <3>1. tries[j] < MaxTries
      BY <1>0 DEF Closures, Writes
    <3> QED BY <1>1, <3>1, PublishAssumption DEF TypeOK
  <2> QED BY <1>1, <2>1, <2>2, <1>0 DEF TypeOK, health, Writes
<1>4. Places'
  BY <1>1, <1>0 DEF Places, Job, Writes
<1>5. Closures'
  <2> SUFFICES ASSUME NEW k \in Job
               PROVE  /\ st'[k] # "none" => gen'[k] = phase'
                      /\ st'[k] \in {"try", "pause"} => tries'[k] < MaxTries
                      /\ st'[k] = "won" => Published(k)'
    BY DEF Closures
  <2>1. CASE k = j
    BY <1>1, <2>1, <1>0 DEF TypeOK, Writes
  <2>2. CASE k # j
    <3>1. st'[k] = st[k] /\ tries'[k] = tries[k] /\ history \subseteq history'
      BY <1>1, <2>2, <1>0 DEF TypeOK, Writes
    <3>2. \A d \in Dests : live'[d][k] = live[d][k]
      BY <2>2, <1>0 DEF Writes
    <3> QED BY <1>1, <3>1, <3>2 DEF Closures, Published
  <2> QED BY <2>1, <2>2
<1>6. NoneAhead'
  BY <1>1, <1>2, <1>0 DEF NoneAhead, Writes
<1>7. FreshMeansPublished'
  <2>1. \A d \in Dests, k \in Job : live[d][k] \in Nat /\ live[d][k] <= phase
    BY DEF TypeOK, NoneAhead
  <2>2. \A d \in Dests : live'[d]["merged"] >= live[d]["merged"]
    BY <1>2, <2>1, <1>0 DEF Writes
  <2>3. history \subseteq history' /\ history \subseteq Nat /\ feedPublish \in Nat
    BY <1>0 DEF TypeOK, Writes
  <2>4. \A d \in Dests : live'[d]["merged"] \in Nat
    BY <1>0 DEF Writes
  <2>5. feedPublish' # 0 =>
          /\ \A d \in Dests : live'[d]["merged"] >= feedPublish'
          /\ "r2" \in Dests => feedPublish' \in history'
    BY <1>1, <2>1, <2>2, <2>3, <2>4 DEF FreshMeansPublished, health
  <2>6. \A t \in history' : live'["r2"]["merged"] >= t
    <3> SUFFICES ASSUME NEW t \in history' PROVE live'["r2"]["merged"] >= t
      OBVIOUS
    <3>1. CASE "r2" \notin Dests
      <4>1. history' = {}
        BY <3>1, <1>0 DEF NoneAhead, Writes
      <4> QED BY <4>1
    <3>2. CASE "r2" \in Dests /\ t \in history
      <4>1. live["r2"]["merged"] >= t
        BY <3>2 DEF FreshMeansPublished
      <4>2. /\ live'["r2"]["merged"] >= live["r2"]["merged"]
            /\ live["r2"]["merged"] \in Nat /\ live'["r2"]["merged"] \in Nat /\ t \in Nat
        BY <2>1, <2>2, <2>3, <2>4, <3>2
      <4> QED BY <4>1, <4>2
    <3>3. CASE "r2" \in Dests /\ t \notin history
      <4>1. t = phase /\ live'["r2"]["merged"] = phase
        BY <3>3, <1>0 DEF Writes
      <4> QED BY <1>2, <4>1
    <3> QED BY <3>1, <3>2, <3>3
  <2> QED BY <2>5, <2>6 DEF FreshMeansPublished
<1>8. \A k \in Job : st'[k] = "none" <=> st[k] = "none"
  BY <1>0 DEF Writes
<1>9. SlotsTaken'
  <2>1. Cardinality(Working(st')) = Cardinality(Working(st))
    BY <1>8, SameWorkers
  <2> QED BY <1>1, <2>1 DEF SlotsTaken
<1>10. Accounted'
  <2>1. \A i \in 1 .. Len(Areas) : Areas[i] \in Job
    BY DEF Area, Job
  <2>2. \A i \in 1 .. Len(Areas), d \in Dests :
          st[Areas[i]] = "none" => live'[d][Areas[i]] = live[d][Areas[i]]
    BY <2>1, <1>0 DEF Writes
  <2> QED BY <1>1, <1>8, <2>1, <2>2 DEF Accounted, health
<1>11. EveryAreaAccounted'
  BY <1>1, <1>2 DEF EveryAreaAccounted
<1> QED BY <1>3, <1>4, <1>5, <1>6, <1>7, <1>9, <1>10, <1>11

(* A worker of the fan-out begins. *)
LEMMA SpawnPInv == PInv /\ Spawn /\ UNCHANGED slots => PInv'
<1> SUFFICES ASSUME PInv, Spawn, UNCHANGED slots PROVE PInv'
  OBVIOUS
<1> USE Jobs DEF PInv
<1> DEFINE a == Areas[next]
<1>1. /\ next \in 1 .. Len(Areas) /\ a \in Area /\ a # "merged" /\ a \in Job
      /\ Len(Areas) \in Nat /\ \A i \in 1 .. Len(Areas) : Areas[i] \in Area
  BY AreasAreFinite DEF Spawn, TypeOK, Area
<1>2. /\ pc = "fanout" /\ pc' = pc /\ phase' = phase /\ phase \in 0 .. MaxPhases
      /\ next' = next + 1 /\ sem' = sem + 1 /\ wg' = wg + 1 /\ sem < slots
      /\ ctxDone' = ctxDone /\ complete' = complete /\ slots' = slots
      /\ UNCHANGED <<live, history, failures, feedPublish, countedIn>>
  BY DEF Spawn, TypeOK, objects, health
<1>3. /\ st' = [st EXCEPT ![a] = "try"] /\ tries' = [tries EXCEPT ![a] = 0]
      /\ gen' = [gen EXCEPT ![a] = phase]
  BY DEF Spawn, Start
<1>4. st[a] = "none"
  BY <1>1, <1>2 DEF Accounted
<1> HIDE DEF a
<1>5. st'[a] = "try" /\ \A j \in Job \ {a} : st'[j] = st[j]
  BY <1>1, <1>3 DEF TypeOK
<1>6. wg' = Cardinality(Working(st'))
  <2>1. Working(st') = Working(st) \cup {a} /\ a \notin Working(st)
    BY <1>1, <1>4, <1>5 DEF Working
  <2>2. IsFiniteSet(Working(st)) /\ Cardinality(Working(st)) \in Nat
    BY WorkersAreCounted
  <2>3. Cardinality(Working(st) \cup {a}) = Cardinality(Working(st)) + 1
    BY <2>1, <2>2, FS_AddElement
  <2> QED BY <1>2, <2>1, <2>3 DEF SlotsTaken
<1>7. SlotsTaken'
  BY <1>2, <1>6 DEF SlotsTaken
<1>8. TypeOK'
  <2>1. ctxDone' \in BOOLEAN /\ complete' \in BOOLEAN
    BY <1>2, Zenon DEF TypeOK
  <2>2. wg' \in 0 .. Len(Areas)
    BY <1>6, WorkersAreCounted
  <2>3. slots \in Nat /\ sem' \in 0 .. slots'
    BY <1>2, PublishAssumption DEF TypeOK
  <2>4. next' \in 1 .. Len(Areas) + 1
    BY <1>1, <1>2
  <2>5. st' \in [Job -> St]
    BY <1>3 DEF TypeOK, St
  <2>6. tries' \in [Job -> 0 .. MaxTries]
    <3>1. 0 \in 0 .. MaxTries /\ tries \in [Job -> 0 .. MaxTries]
      BY PublishAssumption DEF TypeOK
    <3>2. tries' = [tries EXCEPT ![a] = 0]
      BY <1>3
    <3> QED BY <3>1, <3>2
  <2>7. gen' \in [Job -> 0 .. MaxPhases]
    <3>1. phase \in 0 .. MaxPhases /\ gen \in [Job -> 0 .. MaxPhases]
      BY DEF TypeOK
    <3>2. gen' = [gen EXCEPT ![a] = phase]
      BY <1>3
    <3> QED BY <3>1, <3>2
  <2> QED BY <1>2, <2>1, <2>2, <2>3, <2>4, <2>5, <2>6, <2>7 DEF TypeOK
<1>9. Places' /\ NoneAhead'
  BY <1>1, <1>2, <1>5 DEF Places, NoneAhead
<1>10. Closures'
  <2>1. 0 < MaxTries
    BY PublishAssumption
  <2>2. \A j \in Job : j # a => tries'[j] = tries[j] /\ gen'[j] = gen[j]
    BY <1>3 DEF TypeOK
  <2>3. tries'[a] = 0 /\ gen'[a] = phase
    BY <1>1, <1>3 DEF TypeOK
  <2> QED BY <1>2, <1>5, <2>1, <2>2, <2>3 DEF Closures, Published
<1>11. FreshMeansPublished'
  BY <1>2 DEF FreshMeansPublished
<1>12. Accounted'
  <2>1. \A i \in 1 .. Len(Areas) : (i < next' <=> i < next \/ i = next) /\ (Areas[i] = a <=> i = next)
    BY <1>1, <1>2, PublishAssumption DEF a
  <2>2. \A i \in 1 .. Len(Areas) : i # next => st'[Areas[i]] = st[Areas[i]]
    BY <1>1, <1>5, <2>1 DEF Job
  <2>3. st'[Areas[next]] = "try" /\ failures[Areas[next]] = 0
    BY <1>1, <1>2, <1>5 DEF Accounted, a
  <2>4. \A i \in 1 .. Len(Areas) : i >= next' => i >= next /\ i # next
    BY <1>1, <1>2
  <2>5. ASSUME NEW i \in 1 .. Len(Areas)
        PROVE  IF i < next' /\ st'[Areas[i]] = "none"
               THEN /\ failures[Areas[i]] <= 1
                    /\ failures[Areas[i]] = 0 => \A d \in Dests : live[d][Areas[i]] = phase
               ELSE failures[Areas[i]] = 0
    <3>1. CASE i = next
      BY <2>3, <3>1
    <3>2. CASE i # next
      <4>1. (i < next' <=> i < next) /\ st'[Areas[i]] = st[Areas[i]]
        BY <2>1, <2>2, <3>2
      <4> QED BY <1>2, <4>1 DEF Accounted
    <3> QED BY <3>1, <3>2
  <2>6. \A i \in 1 .. Len(Areas) : i >= next' => st'[Areas[i]] = "none"
    BY <1>2, <2>2, <2>4 DEF Accounted
  <2> QED BY <1>2, <2>5, <2>6 DEF Accounted
<1>13. EveryAreaAccounted'
  BY <1>2 DEF EveryAreaAccounted, Places
<1> QED BY <1>7, <1>8, <1>9, <1>10, <1>11, <1>12, <1>13

(* A worker returns: its area is published or counted. *)
LEMMA WorkerReturnsPInv ==
    ASSUME PInv, NEW a \in Area, st[a] # "none", WorkerReturns(a), UNCHANGED slots,
           \/ st[a] = "won" /\ UNCHANGED health
           \/ CountFailure(a)
    PROVE  PInv'
<1> USE Jobs DEF PInv
<1>1. a \in Job /\ a # "merged" /\ pc = "fanout" /\ ~ complete /\ st \in [Job -> St]
  BY DEF Places, TypeOK
<1>2. /\ pc' = pc /\ phase' = phase /\ next' = next /\ sem' = sem - 1 /\ wg' = wg - 1
      /\ ctxDone' = ctxDone /\ complete' = complete /\ slots' = slots
      /\ UNCHANGED <<live, history, feedPublish, countedIn>>
      /\ st' = [st EXCEPT ![a] = "none"] /\ tries' = [tries EXCEPT ![a] = 0]
      /\ gen' = [gen EXCEPT ![a] = 0]
  BY DEF WorkerReturns, CountFailure, Forget, objects, health
<1>3. st'[a] = "none" /\ \A j \in Job \ {a} : st'[j] = st[j]
  BY <1>1, <1>2
<1>4. PICK k \in 1 .. Len(Areas) : a = Areas[k]
  BY DEF Area
<1>5. k < next /\ failures[a] = 0
  BY <1>1, <1>4, AreasAreFinite DEF Accounted, TypeOK
<1>6. /\ failures' \in [Area -> Nat] /\ \A b \in Area \ {a} : failures'[b] = failures[b]
      /\ failures'[a] \in {0, 1}
      /\ failures'[a] = 0 => \A d \in Dests : live[d][a] = phase
  <2>1. CASE st[a] = "won" /\ UNCHANGED health
    BY <1>1, <1>5, <2>1 DEF health, TypeOK, Closures, Published
  <2>2. CASE CountFailure(a)
    BY <1>5, <2>2 DEF CountFailure, TypeOK
  <2> QED BY <2>1, <2>2
<1>7. Cardinality(Working(st)) >= 1 /\ wg' = Cardinality(Working(st'))
  <2>1. Working(st') = Working(st) \ {a} /\ a \in Working(st)
    BY <1>1, <1>3 DEF Working
  <2>2. IsFiniteSet(Working(st)) /\ Cardinality(Working(st)) \in Nat
    BY WorkersAreCounted
  <2>3. /\ IsFiniteSet(Working(st) \ {a})
        /\ Cardinality(Working(st) \ {a}) = Cardinality(Working(st)) - 1
    BY <2>1, <2>2, FS_RemoveElement
  <2>4. Cardinality(Working(st) \ {a}) \in Nat
    BY <2>3, FS_CardinalityType
  <2>5. Cardinality(Working(st')) = Cardinality(Working(st)) - 1
    BY <2>1, <2>3
  <2>6. Cardinality(Working(st')) \in Nat
    BY <2>1, <2>4
  <2>7. wg' = wg - 1 /\ wg = Cardinality(Working(st))
    BY <1>2 DEF SlotsTaken
  <2> QED BY <2>2, <2>5, <2>6, <2>7
<1>8. SlotsTaken'
  BY <1>2, <1>7 DEF SlotsTaken
<1>9. TypeOK'
  <2>1. ctxDone' \in BOOLEAN /\ complete' \in BOOLEAN
    BY <1>2, Zenon DEF TypeOK
  <2>2. wg' \in 0 .. Len(Areas)
    BY <1>7, WorkersAreCounted
  <2>3. slots \in Nat /\ sem' \in 0 .. slots'
    <3>1. slots \in Nat /\ sem \in 0 .. slots /\ sem >= 1
      BY <1>7, PublishAssumption DEF TypeOK, SlotsTaken
    <3>2. sem' = sem - 1 /\ slots' = slots
      BY <1>2
    <3> QED BY <3>1, <3>2
  <2>4. st' \in [Job -> St]
    BY <1>1, <1>2 DEF St
  <2>5. tries' \in [Job -> 0 .. MaxTries]
    <3>1. 0 \in 0 .. MaxTries /\ tries \in [Job -> 0 .. MaxTries]
      BY PublishAssumption DEF TypeOK
    <3>2. tries' = [tries EXCEPT ![a] = 0]
      BY <1>2
    <3> QED BY <3>1, <3>2
  <2>6. gen' \in [Job -> 0 .. MaxPhases]
    <3>1. 0 \in 0 .. MaxPhases /\ gen \in [Job -> 0 .. MaxPhases]
      BY PublishAssumption DEF TypeOK
    <3>2. gen' = [gen EXCEPT ![a] = 0]
      BY <1>2
    <3> QED BY <3>1, <3>2
  <2> QED BY <1>2, <1>6, <2>1, <2>2, <2>3, <2>4, <2>5, <2>6 DEF TypeOK
<1>10. Places' /\ NoneAhead'
  BY <1>1, <1>2, <1>3 DEF Places, NoneAhead
<1>11. Closures'
  <2>1. \A j \in Job : j # a => tries'[j] = tries[j] /\ gen'[j] = gen[j]
    BY <1>2 DEF TypeOK
  <2> QED BY <1>2, <1>3, <2>1 DEF Closures, Published
<1>12. FreshMeansPublished'
  BY <1>2 DEF FreshMeansPublished
<1>13. Accounted'
  <2>1. \A i \in 1 .. Len(Areas) : Areas[i] \in Area /\ (Areas[i] = a <=> i = k)
    BY <1>4, PublishAssumption DEF Area
  <2>2. \A i \in 1 .. Len(Areas) :
          i # k => /\ st'[Areas[i]] = st[Areas[i]]
                   /\ failures'[Areas[i]] = failures[Areas[i]]
    BY <1>3, <1>6, <2>1
  <2>3. failures'[Areas[k]] <= 1 /\ st'[Areas[k]] = "none"
    BY <1>3, <1>4, <1>6
  <2>4. \A i \in 1 .. Len(Areas) : i >= next => i # k
    BY <1>5, AreasAreFinite DEF TypeOK
  <2>5. \A i \in 1 .. Len(Areas) : i >= next' => st'[Areas[i]] = "none"
    BY <1>1, <1>2, <2>2, <2>4 DEF Accounted
  <2>6. \A i \in 1 .. Len(Areas) :
          IF i < next' /\ st'[Areas[i]] = "none"
          THEN /\ failures'[Areas[i]] <= 1
               /\ failures'[Areas[i]] = 0 => \A d \in Dests : live'[d][Areas[i]] = phase'
          ELSE failures'[Areas[i]] = 0
    <3> SUFFICES ASSUME NEW i \in 1 .. Len(Areas)
                 PROVE  IF i < next' /\ st'[Areas[i]] = "none"
                        THEN /\ failures'[Areas[i]] <= 1
                             /\ failures'[Areas[i]] = 0 =>
                                  \A d \in Dests : live'[d][Areas[i]] = phase'
                        ELSE failures'[Areas[i]] = 0
      OBVIOUS
    <3>1. CASE i = k
      BY <1>2, <1>4, <1>5, <1>6, <2>3, <3>1
    <3>2. CASE i # k
      BY <1>1, <1>2, <2>2, <3>2 DEF Accounted
    <3> QED BY <3>1, <3>2
  <2> QED BY <1>1, <1>2, <2>5, <2>6 DEF Accounted
<1>14. EveryAreaAccounted'
  BY <1>1, <1>2 DEF EveryAreaAccounted
<1> QED BY <1>8, <1>9, <1>10, <1>11, <1>12, <1>13, <1>14

(* wg.Wait() returns when nobody works, and then every area is accounted. *)
LEMMA FanOutEndsPInv == PInv /\ FanOutEnds /\ UNCHANGED slots => PInv'
<1> SUFFICES ASSUME PInv, FanOutEnds, UNCHANGED slots PROVE PInv'
  OBVIOUS
<1> USE Jobs DEF PInv
<1>1. \A a \in Area : st[a] = "none"
  <2>1. IsFiniteSet(Working(st)) /\ Cardinality(Working(st)) = 0
    BY WorkersAreCounted DEF FanOutEnds, SlotsTaken
  <2>2. Working(st) = {}
    BY <2>1, FS_EmptySet
  <2> QED BY <2>2 DEF Working
<1>2. TypeOK'
  <2>1. ctxDone' \in BOOLEAN /\ complete' \in BOOLEAN
    BY Zenon DEF FanOutEnds, TypeOK
  <2> QED BY <2>1 DEF TypeOK, FanOutEnds, objects, health
<1>3. Places' /\ Closures' /\ NoneAhead'
  BY <1>1 DEF Places, Closures, NoneAhead, Published, FanOutEnds, objects
<1>4. FreshMeansPublished' /\ SlotsTaken'
  BY DEF FreshMeansPublished, SlotsTaken, FanOutEnds, objects, health
<1>5. Accounted'
  BY DEF Accounted, FanOutEnds
<1>6. EveryAreaAccounted'
  <2>1. \A i \in 1 .. Len(Areas) : i < next /\ Areas[i] \in Area
    BY AreasAreFinite DEF FanOutEnds, TypeOK, Area
  <2>2. \A a \in Area : \E i \in 1 .. Len(Areas) : a = Areas[i]
    BY DEF Area
  <2> QED BY <1>1, <2>1, <2>2
      DEF Accounted, EveryAreaAccounted, FanOutEnds, objects, health
<1> QED BY <1>2, <1>3, <1>4, <1>5, <1>6

-----------------------------------------------------------------------------
LEMMA StepPInv == PInv /\ [Next]_vars => PInv'
<1> SUFFICES ASSUME PInv, [Next]_vars PROVE PInv'
  OBVIOUS
<1>1. CASE Next
  <2>1. UNCHANGED slots
    BY <1>1 DEF Next
  <2>2. CASE PublishBegins
    BY <2>1, <2>2, PublishBeginsPInv
  <2>3. CASE ReadFails
    BY <2>1, <2>3, ReadFailsPInv
  <2>4. CASE ReadAlerts
    BY <2>1, <2>4, ReadAlertsPInv
  <2>5. ASSUME NEW j \in Job, JobStep(j) PROVE PInv'
    BY <2>1, <2>5, AttemptPInv, PauseEndsPInv DEF JobStep
  <2>6. CASE MergedDone
    BY <2>1, <2>6, MergedDonePInv
  <2>7. CASE Spawn
    BY <2>1, <2>7, SpawnPInv
  <2>8. CASE FanOutEnds
    BY <2>1, <2>8, FanOutEndsPInv
  <2>9. CASE BudgetExpires
    BY <2>1, <2>9, BudgetExpiresPInv
  <2>10. CASE PollerPanics
    BY <2>1, <2>10, PollerPanicsPInv
  <2>11. CASE Restart
    BY <2>1, <2>11, RestartPInv
  <2>12. ASSUME NEW a \in Area, WorkerDone(a) \/ WorkerPanics(a) PROVE PInv'
    <3>1. /\ st[a] # "none" /\ WorkerReturns(a)
          /\ (st[a] = "won" /\ UNCHANGED health) \/ CountFailure(a)
      BY <2>12 DEF WorkerDone, WorkerPanics
    <3> QED BY <2>1, <3>1, WorkerReturnsPInv
  <2> QED
    BY <1>1, <2>2, <2>3, <2>4, <2>5, <2>6, <2>7, <2>8, <2>9, <2>10, <2>11, <2>12, Jobs
    DEF Next, Poller, Worker
<1>2. CASE UNCHANGED vars
  <2>1. TypeOK'
    <3>1. ctxDone' \in BOOLEAN /\ complete' \in BOOLEAN
      BY <1>2, Zenon DEF PInv, TypeOK, vars
    <3> QED BY <1>2, <3>1 DEF PInv, TypeOK, vars
  <2>2. Places' /\ Closures' /\ NoneAhead'
    BY <1>2 DEF PInv, Places, Closures, NoneAhead, Published, vars
  <2>3. FreshMeansPublished' /\ SlotsTaken'
    BY <1>2 DEF PInv, FreshMeansPublished, SlotsTaken, vars
  <2>4. Accounted' /\ EveryAreaAccounted'
    BY <1>2 DEF PInv, Accounted, EveryAreaAccounted, vars
  <2> QED BY <2>1, <2>2, <2>3, <2>4 DEF PInv
<1> QED BY <1>1, <1>2

LEMMA AlwaysPInv == Spec => []PInv
BY InitPInv, StepPInv, PTL DEF Spec

(* The publish phase keeps its types: the semaphore is never freed twice,  *)
(* the WaitGroup never goes below zero (publishPerStateSnapshots).         *)
THEOREM PhaseTypeCorrect == Spec => []TypeOK
<1>1. PInv => TypeOK
  BY DEF PInv
<1> QED BY <1>1, AlwaysPInv, PTL

(* Whatever fails, hangs and panics, a phase that ran to its end leaves    *)
(* every area published or counted, once, and no worker behind.            *)
THEOREM NoAreaIsLost == Spec => []EveryAreaAccounted
<1>1. PInv => EveryAreaAccounted
  BY DEF PInv
<1> QED BY <1>1, AlwaysPInv, PTL

(* /healthz calls "publish" fresh only for what is at every destination,   *)
(* and the history holds nothing that is not live (publishSnapshot,        *)
(* R2.Publish).                                                            *)
THEOREM FreshIsPublished == Spec => []FreshMeansPublished
<1>1. PInv => FreshMeansPublished
  BY DEF PInv
<1> QED BY <1>1, AlwaysPInv, PTL

-----------------------------------------------------------------------------
LEMMA StepForward ==
    PInv /\ [Next]_vars =>
        [\A d \in Dests, j \in Job :
            live'[d][j] # live[d][j] => live'[d][j] > live[d][j] /\ live'[d][j] = phase]_vars
<1> SUFFICES ASSUME PInv, Next, NEW d \in Dests, NEW j \in Job, live'[d][j] # live[d][j]
             PROVE  live'[d][j] > live[d][j] /\ live'[d][j] = phase
  OBVIOUS
<1>1. PICK k \in Job : Attempt(k)
  BY Jobs DEF Next, Poller, Worker, JobStep, PublishBegins, ReadFails, ReadAlerts,
     PauseEnds, MergedDone, Spawn, FanOutEnds, BudgetExpires, PollerPanics, Restart,
     WorkerDone, WorkerPanics, WorkerReturns, objects
<1>2. UNCHANGED slots
  BY DEF Next
<1>3. Writes(k)
  BY <1>1, <1>2, AttemptWrites
<1>4. live'[d][j] = phase
  BY <1>3 DEF Writes
<1>5. live[d][j] \in Nat /\ phase \in Nat /\ live[d][j] <= phase
  BY DEF PInv, TypeOK, NoneAhead
<1> QED BY <1>4, <1>5

(* No key of any destination ever goes back, and all a phase writes is of  *)
(* its own generated_at: no worker outlives its phase.                     *)
THEOREM KeysMoveForward == Spec => ForwardInTime
<1>1. Spec => [][Next]_vars
  BY DEF Spec
<1> QED BY <1>1, AlwaysPInv, StepForward, PTL DEF ForwardInTime
=============================================================================
