--------------------------- MODULE CollectorProofs ---------------------------
(***************************************************************************)
(* Proofs about Collector, for any number of packages, versions of their   *)
(* records and processes.                                                  *)
(***************************************************************************)
EXTENDS Collector, TLAPS

\* What a process relies on between two of its steps: it alone is at work, it
\* is at a package, it has a receipt, and the inbox has one for that package.
AtWork ==
    \A c \in Collectors :
        /\ pc[c] # "off" => lock = c
        /\ pc[c] \in {"build", "publish", "load", "commit"} => current[c] \in Packages
        /\ pc[c] = "publish" => raw[c] \in Versions
        /\ pc[c] \in {"load", "commit"} => inbox[current[c]] \in Versions

\* Packages a process has dealt with and left behind.
Behind(c) ==
    IF pc[c] = "visit" THEN Packages \ todo[c]
    ELSE Packages \ (todo[c] \cup {current[c]})

\* A process that has counted no failure leaves no package unregistered.
NoneLeftBehind ==
    \A c \in Collectors :
        pc[c] # "off" /\ ~failed[c] => \A p \in Behind(c) : EventExists(p)

IndInv == TypeOK /\ RegisteredFromInbox /\ AtWork /\ NoneLeftBehind

-----------------------------------------------------------------------------
LEMMA InitIndInv == Init => IndInv
  <1>1. SUFFICES ASSUME Init PROVE IndInv
    OBVIOUS
  <1>2. TypeOK
    BY <1>1, CollectorAssumption DEF Init, TypeOK
  <1>3. RegisteredFromInbox
    BY <1>1, CollectorAssumption DEF Init, RegisteredFromInbox, EventExists
  <1>4. AtWork /\ NoneLeftBehind
    BY <1>1 DEF Init, AtWork, NoneLeftBehind
  <1>5. QED
    BY <1>2, <1>3, <1>4 DEF IndInv

\* Nothing takes a receipt from the inbox or puts another in its place, and
\* nothing changes an entry of the registry.
LEMMA StoreGrows ==
    ASSUME IndInv, [Next]_vars, NEW p \in Packages
    PROVE  /\ inbox[p] # None => inbox'[p] = inbox[p]
           /\ entry[p] # None => entry'[p] = entry[p]
  <1> USE DEF IndInv, TypeOK
  <1>1. ASSUME NEW c \in Collectors, Publish(c)
        PROVE  /\ inbox[p] # None => inbox'[p] = inbox[p]
               /\ entry' = entry
    BY <1>1 DEF Publish
  <1>2. ASSUME NEW c \in Collectors, JobSucceeds(c)
        PROVE  /\ entry[p] # None => entry'[p] = entry[p]
               /\ inbox' = inbox
    BY <1>2 DEF JobSucceeds
  <1>3. ASSUME NEW c \in Collectors, Step(c) \/ Crash(c), ~Publish(c), ~JobSucceeds(c)
        PROVE  inbox' = inbox /\ entry' = entry
    BY <1>3 DEF Step, StartCollecting, Visit, BuildReceipt, NotComplete, PublishConflict,
                JobLoads, JobFails, Pending, Exit, Crash, store
  <1>4. ASSUME NEW q \in Packages, RecordChanges(q) \/ SoundnessChanges(q)
        PROVE  inbox' = inbox /\ entry' = entry
    BY <1>4 DEF RecordChanges, SoundnessChanges, store
  <1>5. ASSUME NEW q \in Packages, OperatorRegisters(q) \/ BaselineCommand(q)
        PROVE  /\ entry[p] # None => entry'[p] = entry[p]
               /\ inbox' = inbox
    BY <1>5 DEF OperatorRegisters, BaselineCommand
  <1>6. CASE UNCHANGED vars
    BY <1>6 DEF vars, store
  <1>7. QED
    BY <1>1, <1>2, <1>3, <1>4, <1>5, <1>6 DEF Next

LEMMA TypeStep == ASSUME IndInv, [Next]_vars PROVE TypeOK'
  <1> USE DEF IndInv, TypeOK, env, store, process, GoTo
  <1>1. ASSUME NEW c \in Collectors, Step(c)
        PROVE  TypeOK'
    <2>1. CASE StartCollecting(c)
      BY <2>1 DEF StartCollecting
    <2>2. ASSUME NEW p \in Packages, Visit(c, p) PROVE TypeOK'
      BY <2>2 DEF Visit
    <2>3. CASE BuildReceipt(c)
      BY <1>1, <2>3 DEF BuildReceipt, AtWork
    <2>4. CASE NotComplete(c) \/ PublishConflict(c) \/ JobFails(c)
      BY <2>4 DEF NotComplete, PublishConflict, JobFails, Pending
    <2>5. CASE Publish(c)
      BY <1>1, <2>5 DEF Publish, AtWork
    <2>6. CASE JobLoads(c)
      <3>1. EventExists(current[c]) \in BOOLEAN
        BY DEF EventExists
      <3>2. QED
        BY <2>6, <3>1 DEF JobLoads
    <2>7. CASE JobSucceeds(c)
      <3>1. inbox[current[c]] \in Versions
        BY <2>7 DEF JobSucceeds, AtWork
      <3>2. entry' \in [Packages -> Versions \cup {None, ByHand}]
        BY <2>7, <3>1 DEF JobSucceeds
      <3>3. failed' \in [Collectors -> BOOLEAN]
        BY <2>7 DEF JobSucceeds
      <3>4. pc' \in [Collectors -> {"off", "visit", "build", "publish", "load", "commit"}]
        BY <2>7 DEF JobSucceeds
      <3>5. QED
        BY <2>7, <3>2, <3>3, <3>4 DEF JobSucceeds
    <2>8. CASE Exit(c)
      BY <2>8 DEF Exit
    <2>9. QED
      BY <1>1, <2>1, <2>2, <2>3, <2>4, <2>5, <2>6, <2>7, <2>8 DEF Step
  <1>2. ASSUME NEW c \in Collectors, Crash(c)
        PROVE  TypeOK'
    BY <1>2, CollectorAssumption DEF Crash
  <1>3. ASSUME NEW p \in Packages, RecordChanges(p) \/ SoundnessChanges(p)
                                   \/ OperatorRegisters(p) \/ BaselineCommand(p)
        PROVE  TypeOK'
    BY <1>3 DEF RecordChanges, SoundnessChanges, OperatorRegisters, BaselineCommand
  <1>4. CASE UNCHANGED vars
    BY <1>4 DEF vars
  <1>5. QED
    BY <1>1, <1>2, <1>3, <1>4 DEF Next

\* An entry that is new is what the inbox says, or was made by hand.
LEMMA RegisteredFromInboxStep ==
    ASSUME IndInv, [Next]_vars PROVE RegisteredFromInbox'
  <1>1. SUFFICES ASSUME NEW p \in Packages, EventExists(p)'
                 PROVE  entry'[p] = inbox'[p]
    BY DEF RegisteredFromInbox
  <1>2. CASE entry[p] # None
    <2>1. entry'[p] = entry[p]
      BY <1>2, StoreGrows
    <2>2. entry[p] = inbox[p] /\ inbox[p] # None
      BY <1>1, <2>1, CollectorAssumption
         DEF EventExists, IndInv, RegisteredFromInbox
    <2>3. QED
      BY <2>1, <2>2, StoreGrows
  <1>3. CASE entry[p] = None
    <2>1. entry'[p] # None /\ entry'[p] # ByHand /\ entry' # entry
      BY <1>1, <1>3, CollectorAssumption DEF EventExists
    <2>2. ASSUME NEW c \in Collectors, Step(c) \/ Crash(c)
          PROVE  JobSucceeds(c)
      BY <2>1, <2>2
         DEF Step, StartCollecting, Visit, BuildReceipt, NotComplete, Publish,
             PublishConflict, JobLoads, JobFails, Pending, Exit, Crash, store
    <2>3. ASSUME NEW c \in Collectors, JobSucceeds(c)
          PROVE  entry'[p] = inbox'[p]
      BY <1>3, <2>1, <2>3 DEF JobSucceeds, IndInv, TypeOK
    <2>4. ASSUME NEW q \in Packages, OperatorRegisters(q)
          PROVE  entry'[p] = inbox'[p]
      BY <1>3, <2>1, <2>4 DEF OperatorRegisters, IndInv, TypeOK
    <2>5. ASSUME NEW q \in Packages, BaselineCommand(q)
          PROVE  FALSE
      BY <1>3, <2>1, <2>5 DEF BaselineCommand, IndInv, TypeOK
    <2>6. ASSUME NEW q \in Packages, RecordChanges(q) \/ SoundnessChanges(q)
          PROVE  FALSE
      BY <2>1, <2>6 DEF RecordChanges, SoundnessChanges, store
    <2>7. CASE UNCHANGED vars
      BY <2>1, <2>7 DEF vars, store
    <2>8. QED
      BY <2>2, <2>3, <2>4, <2>5, <2>6, <2>7 DEF Next
  <1>4. QED
    BY <1>2, <1>3

LEMMA AtWorkStep == ASSUME IndInv, [Next]_vars PROVE AtWork'
  <1> USE DEF IndInv, TypeOK, AtWork, env, store, process, GoTo
  <1>1. ASSUME pc' = pc, lock' = lock, UNCHANGED process
        PROVE  AtWork'
    <2>1. \A p \in Packages : inbox[p] \in Versions => inbox'[p] \in Versions
      BY StoreGrows, CollectorAssumption
    <2>2. QED
      BY <1>1, <2>1
  <1>2. ASSUME NEW c \in Collectors, Step(c)
        PROVE  AtWork'
    <2>1. \A d \in Collectors : d # c => pc[d] = "off"
      BY <1>2, CollectorAssumption
         DEF Step, StartCollecting, Visit, BuildReceipt, NotComplete, Publish,
             PublishConflict, JobLoads, JobSucceeds, JobFails, Pending, Exit
    <2>2. CASE StartCollecting(c)
      BY <2>1, <2>2 DEF StartCollecting
    <2>3. ASSUME NEW p \in Packages, Visit(c, p) PROVE AtWork'
      BY <2>1, <2>3 DEF Visit
    <2>4. CASE BuildReceipt(c)
      BY <2>1, <2>4 DEF BuildReceipt
    <2>5. CASE NotComplete(c) \/ PublishConflict(c) \/ JobFails(c)
      BY <2>1, <2>5 DEF NotComplete, PublishConflict, JobFails, Pending
    <2>6. CASE Publish(c)
      BY <2>1, <2>6 DEF Publish
    <2>7. CASE JobLoads(c)
      BY <2>1, <2>7 DEF JobLoads
    <2>8. CASE JobSucceeds(c)
      BY <2>1, <2>8 DEF JobSucceeds
    <2>9. CASE Exit(c)
      BY <2>1, <2>9 DEF Exit
    <2>10. QED
      BY <1>2, <2>2, <2>3, <2>4, <2>5, <2>6, <2>7, <2>8, <2>9 DEF Step
  <1>3. ASSUME NEW c \in Collectors, Crash(c)
        PROVE  AtWork'
    BY <1>3, CollectorAssumption DEF Crash
  <1>4. ASSUME NEW p \in Packages, RecordChanges(p) \/ SoundnessChanges(p)
                                   \/ OperatorRegisters(p) \/ BaselineCommand(p)
        PROVE  AtWork'
    BY <1>1, <1>4 DEF RecordChanges, SoundnessChanges, OperatorRegisters, BaselineCommand
  <1>5. CASE UNCHANGED vars
    BY <1>1, <1>5 DEF vars
  <1>6. QED
    BY <1>2, <1>3, <1>4, <1>5 DEF Next

\* A registration stays: what a process has left behind needs no second look.
LEMMA EventsStay ==
    ASSUME IndInv, [Next]_vars, NEW p \in Packages, EventExists(p)
    PROVE  EventExists(p)'
  BY StoreGrows, CollectorAssumption DEF EventExists

LEMMA NoneLeftBehindStep == ASSUME IndInv, [Next]_vars PROVE NoneLeftBehind'
  <1> USE DEF IndInv, TypeOK, NoneLeftBehind, Behind, env, store, process, GoTo
  <1>1. ASSUME NEW c \in Collectors, pc'[c] = pc[c], todo'[c] = todo[c],
               current'[c] = current[c], failed'[c] = failed[c],
               pc'[c] # "off", ~failed'[c]
        PROVE  \A p \in Behind(c)' : EventExists(p)'
    BY <1>1, EventsStay
  <1>2. ASSUME NEW c \in Collectors, Step(c), NEW d \in Collectors,
               pc'[d] # "off", ~failed'[d]
        PROVE  \A p \in Behind(d)' : EventExists(p)'
    <2>1. CASE d # c
      BY <1>1, <1>2, <2>1
         DEF Step, StartCollecting, Visit, BuildReceipt, NotComplete, Publish,
             PublishConflict, JobLoads, JobSucceeds, JobFails, Pending, Exit
    <2>2. CASE d = c
      <3>1. CASE StartCollecting(c)
        BY <2>2, <3>1 DEF StartCollecting
      <3>2. ASSUME NEW p \in Packages, Visit(c, p)
            PROVE  \A q \in Behind(d)' : EventExists(q)'
        BY <1>2, <2>2, <3>2, EventsStay DEF Visit
      <3>3. CASE NotComplete(c) \/ PublishConflict(c) \/ JobFails(c)
        BY <1>2, <2>2, <3>3 DEF NotComplete, PublishConflict, JobFails, Pending
      <3>4. CASE BuildReceipt(c) \/ Publish(c) \/ JobLoads(c)
        BY <1>2, <2>2, <3>4, EventsStay DEF BuildReceipt, Publish, JobLoads
      <3>5. CASE JobSucceeds(c)
        <4>1. current[c] \in Packages /\ inbox[current[c]] \in Versions
          BY <3>5 DEF JobSucceeds, AtWork
        <4>2. entry'[current[c]] \in Versions
          BY <3>5, <4>1 DEF JobSucceeds, EntryAllows
        <4>3. pc[c] = "commit" /\ pc'[c] = "visit" /\ ~failed[c]
          BY <1>2, <2>2, <3>5 DEF JobSucceeds
        <4>4. todo'[c] = todo[c]
          BY <3>5 DEF JobSucceeds
        <4>5. QED
          BY <2>2, <4>2, <4>3, <4>4, EventsStay DEF EventExists
      <3>6. CASE Exit(c)
        BY <1>2, <2>2, <3>6 DEF Exit
      <3>7. QED
        BY <1>2, <3>1, <3>2, <3>3, <3>4, <3>5, <3>6 DEF Step
    <2>3. QED
      BY <2>1, <2>2
  <1>3. ASSUME NEW c \in Collectors, Crash(c), NEW d \in Collectors,
               pc'[d] # "off", ~failed'[d]
        PROVE  \A p \in Behind(d)' : EventExists(p)'
    BY <1>1, <1>3 DEF Crash
  <1>4. ASSUME NEW p \in Packages, RecordChanges(p) \/ SoundnessChanges(p)
                                   \/ OperatorRegisters(p) \/ BaselineCommand(p)
        PROVE  pc' = pc /\ UNCHANGED process
    BY <1>4 DEF RecordChanges, SoundnessChanges, OperatorRegisters, BaselineCommand
  <1>5. CASE UNCHANGED vars
    BY <1>1, <1>5 DEF vars
  <1>6. QED
    BY <1>1, <1>2, <1>3, <1>4, <1>5 DEF Next

-----------------------------------------------------------------------------
(* The theorems.                                                           *)

\* What the processes of the collector keep together, whoever dies or acts
\* beside them.
THEOREM CollectorInductive == Spec => []IndInv
  <1>1. Init => IndInv
    BY InitIndInv
  <1>2. IndInv /\ [Next]_vars => IndInv'
    BY TypeStep, RegisteredFromInboxStep, AtWorkStep, NoneLeftBehindStep DEF IndInv
  <1>3. QED
    BY <1>1, <1>2, PTL DEF Spec

\* Every reachable state of the collector is well typed.
THEOREM CollectorTypeCorrect == Spec => []TypeOK
  BY CollectorInductive, PTL DEF IndInv

\* publish_receipt never replaces a receipt, so a registration is for ever the
\* one its receipt in the inbox describes.
THEOREM FollowsInbox == Spec => []RegisteredFromInbox
  BY CollectorInductive, PTL DEF IndInv

\* A process that ends with status 0 leaves every package registered.
THEOREM CleanExit == Spec => CleanExitMeansRegistered
  <1>1. IndInv /\ [Next]_vars =>
           [\A c \in Collectors :
               (Exit(c) /\ ~failed[c]) => \A p \in Packages : EventExists(p)]_vars
    <2>1. SUFFICES ASSUME IndInv, NEW c \in Collectors, Exit(c), ~failed[c],
                          NEW p \in Packages
                   PROVE  EventExists(p)
      OBVIOUS
    <2>2. p \in Behind(c)
      BY <2>1 DEF Exit, GoTo, Behind
    <2>3. QED
      BY <2>1, <2>2 DEF IndInv, NoneLeftBehind, Exit, GoTo
  <1>2. QED
    BY <1>1, CollectorInductive, PTL DEF Spec, CleanExitMeansRegistered

=============================================================================
