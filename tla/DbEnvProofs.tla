------------------------------ MODULE DbEnvProofs -----------------------------
(***************************************************************************)
(* Safety of the database environment for any threads, files and number of *)
(* wallet updates.                                                         *)
(***************************************************************************)
EXTENDS DbEnv, FiniteSetTheorems, TLAPS

\* What the map entries say of the handles, and when the environment may be closed.
EntryInv ==
    /\ \A f \in File : mapFileUseCount[f] # 0 => f \in entries
    /\ mapDb \subseteq entries
    /\ dirty # "no" => Wallet \in entries
    /\ ~fDbEnvInit => (entries = {} /\ down = "closed") \/ down = "exited"

\* Who is still there: a backup or rewrite belongs to a handler that is waited for,
\* a CDB object to a thread that runs; a file that is left when the environment should
\* be closed is left by a thread that is not waited for.
JobInv ==
    /\ \A t \in Thread : job[t] # "none" => t \in Awaited \cap running
    /\ \A t \in Thread, f \in File : cdb[t][f] # "closed" => t \in running
    /\ down \in {"close", "closed", "exited"} => Awaited \cap running = {}
    /\ down \in {"closed", "exited"} /\ entries # {} => ~(Thread \subseteq Awaited)

\* The counter is ahead of the flush thread while there is something to flush, and
\* whatever a slow thread has read of it is not behind the flush thread.
CounterInv ==
    /\ nLastFlushed <= nWalletDBUpdated
    /\ dirty = "counted" => nLastFlushed < nWalletDBUpdated
    /\ \A t \in Thread :
          /\ update[t].stage # "none" => cdb[t][Wallet] = "open"
          /\ update[t].stage = "read" => nLastFlushed <= update[t].seen /\ update[t].seen < MaxUpdates
          /\ update[t].stage = "announced" => nLastFlushed < nWalletDBUpdated

Inv == TypeOK /\ UsersCounted /\ UsedIsOpen /\ EntryInv /\ JobInv /\ CounterInv

\* the users of a file are finitely many; none of them means a count of zero
LEMMA UsersFinite ==
    ASSUME NEW f \in File
    PROVE  /\ IsFiniteSet(Users(f)) /\ Cardinality(Users(f)) \in Nat
           /\ Cardinality(Users(f)) = 0 <=> Users(f) = {}
<1>1. IsFiniteSet(Users(f))
    BY DbEnvAssumption, FS_Subset DEF Users
<1> QED
    BY <1>1, FS_CardinalityType, FS_EmptySet

\* a file that is not counted has no CDB object
LEMMA UnusedFile ==
    ASSUME UsersCounted, NEW f \in File, mapFileUseCount[f] = 0
    PROVE  \A t \in Thread : cdb[t][f] = "closed"
<1>1. Users(f) = {}
    BY UsersFinite DEF UsersCounted
<1> QED
    BY <1>1 DEF Users

\* a file without an entry, or whose entry is zero, has no CDB object
LEMMA UnusedEntry ==
    ASSUME UsersCounted, EntryInv, NEW f \in File, f \notin entries \/ mapFileUseCount[f] = 0
    PROVE  mapFileUseCount[f] = 0 /\ \A t \in Thread : cdb[t][f] = "closed"
<1>1. mapFileUseCount[f] = 0
    BY DEF EntryInv
<1> QED
    BY <1>1, UnusedFile

\* the state after LoadWallet
LEMMA InvInit == Init => Inv
<1> SUFFICES ASSUME Init PROVE Inv
    OBVIOUS
<1>1. TypeOK
  <2>1. 0 \in 0..MaxUpdates
      BY DbEnvAssumption
  <2>2. update \in [Thread -> [stage : {"none", "read", "announced"}, seen : 0..MaxUpdates]]
      BY <2>1 DEF Init, Idle
  <2>3. cdb \in [Thread -> [File -> {"closed", "open", "closing"}]]
      BY DEF Init
  <2> QED
      BY <2>1, <2>2, <2>3 DEF Init, TypeOK
<1>2. UsersCounted
  <2>1. \A f \in File : Users(f) = {}
      BY DEF Init, Users
  <2>2. Cardinality({}) = 0
      BY FS_EmptySet
  <2> QED
      BY <2>1, <2>2 DEF UsersCounted, Init
<1>3. UsedIsOpen
    BY DEF Init, UsedIsOpen
<1>4. EntryInv
    BY DbEnvAssumption DEF Init, EntryInv
<1>5. JobInv
    BY DEF Init, JobInv
<1>6. CounterInv
    BY DEF Init, CounterInv, Idle
<1> QED
    BY <1>1, <1>2, <1>3, <1>4, <1>5, <1>6 DEF Inv

-----------------------------------------------------------------------------
(* The use count                                                           *)

\* opening and closing change the users of one file by one
LEMMA CountOpen ==
    ASSUME Inv, NEW t \in Thread, NEW f \in File, Open(t, f)
    PROVE  UsersCounted'
<1>1. \A g \in File : g # f => Users(g)' = Users(g)
    BY DEF Inv, Open, SetStage, TypeOK, Users
<1>2. Users(f)' = Users(f) \cup {t} /\ t \notin Users(f)
    BY DEF Inv, Open, SetStage, TypeOK, Users
<1>3. Cardinality(Users(f)') = Cardinality(Users(f)) + 1
    BY <1>2, UsersFinite, FS_AddElement
<1>4. \A g \in File : mapFileUseCount'[g] = IF g = f THEN mapFileUseCount[f] + 1 ELSE mapFileUseCount[g]
    BY DEF Inv, Open, TypeOK
<1> QED
    BY <1>1, <1>3, <1>4 DEF Inv, UsersCounted

LEMMA CountClose ==
    ASSUME Inv, NEW t \in Thread, NEW f \in File, CloseEnd(t, f)
    PROVE  UsersCounted' /\ mapFileUseCount[f] > 0
<1>1. \A g \in File : g # f => Users(g)' = Users(g)
    BY DEF Inv, CloseEnd, SetStage, TypeOK, Users
<1>2. Users(f)' = Users(f) \ {t} /\ t \in Users(f)
    BY DEF Inv, CloseEnd, SetStage, TypeOK, Users
<1>3. Cardinality(Users(f)') = Cardinality(Users(f)) - 1
    BY <1>2, UsersFinite, FS_RemoveElement
<1>4. \A g \in File : mapFileUseCount'[g] = IF g = f THEN mapFileUseCount[f] - 1 ELSE mapFileUseCount[g]
    BY DEF Inv, CloseEnd, TypeOK
<1>5. Cardinality(Users(f)) # 0 /\ Cardinality(Users(f)) \in Nat
    BY <1>2, UsersFinite
<1>6. mapFileUseCount[f] > 0
    BY <1>5 DEF Inv, UsersCounted
<1> QED
    BY <1>1, <1>3, <1>4, <1>6 DEF Inv, UsersCounted

\* nobody's CDB object comes or goes, and the counts stay
LEMMA CountKept ==
    ASSUME Inv, mapFileUseCount' = mapFileUseCount,
           \A t \in Thread, f \in File : (cdb'[t][f] = "closed") <=> (cdb[t][f] = "closed")
    PROVE  UsersCounted'
<1>1. \A f \in File : Users(f)' = Users(f)
    BY DEF Users
<1> QED
    BY <1>1 DEF Inv, UsersCounted

\* a file of which the count was zero is counted zero
LEMMA CountDetached ==
    ASSUME Inv, NEW f \in File, f \notin entries \/ mapFileUseCount[f] = 0
    PROVE  [mapFileUseCount EXCEPT ![f] = 0] = mapFileUseCount
<1>1. mapFileUseCount[f] = 0 /\ mapFileUseCount \in [File -> Nat]
    BY UnusedEntry DEF Inv, TypeOK
<1> QED
    BY <1>1

-----------------------------------------------------------------------------
(* Every action keeps the invariant                                        *)

\* what every thread that opens or closes something, or writes, can rely on: it runs,
\* and only the exit of the process makes an end of the environment under it
LEMMA StillThere ==
    ASSUME Inv, NEW t \in Thread, NEW f \in File, down # "exited",
           Active(t) \/ cdb[t][f] # "closed"
    PROVE  /\ t \in running
           /\ down \in {"close", "closed"} => t \notin Awaited
           /\ down \in {"closed"} => ~(Thread \subseteq Awaited)
           /\ cdb[t][f] # "closed" => fDbEnvInit
<1>1. t \in running
    BY DEF Inv, JobInv, Active
<1>2. down \in {"close", "closed"} => t \notin Awaited
    BY <1>1 DEF Inv, JobInv
<1> QED
    BY <1>1, <1>2 DEF Inv, UsedIsOpen

LEMMA StepOpen ==
    ASSUME Inv, NEW t \in Thread, NEW f \in File, Open(t, f)
    PROVE  Inv'
<1>0. t \in running /\ (down = "closed" => ~(Thread \subseteq Awaited)) /\ down # "exited"
    BY StillThere DEF Open, Active
<1>1. \A u \in Thread, g \in File :
          cdb'[u][g] = IF u = t /\ g = f THEN "open" ELSE cdb[u][g]
    BY DEF Inv, Open, SetStage, TypeOK
<1>2. TypeOK'
    BY DEF Inv, Open, SetStage, TypeOK, walletVars
<1>3. UsersCounted'
    BY CountOpen
<1>4. UsedIsOpen'
    BY <1>1 DEF Inv, Open, UsedIsOpen
<1>5. EntryInv'
    BY DEF Inv, TypeOK, Open, EntryInv, walletVars
<1>6. JobInv'
    BY <1>0, <1>1 DEF Inv, Open, JobInv
<1>7. CounterInv'
    BY <1>1, DbEnvAssumption DEF Inv, Open, CounterInv, walletVars
<1> QED
    BY <1>2, <1>3, <1>4, <1>5, <1>6, <1>7 DEF Inv

LEMMA StepOpenFails ==
    ASSUME Inv, NEW t \in Thread, NEW f \in File, OpenFails(t, f)
    PROVE  Inv'
<1>1. UsersCounted'
    BY CountKept DEF OpenFails
<1>2. TypeOK' /\ UsedIsOpen' /\ EntryInv' /\ CounterInv'
    BY DEF Inv, OpenFails, TypeOK, UsedIsOpen, EntryInv, CounterInv, walletVars
<1>3. JobInv'
  <2>1. t \in running /\ (down = "closed" => ~(Thread \subseteq Awaited)) /\ down # "exited"
      BY StillThere DEF OpenFails, Active
  <2> QED
      BY <2>1 DEF Inv, OpenFails, JobInv
<1> QED
    BY <1>1, <1>2, <1>3 DEF Inv

LEMMA StepCloseBegin ==
    ASSUME Inv, NEW t \in Thread, NEW f \in File, CloseBegin(t, f)
    PROVE  Inv'
<1>1. \A u \in Thread, g \in File :
          cdb'[u][g] = IF u = t /\ g = f THEN "closing" ELSE cdb[u][g]
    BY DEF Inv, CloseBegin, SetStage, TypeOK
<1>2. TypeOK'
    BY DEF Inv, CloseBegin, SetStage, TypeOK, dbVars, walletVars
<1>3. UsersCounted'
    BY <1>1, CountKept DEF CloseBegin, dbVars
<1>4. UsedIsOpen'
    BY <1>1 DEF Inv, CloseBegin, UsedIsOpen, dbVars
<1>5. EntryInv' /\ JobInv'
    BY <1>1 DEF Inv, CloseBegin, EntryInv, JobInv, dbVars, walletVars
<1>6. CounterInv'
    BY <1>1, DbEnvAssumption DEF Inv, CloseBegin, CounterInv, walletVars
<1> QED
    BY <1>2, <1>3, <1>4, <1>5, <1>6 DEF Inv

LEMMA StepCloseEnd ==
    ASSUME Inv, NEW t \in Thread, NEW f \in File, CloseEnd(t, f)
    PROVE  Inv'
<1>1. \A u \in Thread, g \in File :
          cdb'[u][g] = IF u = t /\ g = f THEN "closed" ELSE cdb[u][g]
    BY DEF Inv, CloseEnd, SetStage, TypeOK
<1>2. UsersCounted' /\ mapFileUseCount[f] > 0
    BY CountClose
<1>3. TypeOK'
    BY <1>2 DEF Inv, CloseEnd, SetStage, TypeOK, walletVars
<1>4. UsedIsOpen'
    BY <1>1 DEF Inv, CloseEnd, UsedIsOpen
<1>5. EntryInv'
    BY <1>2 DEF Inv, TypeOK, CloseEnd, EntryInv, walletVars
<1>6. JobInv'
    BY <1>1 DEF Inv, CloseEnd, JobInv
<1>7. CounterInv'
    BY <1>1, DbEnvAssumption DEF Inv, CloseEnd, CounterInv, walletVars
<1> QED
    BY <1>2, <1>3, <1>4, <1>5, <1>6, <1>7 DEF Inv

\* an update of the wallet, whose thread has the wallet open
LEMMA StepUpdate ==
    ASSUME Inv, NEW t \in Thread,
           ReadCounter(t) \/ StoreCounter(t) \/ Write(t) \/ WriteUncounted(t)
    PROVE  Inv'
<1>1. UsersCounted'
    BY CountKept DEF ReadCounter, StoreCounter, Write, WriteUncounted, dbVars
<1>2. TypeOK' /\ CounterInv'
  <2>1. CASE ReadCounter(t)
    <3>1. \A u \in Thread : update'[u] = IF u = t THEN [stage |-> "read", seen |-> nWalletDBUpdated]
                                         ELSE update[u]
        BY <2>1 DEF Inv, TypeOK, ReadCounter
    <3> QED
        BY <2>1, <3>1, DbEnvAssumption DEF Inv, TypeOK, CounterInv, ReadCounter, dbVars
  <2>2. CASE StoreCounter(t)
    <3>1. \A u \in Thread : update'[u] = IF u = t THEN [stage |-> "announced", seen |-> 0]
                                         ELSE update[u]
        BY <2>2 DEF Inv, TypeOK, StoreCounter
    <3>2. update[t].seen \in 0..MaxUpdates /\ update[t].seen < MaxUpdates
        BY <2>2 DEF Inv, TypeOK, CounterInv, StoreCounter
    <3> QED
        BY <2>2, <3>1, <3>2, DbEnvAssumption DEF Inv, TypeOK, CounterInv, StoreCounter, dbVars
  <2>3. CASE Write(t)
    <3>1. \A u \in Thread : update'[u] = IF u = t THEN Idle ELSE update[u]
        BY <2>3 DEF Inv, TypeOK, Write
    <3>2. dirty' \in {"no", "uncounted", "counted"}
        BY <2>3 DEF Inv, TypeOK, Write
    <3> QED
        BY <2>3, <3>1, <3>2, DbEnvAssumption DEF Inv, TypeOK, CounterInv, Write, Idle, dbVars
  <2>4. CASE WriteUncounted(t)
    <3>1. dirty' \in {"no", "uncounted", "counted"} /\ (dirty' = "counted" => dirty = "counted")
        BY <2>4 DEF Inv, TypeOK, WriteUncounted
    <3> QED
        BY <2>4, <3>1 DEF Inv, TypeOK, CounterInv, WriteUncounted, dbVars
  <2> QED
      BY <2>1, <2>2, <2>3, <2>4
<1>3. UsedIsOpen' /\ JobInv'
  <2>1. UNCHANGED <<dbVars, cdb, job, running, down>>
      BY DEF ReadCounter, StoreCounter, Write, WriteUncounted
  <2> QED
      BY <2>1 DEF Inv, UsedIsOpen, JobInv, dbVars
<1>4. EntryInv'
  <2>1. CASE ReadCounter(t) \/ StoreCounter(t)
      BY <2>1 DEF Inv, EntryInv, ReadCounter, StoreCounter, dbVars
  <2>2. CASE Write(t) \/ WriteUncounted(t)
    <3>1. cdb[t][Wallet] = "open" /\ down # "exited"
        BY <2>2 DEF Inv, CounterInv, Write, WriteUncounted, Active
    <3>2. Wallet \in entries
        BY <3>1, DbEnvAssumption DEF Inv, UsedIsOpen, EntryInv
    <3> QED
        BY <2>2, <3>2 DEF Inv, EntryInv, Write, WriteUncounted, dbVars
  <2> QED
      BY <2>1, <2>2
<1> QED
    BY <1>1, <1>2, <1>3, <1>4 DEF Inv

\* no database is in use, so none of the handles and no update is
LEMMA StepFlushWallet ==
    ASSUME Inv, FlushWallet
    PROVE  Inv'
<1>1. \A f \in File : mapFileUseCount[f] = 0
    BY DEF Inv, EntryInv, FlushWallet
<1>2. \A t \in Thread, f \in File : cdb[t][f] = "closed"
    BY <1>1, UnusedFile DEF Inv
<1>3. mapFileUseCount' = mapFileUseCount
    BY <1>1, CountDetached, DbEnvAssumption DEF FlushWallet, Detach
<1>4. UsersCounted'
    BY <1>3, CountKept DEF FlushWallet
<1>5. TypeOK'
    BY <1>3 DEF Inv, TypeOK, FlushWallet, Detach
<1>6. UsedIsOpen' /\ JobInv'
    BY <1>2 DEF Inv, UsedIsOpen, JobInv, FlushWallet, Detach
<1>7. EntryInv'
    BY <1>1, <1>3 DEF Inv, EntryInv, FlushWallet, Detach
<1>8. CounterInv'
    BY <1>2, DbEnvAssumption DEF Inv, TypeOK, CounterInv, FlushWallet
<1> QED
    BY <1>4, <1>5, <1>6, <1>7, <1>8 DEF Inv

LEMMA StepJobControl ==
    ASSUME Inv, NEW t \in Thread, JobStart(t) \/ JobTest(t) \/ JobWaits(t)
    PROVE  Inv'
<1>1. /\ UNCHANGED <<dbVars, cdb, walletVars, running, down>>
      /\ \A u \in Thread : u # t => job'[u] = job[u]
      /\ job' \in [Thread -> {"none", "locking", "sleeping"}]
      /\ t \in Awaited \cap running /\ down # "exited"
    BY DEF Inv, TypeOK, JobInv, JobStart, JobTest, JobWaits, Active
<1>2. job'[t] = "locking" => fDbEnvInit
    BY DEF Inv, TypeOK, EntryInv, JobStart, JobTest, JobWaits, fShutdown
<1>3. UsersCounted'
    BY <1>1, CountKept DEF dbVars
<1>4. TypeOK' /\ EntryInv' /\ CounterInv'
    BY <1>1 DEF Inv, TypeOK, EntryInv, CounterInv, dbVars, walletVars
<1>5. UsedIsOpen' /\ JobInv'
    BY <1>1, <1>2 DEF Inv, UsedIsOpen, JobInv, dbVars
<1> QED
    BY <1>3, <1>4, <1>5 DEF Inv

\* only the wallet is closed, and nobody has it open
LEMMA StepJob ==
    ASSUME Inv, NEW t \in Thread, Backup(t) \/ Rewrite(t)
    PROVE  Inv'
<1>1. mapFileUseCount[Wallet] = 0 /\ \A u \in Thread : cdb[u][Wallet] = "closed"
    BY UnusedEntry, DbEnvAssumption DEF Inv, Backup, Rewrite
<1>2. mapFileUseCount' = mapFileUseCount
    BY <1>1, CountDetached, DbEnvAssumption DEF Backup, Rewrite, Detach
<1>3. UsersCounted'
    BY <1>2, CountKept DEF Backup, Rewrite
<1>4. fDbEnvInit
    BY DEF Inv, UsedIsOpen, Backup, Rewrite
<1>5. /\ \A u \in Thread : job'[u] = IF u = t THEN "none" ELSE job[u]
      /\ job' \in [Thread -> {"none", "locking", "sleeping"}]
      /\ down \notin {"close", "closed", "exited"}
    BY DEF Inv, TypeOK, JobInv, Backup, Rewrite
<1>6. /\ mapDb \ {Wallet} \subseteq mapDb' /\ mapDb' \subseteq mapDb \cup {Wallet}
      /\ entries \ {Wallet} \subseteq entries' /\ entries' \subseteq entries \cup {Wallet}
      /\ mapDb' \subseteq entries'
    BY DEF Inv, EntryInv, Backup, Rewrite, Detach
<1>7. /\ UNCHANGED <<fDbEnvInit, cdb, update, nWalletDBUpdated, nLastFlushed, running, down>>
      /\ dirty' = "no"
    BY DEF Backup, Rewrite
<1>8. TypeOK'
    BY <1>2, <1>5, <1>6, <1>7, DbEnvAssumption DEF Inv, TypeOK
<1>9. UsedIsOpen'
    BY <1>1, <1>4, <1>5, <1>6, <1>7 DEF Inv, UsedIsOpen
<1>12. JobInv'
    BY <1>5, <1>7 DEF Inv, JobInv
<1>10. EntryInv'
    BY <1>1, <1>2, <1>4, <1>6, <1>7 DEF Inv, EntryInv
<1>11. CounterInv'
    BY <1>7 DEF Inv, CounterInv
<1> QED
    BY <1>3, <1>8, <1>9, <1>10, <1>11, <1>12 DEF Inv

\* both calls of Flush: what is closed is not in use
LEMMA StepFlush ==
    ASSUME Inv, Flush \/ FlushAndClose
    PROVE  Inv'
<1>1. \A f \in Unused : \A t \in Thread : cdb[t][f] = "closed"
    BY UnusedEntry DEF Inv, TypeOK, Unused
<1>2. UsersCounted'
    BY CountKept DEF Flush, FlushAndClose, Flushed
<1>3. Unused \subseteq entries /\ \A f \in entries \ Unused : mapFileUseCount[f] # 0
    BY DEF Unused
<1>4. /\ mapDb' = mapDb \ Unused /\ entries' = entries \ Unused
      /\ dirty' = IF Wallet \in Unused THEN "no" ELSE dirty
      /\ UNCHANGED <<mapFileUseCount, cdb, update, nWalletDBUpdated, nLastFlushed, job, running>>
    BY DEF Flush, FlushAndClose, Flushed
<1>5. /\ dirty' \in {"no", "uncounted", "counted"}
      /\ dirty' # "no" => dirty' = dirty /\ Wallet \notin Unused
    BY <1>4 DEF Inv, TypeOK
<1>6. fDbEnvInit
    BY DEF Inv, EntryInv, Flush, FlushAndClose
<1>7. /\ down' \in {"stop", "closed"}
      /\ down' = "closed" => down = "close"
      /\ ~fDbEnvInit' => entries' = {} /\ down' = "closed"
    BY <1>6 DEF Flush, FlushAndClose
<1>8. fDbEnvInit' \in BOOLEAN
    BY <1>6 DEF Flush, FlushAndClose
<1>9. TypeOK'
    BY <1>4, <1>5, <1>7, <1>8 DEF Inv, TypeOK
<1>10. EntryInv'
    BY <1>3, <1>4, <1>5, <1>7 DEF Inv, TypeOK, EntryInv, Unused
<1>11. JobInv'
  <2>1. ASSUME NEW f \in entries', down' = "closed" PROVE ~(Thread \subseteq Awaited)
    <3>1. f \in File /\ mapFileUseCount[f] # 0
        BY <2>1, <1>3, <1>4 DEF Inv, TypeOK
    <3>2. PICK t \in Thread : cdb[t][f] # "closed"
        BY <3>1, UsersFinite DEF Inv, UsersCounted, Users
    <3> QED
        BY <2>1, <3>1, <3>2, <1>7 DEF Inv, JobInv
  <2> QED
      BY <2>1, <1>4, <1>7 DEF Inv, JobInv
<1>12. CounterInv'
    BY <1>4, <1>5 DEF Inv, CounterInv
<1>13. UsedIsOpen'
  <2>1. CASE fDbEnvInit'
      BY <2>1, <1>1, <1>4 DEF Inv, UsedIsOpen
  <2>2. CASE ~fDbEnvInit'
    <3>1. \A f \in File : \A t \in Thread : cdb[t][f] = "closed"
        BY <2>2, <1>1, <1>4, <1>7, UnusedEntry DEF Inv
    <3>2. \A t \in Thread : job[t] = "none"
        BY <2>2, <1>7 DEF Inv, TypeOK, JobInv
    <3> QED
        BY <3>1, <3>2, <1>4 DEF UsedIsOpen
  <2> QED
      BY <2>1, <2>2
<1> QED
    BY <1>2, <1>9, <1>10, <1>11, <1>12, <1>13 DEF Inv

\* the steps of Shutdown that touch no database
LEMMA StepControl ==
    ASSUME Inv, \/ ShutdownBegin \/ StopNode
                \/ \E t \in Thread : ThreadEnds(t)
    PROVE  Inv'
<1>1. /\ UNCHANGED <<dbVars, cdb, walletVars, job>>
      /\ running' \subseteq running
      /\ down \notin {"exited"} /\ down' \notin {"exited"}
    BY DEF ShutdownBegin, StopNode, ThreadEnds
<1>2. UsersCounted'
    BY <1>1, CountKept DEF dbVars
<1>3. down' \in {"no", "flush", "stop", "close", "closed", "exited"}
    BY DEF ShutdownBegin, StopNode, ThreadEnds, Inv, TypeOK
<1>4. down' \in {"close", "closed", "exited"} => Awaited \cap running' = {}
    BY <1>1 DEF ShutdownBegin, StopNode, ThreadEnds, Inv, JobInv
<1>5. (down = "closed") <=> (down' = "closed")
    BY DEF ShutdownBegin, StopNode, ThreadEnds
<1>6. /\ \A t \in Thread : job[t] # "none" => t \in running'
      /\ \A t \in Thread, f \in File : cdb[t][f] # "closed" => t \in running'
    BY DEF ShutdownBegin, StopNode, ThreadEnds, AllClosed, Inv, JobInv
<1>7. TypeOK' /\ UsedIsOpen' /\ CounterInv'
    BY <1>1, <1>3 DEF Inv, TypeOK, UsedIsOpen, CounterInv, dbVars, walletVars
<1>8. EntryInv'
    BY <1>1, <1>5 DEF Inv, EntryInv, dbVars, walletVars
<1>9. JobInv'
    BY <1>1, <1>4, <1>5, <1>6 DEF Inv, JobInv, dbVars
<1> QED
    BY <1>2, <1>7, <1>8, <1>9 DEF Inv

\* the exit ends the environment under threads that nobody waited for only
LEMMA StepExit ==
    ASSUME Inv, Exit
    PROVE  Inv'
<1>1. /\ UNCHANGED <<mapFileUseCount, entries, mapDb, cdb, walletVars, job, running>>
      /\ down = "closed" /\ down' = "exited" /\ fDbEnvInit' = FALSE
    BY DEF Exit
<1>2. UsersCounted'
    BY <1>1, CountKept
<1>3. TypeOK' /\ EntryInv' /\ JobInv' /\ CounterInv'
    BY <1>1 DEF Inv, TypeOK, EntryInv, JobInv, CounterInv, walletVars
<1>4. /\ \A t \in Thread, f \in File : cdb[t][f] # "closed" => t \notin Awaited
      /\ \A t \in Thread : job[t] = "none"
    BY <1>1 DEF Inv, TypeOK, JobInv
<1>5. UsedIsOpen'
    BY <1>1, <1>4 DEF Inv, UsedIsOpen
<1> QED
    BY <1>2, <1>3, <1>5 DEF Inv

LEMMA InvStep == Inv /\ [Next]_vars => Inv'
<1> SUFFICES ASSUME Inv, [Next]_vars PROVE Inv'
    OBVIOUS
<1>1. CASE Next
    BY <1>1, StepOpen, StepOpenFails, StepCloseBegin, StepCloseEnd, StepUpdate, StepFlushWallet,
       StepJobControl, StepJob, StepFlush, StepControl, StepExit DEF Next
<1>2. CASE UNCHANGED vars
  <2>1. UsersCounted'
      BY <1>2, CountKept DEF vars
  <2> QED
      BY <1>2, <2>1 DEF vars, Inv, TypeOK, UsedIsOpen, EntryInv, JobInv, CounterInv
<1> QED
    BY <1>1, <1>2

-----------------------------------------------------------------------------
\* The use count of every file is exact, however opens fail, files are flushed,
\* backed up or rewritten, and the process shuts down; so no handle is closed while a
\* CDB object uses it, and the environment is not closed while a CDB object, a backup
\* or a rewrite is about to call into it, unless the process exits under a thread that
\* StopNode did not wait for; in every other case it leaves no open handle and a
\* self-contained wallet.
THEOREM HandlesAreSafe == Spec => []HandlesSafe
<1>1. ASSUME Inv PROVE ClosedIsClean
  <2>1. entries = {} => mapDb = {} /\ dirty = "no"
      BY <1>1, Zenon DEF Inv, TypeOK, EntryInv
  <2> QED
      BY <1>1, <2>1 DEF Inv, EntryInv, JobInv, ClosedIsClean
<1>2. Inv => HandlesSafe
    BY <1>1 DEF Inv, HandlesSafe
<1> QED
    BY <1>2, InvInit, InvStep, PTL DEF Spec

\* The flush thread knows of every update that was counted, whatever races on the
\* counter, and although three writers do not count.
THEOREM UpdatesAreSeen == Spec => []NothingMissed
<1>1. Inv => NothingMissed
    BY DEF Inv, TypeOK, CounterInv, NothingMissed
<1> QED
    BY <1>1, InvInit, InvStep, PTL DEF Spec
=============================================================================
