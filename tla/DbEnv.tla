-------------------------------- MODULE DbEnv ---------------------------------
(***************************************************************************)
(* The database environment bitdb (db.cpp): handles that several CDB       *)
(* objects share, the use count that says when a handle may be closed, the *)
(* thread that makes wallet.dat self-contained while nobody uses a         *)
(* database (walletdb.cpp), the backup and the rewrite of a file, and the  *)
(* shutdown that closes the environment (init.cpp, net.cpp).               *)
(*                                                                         *)
(* Everything under cs_db is one step.  A CDB object is opened under       *)
(* cs_db, used without it, and closed in two steps.                        *)
(***************************************************************************)
EXTENDS Integers, FiniteSets

CONSTANTS
    Thread,       \* threads that use databases
    Awaited,      \* RPC and message handlers, for which StopNode waits without limit
    File,
    Wallet,       \* wallet.dat
    MaxUpdates    \* bound: increments of nWalletDBUpdated

ASSUME DbEnvAssumption ==
    /\ IsFiniteSet(Thread) /\ Awaited \subseteq Thread
    /\ IsFiniteSet(File) /\ Wallet \in File
    /\ MaxUpdates \in Nat

VARIABLES
    mapFileUseCount,  \* 0 for a file without an entry
    entries,          \* files that have an entry in mapFileUseCount
    mapDb,            \* files whose handle is open
    fDbEnvInit,
    cdb,              \* stage of the CDB object of a thread for a file
    update,           \* what a thread does with nWalletDBUpdated, and the value it read
    nWalletDBUpdated,
    nLastFlushed,     \* of ThreadFlushWalletDB
    dirty,            \* records of wallet.dat are in the log only: of a writer that counts, or not
    job,              \* BackupWallet or CDB::Rewrite of the wallet, by a thread
    running,          \* threads that have not ended
    down              \* stage of Shutdown

vars == <<mapFileUseCount, entries, mapDb, fDbEnvInit, cdb, update, nWalletDBUpdated,
          nLastFlushed, dirty, job, running, down>>
dbVars == <<mapFileUseCount, entries, mapDb, fDbEnvInit>>
walletVars == <<update, nWalletDBUpdated, nLastFlushed, dirty>>

fShutdown == down # "no"
Idle == [stage |-> "none", seen |-> 0]

TypeOK ==
    /\ mapFileUseCount \in [File -> Nat]
    /\ entries \subseteq File /\ mapDb \subseteq File
    /\ fDbEnvInit \in BOOLEAN
    /\ cdb \in [Thread -> [File -> {"closed", "open", "closing"}]]
    /\ update \in [Thread -> [stage : {"none", "read", "announced"}, seen : 0..MaxUpdates]]
    /\ nWalletDBUpdated \in 0..MaxUpdates /\ nLastFlushed \in 0..MaxUpdates
    /\ dirty \in {"no", "uncounted", "counted"}
    /\ job \in [Thread -> {"none", "locking", "sleeping"}]
    /\ running \subseteq Thread
    /\ down \in {"no", "flush", "stop", "close", "closed", "exited"}

\* the flush thread has started after LoadWallet, with the files closed again
Init ==
    /\ mapFileUseCount = [f \in File |-> 0] /\ entries = File /\ mapDb = File
    /\ fDbEnvInit = TRUE
    /\ cdb = [t \in Thread |-> [f \in File |-> "closed"]]
    /\ update = [t \in Thread |-> Idle]
    /\ nWalletDBUpdated = 0 /\ nLastFlushed = 0 /\ dirty = "no"
    /\ job = [t \in Thread |-> "none"]
    /\ running = Thread
    /\ down = "no"

-----------------------------------------------------------------------------
(* CDB objects                                                             *)

SetStage(t, f, stage) == cdb' = [cdb EXCEPT ![t][f] = stage]
AllClosed(t) == \A f \in File : cdb[t][f] = "closed"

\* A thread leaves its loop only when fShutdown is set; until it looks again it may
\* go on opening databases, in a shutdown too.
Active(t) == t \in running /\ job[t] = "none" /\ down # "exited"

\* CDB::CDB; the environment is never opened again in a shutdown (CDBEnv::Open)
Open(t, f) ==
    /\ Active(t) /\ cdb[t][f] = "closed"
    /\ fDbEnvInit
    /\ mapFileUseCount' = [mapFileUseCount EXCEPT ![f] = @ + 1]
    /\ entries' = entries \cup {f} /\ mapDb' = mapDb \cup {f}
    /\ SetStage(t, f, "open")
    /\ UNCHANGED <<fDbEnvInit, walletVars, job, running, down>>

\* Slips that the run must notice are named <operator>_<slip>
OpenFails_KeepsCount(t, f) ==
    /\ Active(t) /\ cdb[t][f] = "closed"
    /\ fDbEnvInit /\ f \notin mapDb
    /\ mapFileUseCount' = [mapFileUseCount EXCEPT ![f] = @ + 1]
    /\ entries' = entries \cup {f}
    /\ UNCHANGED <<mapDb, fDbEnvInit, cdb, walletVars, job, running, down>>
\* Db::open fails: the count is taken back, its entry stays
OpenFails(t, f) ==
    /\ Active(t) /\ cdb[t][f] = "closed"
    /\ fDbEnvInit /\ f \notin mapDb
    /\ entries' = entries \cup {f}
    /\ UNCHANGED <<mapFileUseCount, mapDb, fDbEnvInit, cdb, walletVars, job, running, down>>

\* CDB::Close, first part: pdb is given up, txn_checkpoint runs in the environment
CloseBegin(t, f) ==
    /\ cdb[t][f] = "open" /\ down # "exited"
    /\ f = Wallet => update[t].stage = "none"
    /\ SetStage(t, f, "closing")
    /\ UNCHANGED <<dbVars, walletVars, job, running, down>>

\* CDB::Close, second part, under cs_db; the handle stays
CloseEnd(t, f) ==
    /\ cdb[t][f] = "closing" /\ down # "exited"
    /\ mapFileUseCount' = [mapFileUseCount EXCEPT ![f] = @ - 1]
    /\ SetStage(t, f, "closed")
    /\ UNCHANGED <<entries, mapDb, fDbEnvInit, walletVars, job, running, down>>

-----------------------------------------------------------------------------
(* Updates of the wallet: nWalletDBUpdated++, then Write or Erase.  The    *)
(* counter is plain: two threads may both read it before either stores.    *)
(* Three writers of records do not touch it.                               *)

ReadCounter(t) ==
    /\ Active(t) /\ cdb[t][Wallet] = "open" /\ update[t].stage = "none"
    /\ nWalletDBUpdated < MaxUpdates
    /\ update' = [update EXCEPT ![t] = [stage |-> "read", seen |-> nWalletDBUpdated]]
    /\ UNCHANGED <<dbVars, cdb, nWalletDBUpdated, nLastFlushed, dirty, job, running, down>>

StoreCounter(t) ==
    /\ down # "exited"
    /\ update[t].stage = "read"
    /\ nWalletDBUpdated' = update[t].seen + 1
    /\ update' = [update EXCEPT ![t] = [stage |-> "announced", seen |-> 0]]
    /\ UNCHANGED <<dbVars, cdb, nLastFlushed, dirty, job, running, down>>

\* the write itself, which may fail
Write(t) ==
    /\ down # "exited"
    /\ update[t].stage = "announced"
    /\ dirty' \in {dirty, "counted"}
    /\ update' = [update EXCEPT ![t] = Idle]
    /\ UNCHANGED <<dbVars, cdb, nWalletDBUpdated, nLastFlushed, job, running, down>>

\* WriteAccount, WriteAccountingEntry (the move call) and WriteMinVersion
WriteUncounted(t) ==
    /\ Active(t) /\ cdb[t][Wallet] = "open" /\ update[t].stage = "none"
    /\ dirty' = IF dirty = "no" THEN "uncounted" ELSE dirty
    /\ UNCHANGED <<dbVars, cdb, update, nWalletDBUpdated, nLastFlushed, job, running, down>>

-----------------------------------------------------------------------------
(* Making wallet.dat self-contained                                        *)

\* CloseDb, CheckpointLSN and the erased entry
Detach(f) ==
    /\ mapDb' = mapDb \ {f}
    /\ entries' = entries \ {f}
    /\ mapFileUseCount' = [mapFileUseCount EXCEPT ![f] = 0]

FlushWallet_WalletOnly ==
    /\ down = "no"
    /\ nLastFlushed # nWalletDBUpdated
    /\ Wallet \in entries
    /\ nLastFlushed' = nWalletDBUpdated
    /\ dirty' = "no"
    /\ Detach(Wallet)
    /\ UNCHANGED <<fDbEnvInit, cdb, update, nWalletDBUpdated, job, running, down>>
FlushWallet_MarksFirst ==
    /\ down = "no"
    /\ nLastFlushed # nWalletDBUpdated
    /\ nLastFlushed' = nWalletDBUpdated
    /\ IF Wallet \in entries /\ \A f \in entries : mapFileUseCount[f] = 0
       THEN dirty' = "no" /\ Detach(Wallet)
       ELSE UNCHANGED <<mapDb, entries, mapFileUseCount, dirty>>
    /\ UNCHANGED <<fDbEnvInit, cdb, update, nWalletDBUpdated, job, running, down>>
\* ThreadFlushWalletDB, under TRY_LOCK(cs_db); the two quiet seconds it waits for
\* and the missed locks only delay it
FlushWallet ==
    /\ down = "no"
    /\ nLastFlushed # nWalletDBUpdated
    /\ \A f \in entries : mapFileUseCount[f] = 0
    /\ Wallet \in entries
    /\ nLastFlushed' = nWalletDBUpdated
    /\ dirty' = "no"
    /\ Detach(Wallet)
    /\ UNCHANGED <<fDbEnvInit, cdb, update, nWalletDBUpdated, job, running, down>>

\* the backupwallet call, or EncryptWallet after it has closed its own CWalletDB;
\* also the test of fShutdown after each Sleep(100)
JobStart(t) ==
    /\ Active(t) /\ t \in Awaited /\ AllClosed(t)
    /\ ~fShutdown
    /\ job' = [job EXCEPT ![t] = "locking"]
    /\ UNCHANGED <<dbVars, cdb, walletVars, running, down>>

JobTest_NoTest(t) ==
    /\ job[t] = "sleeping" /\ down # "exited"
    /\ job' = [job EXCEPT ![t] = "locking"]
    /\ UNCHANGED <<dbVars, cdb, walletVars, running, down>>
JobTest(t) ==
    /\ job[t] = "sleeping" /\ down # "exited"
    /\ job' = [job EXCEPT ![t] = IF fShutdown THEN "none" ELSE "locking"]
    /\ UNCHANGED <<dbVars, cdb, walletVars, running, down>>

JobWaits(t) ==
    /\ job[t] = "locking" /\ down # "exited"
    /\ Wallet \in entries /\ mapFileUseCount[Wallet] # 0
    /\ job' = [job EXCEPT ![t] = "sleeping"]
    /\ UNCHANGED <<dbVars, cdb, walletVars, running, down>>

\* BackupWallet copies the file; nLastFlushed does not learn of it
Backup(t) ==
    /\ job[t] = "locking" /\ down # "exited"
    /\ Wallet \notin entries \/ mapFileUseCount[Wallet] = 0
    /\ Detach(Wallet) /\ dirty' = "no"
    /\ job' = [job EXCEPT ![t] = "none"]
    /\ UNCHANGED <<fDbEnvInit, cdb, update, nWalletDBUpdated, nLastFlushed, running, down>>

\* CDB::Rewrite counts its own CDB object and closes it under the same lock.  The
\* handle is left open if the copy fails, after an open that succeeded.
Rewrite(t) ==
    /\ job[t] = "locking" /\ down # "exited"
    /\ Wallet \notin entries \/ mapFileUseCount[Wallet] = 0
    /\ mapDb' \in {mapDb \ {Wallet}, mapDb \cup {Wallet}}
    /\ entries' = entries \cup {Wallet}
    /\ mapFileUseCount' = [mapFileUseCount EXCEPT ![Wallet] = 0]
    /\ dirty' = "no"
    /\ job' = [job EXCEPT ![t] = "none"]
    /\ UNCHANGED <<fDbEnvInit, cdb, update, nWalletDBUpdated, nLastFlushed, running, down>>

-----------------------------------------------------------------------------
(* Shutdown                                                                *)

\* a thread sees fShutdown at the head of its loop, holding no database
ThreadEnds(t) ==
    /\ fShutdown /\ down # "exited"
    /\ t \in running /\ AllClosed(t) /\ job[t] = "none"
    /\ running' = running \ {t}
    /\ UNCHANGED <<dbVars, cdb, walletVars, job, down>>

ShutdownBegin ==
    /\ down = "no" /\ down' = "flush"
    /\ UNCHANGED <<dbVars, cdb, walletVars, job, running>>

\* CDBEnv::Flush: every file with an entry that is not in use
Unused == {f \in entries : mapFileUseCount[f] = 0}
Flushed ==
    /\ mapDb' = mapDb \ Unused
    /\ entries' = entries \ Unused
    /\ dirty' = IF Wallet \in Unused THEN "no" ELSE dirty
    /\ UNCHANGED <<mapFileUseCount, cdb, update, nWalletDBUpdated, nLastFlushed, job, running>>

Flush ==
    /\ down = "flush" /\ down' = "stop"
    /\ Flushed
    /\ UNCHANGED fDbEnvInit

StopNode_GivesUp ==
    /\ down = "stop" /\ down' = "close"
    /\ UNCHANGED <<dbVars, cdb, walletVars, job, running>>
\* StopNode: after 20 seconds only the handlers are waited for
StopNode ==
    /\ down = "stop" /\ down' = "close"
    /\ Awaited \cap running = {}
    /\ UNCHANGED <<dbVars, cdb, walletVars, job, running>>

FlushAndClose_Always ==
    /\ down = "close" /\ down' = "closed"
    /\ Flushed
    /\ fDbEnvInit' = FALSE
\* Flush(true): the environment is closed if no file was in use
FlushAndClose ==
    /\ down = "close" /\ down' = "closed"
    /\ Flushed
    /\ fDbEnvInit' = (entries' # {})

\* The process exits.  The destructor of bitdb closes the environment if that has not
\* been done, whoever still uses it; what such a thread does until the process is gone
\* is undefined and not followed.
Exit ==
    /\ down = "closed" /\ down' = "exited"
    /\ fDbEnvInit' = FALSE
    /\ UNCHANGED <<mapFileUseCount, entries, mapDb, cdb, walletVars, job, running>>

-----------------------------------------------------------------------------
Next ==
    \/ \E t \in Thread, f \in File :
          Open(t, f) \/ OpenFails(t, f) \/ CloseBegin(t, f) \/ CloseEnd(t, f)
    \/ \E t \in Thread :
          \/ ReadCounter(t) \/ StoreCounter(t) \/ Write(t) \/ WriteUncounted(t)
          \/ JobStart(t) \/ JobTest(t) \/ JobWaits(t) \/ Backup(t) \/ Rewrite(t)
          \/ ThreadEnds(t)
    \/ FlushWallet \/ ShutdownBegin \/ Flush \/ StopNode \/ FlushAndClose \/ Exit

Spec == Init /\ [][Next]_vars

\* What was begun is finished, and the loops of the flush thread and of Shutdown go
\* on.  A thread that comes back to the head of its loop again and again leaves it
\* if fShutdown is set.
Fairness ==
    /\ \A t \in Thread :
          /\ \A f \in File : WF_vars(CloseBegin(t, f)) /\ WF_vars(CloseEnd(t, f))
          /\ WF_vars(StoreCounter(t)) /\ WF_vars(Write(t))
          /\ WF_vars(JobTest(t)) /\ WF_vars(JobWaits(t) \/ Backup(t) \/ Rewrite(t))
          /\ SF_vars(ThreadEnds(t))
    /\ WF_vars(FlushWallet)
    /\ WF_vars(Flush \/ StopNode \/ FlushAndClose \/ Exit)

FairSpec == Spec /\ Fairness

-----------------------------------------------------------------------------
(* Properties                                                              *)

Users(f) == {t \in Thread : cdb[t][f] # "closed"}

\* The use count of a file is the number of CDB objects on it, those that are being
\* closed included, through failed opens, erased entries, rewrites and shutdown.
UsersCounted == \A f \in File : mapFileUseCount[f] = Cardinality(Users(f))

\* Nobody closes a handle under a CDB object that uses it, nor the environment under
\* one whose txn_checkpoint may be running or under a backup or rewrite that has
\* tested fShutdown and is about to call CheckpointLSN; only the exit of the process
\* does so, to a thread that StopNode does not wait for.
UsedIsOpen ==
    /\ \A t \in Thread, f \in File :
          /\ cdb[t][f] = "open" => f \in mapDb
          /\ cdb[t][f] # "closed" => fDbEnvInit \/ (down = "exited" /\ t \notin Awaited)
    /\ \A t \in Thread : job[t] = "locking" => fDbEnvInit

\* When the environment is closed no handle is open in it and wallet.dat holds
\* everything that was written to it, counted or not; except at an exit with files
\* that a thread StopNode does not wait for had in use.
ClosedIsClean ==
    ~fDbEnvInit => \/ mapDb = {} /\ dirty = "no"
                   \/ down = "exited" /\ entries # {} /\ ~(Thread \subseteq Awaited)

\* Handles and environment are closed exactly under those who are done with them.
HandlesSafe == TypeOK /\ UsersCounted /\ UsedIsOpen /\ ClosedIsClean

\* The flush thread overlooks no update that was counted: when nobody uses the wallet
\* and such records are in the log only, it knows of an update it has not flushed,
\* although the counter is incremented without a lock and a slow thread may set it
\* back.  (Records of the three writers that do not count wait for the next counted
\* update, a backup or the shutdown.)
NothingMissed ==
    dirty = "counted" /\ Users(Wallet) = {} => nLastFlushed # nWalletDBUpdated

\* If the databases come to rest, what was counted gets into wallet.dat and stays.
WalletSettles ==
    <>[](\A t \in Thread : AllClosed(t)) => <>[](dirty # "counted" \/ fShutdown)

\* A shutdown comes to its end if the handlers finish what they do with databases,
\* whatever the miner does: a handler that waits for the use count of the wallet
\* stops waiting.
ShutdownEnds ==
    (\A t \in Awaited : []<>AllClosed(t)) => (fShutdown ~> down = "exited")
=============================================================================
