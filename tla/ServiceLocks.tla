---------------------------- MODULE ServiceLocks ----------------------------
(***************************************************************************)
(* What the methods of the server's services do with mutexes: each is the   *)
(* longest path through the method, with the methods it calls.  A mutex is  *)
(* named by its service; sync.Mutex is an RWMutex that nobody reads.        *)
(***************************************************************************)
EXTENDS Naturals, Sequences

Section(m, mode, body) ==
  <<[do |-> "lock", mutex |-> m, mode |-> mode]>> \o body
    \o <<[do |-> "unlock", mutex |-> m, mode |-> mode]>>

Write(m) == Section(m, "W", <<>>)
Read(m) == Section(m, "R", <<>>)
WriteAround(m, body) == Section(m, "W", body)
ReadAround(m, body) == Section(m, "R", body)

\* Inner mutexes are lower: the order in which the methods that change
\* something nest them.
Level0 == {"cb.stats", "tm.queue", "tm.workers", "tm.stats", "js.stats", "hc.stats",
           "ac.stats", "ro.stats", "mm.pools", "cm.pool", "mgr.member"}
Level1 == {"cb.mutex", "tm.tasks", "js.jobs", "hc.checks", "ac.l3", "ro.buffer",
           "mm.stats", "cm.stats", "mgr.mutex"}
Level2 == {"cbm.mutex", "ac.l2"}
Level3 == {"ac.l1"}
Level4 == {"rco.stats"}
Level ==
  [m \in Level0 \cup Level1 \cup Level2 \cup Level3 \cup Level4 |->
     CASE m \in Level0 -> 0 [] m \in Level1 -> 1 [] m \in Level2 -> 2
       [] m \in Level3 -> 3 [] m \in Level4 -> 4]

----------------------------------------------------------------------------
(* TaskManager *)
TM_CreateTask == WriteAround("tm.tasks", Write("tm.queue") \o Write("tm.stats") \o Write("tm.stats"))

\* Mutant of TM_UpdateTaskState: the statistics are held while the task changes.
TM_UpdateTaskState_StatsFirst == WriteAround("tm.stats", Write("tm.tasks"))

TM_UpdateTaskState == WriteAround("tm.tasks", Write("tm.stats"))
TM_GetTask == Read("tm.tasks")
TM_dispatch == Write("tm.queue") \o Read("tm.workers") \o Write("tm.stats")
TM_Stop == Write("tm.workers") \o Write("tm.tasks")
TM_GetStats == ReadAround("tm.stats", Read("tm.tasks") \o Read("tm.queue"))

(* JobScheduler *)
JS_executeJob == WriteAround("js.jobs", Write("js.stats"))
JS_checkAndRunJobs == Read("js.jobs")
JS_GetStats == ReadAround("js.stats", Read("js.jobs"))

(* HealthChecker *)
HC_updateCheckStatus == WriteAround("hc.checks", Write("hc.stats"))
HC_GetOverallStatus == Read("hc.checks")
HC_Reset == Write("hc.stats")
HC_GetStats == ReadAround("hc.stats", HC_GetOverallStatus)

(* AdvancedCache, under ResponseCacheOptimizer *)
AC_Evict == Write("ac.stats")
AC_promoteToL1 == WriteAround("ac.l1", AC_Evict \o Write("ac.l2"))
AC_promoteToL2 == WriteAround("ac.l2", AC_Evict \o Write("ac.l3"))
AC_Missed(m) == Read(m) \o Write("ac.stats")
AC_GetL2 == AC_Missed("ac.l1") \o Read("ac.l2") \o Write("ac.stats") \o AC_promoteToL1
AC_GetL3 == AC_Missed("ac.l1") \o AC_Missed("ac.l2") \o Read("ac.l3") \o Write("ac.stats")
              \o AC_promoteToL2
AC_Set(m) == Write("ac.stats") \o WriteAround(m, AC_Evict)
AC_Sweep == Write("ac.l1") \o Write("ac.l2") \o Write("ac.l3") \o Write("ac.stats")
AC_GetStats == ReadAround("ac.stats", Read("ac.l1") \o Read("ac.l2") \o Read("ac.l3"))
RO_OptimizeResponse == Write("ro.buffer") \o Write("ro.stats")
RCO_Get == AC_GetL3 \o Write("rco.stats")
RCO_OptimizeResponse == RO_OptimizeResponse \o Write("rco.stats")
RCO_GetStats == ReadAround("rco.stats", AC_GetStats \o Read("ro.stats"))

(* MemoryManager, ConnectionManager; the pools are each on their own *)
MM_updateStats == WriteAround("mm.stats", Read("mm.pools"))
MM_GetStats == ReadAround("mm.stats", Read("mm.pools"))
MM_poolUpdate == Write("mm.pools")
CM_updateStats == WriteAround("cm.stats", Read("cm.pool"))
CM_GetStats == ReadAround("cm.stats", Read("cm.pool"))
CM_poolUpdate == Write("cm.pool")

(* CircuitBreaker and its manager *)
CB_executeClosed == WriteAround("cb.mutex", Write("cb.stats") \o Write("cb.stats") \o Write("cb.stats"))
CB_executeHalfOpen == WriteAround("cb.mutex", Write("cb.stats") \o Write("cb.stats") \o Write("cb.stats"))
CB_executeOpen == WriteAround("cb.mutex", Write("cb.stats") \o CB_executeHalfOpen)
CB_Reset == WriteAround("cb.mutex", Write("cb.stats"))
CB_ForceClose == WriteAround("cb.mutex", Write("cb.stats"))
CB_GetStats == ReadAround("cb.mutex", Read("cb.stats"))
CBM_GetStats == ReadAround("cbm.mutex", CB_GetStats)
CBM_Stop == WriteAround("cbm.mutex", CB_ForceClose)

(* RetryManager and RateLimitManager are alike *)
Mgr_GetStats == ReadAround("mgr.mutex", Read("mgr.member"))
Mgr_ResetAll == WriteAround("mgr.mutex", Write("mgr.member"))
Mgr_memberUpdate == Write("mgr.member")

----------------------------------------------------------------------------
\* Each service's operations.
TaskManager ==
  [TM_CreateTask |-> TM_CreateTask, TM_UpdateTaskState |-> TM_UpdateTaskState,
   TM_GetTask |-> TM_GetTask, TM_dispatch |-> TM_dispatch, TM_Stop |-> TM_Stop,
   TM_GetStats |-> TM_GetStats]

JobScheduler ==
  [JS_executeJob |-> JS_executeJob, JS_checkAndRunJobs |-> JS_checkAndRunJobs,
   JS_GetStats |-> JS_GetStats]

HealthChecker ==
  [HC_updateCheckStatus |-> HC_updateCheckStatus, HC_GetOverallStatus |-> HC_GetOverallStatus,
   HC_Reset |-> HC_Reset, HC_GetStats |-> HC_GetStats]

CacheOptimizer ==
  [AC_GetL2 |-> AC_GetL2, RCO_Get |-> RCO_Get, AC_SetL1 |-> AC_Set("ac.l1"),
   AC_SetL3 |-> AC_Set("ac.l3"), AC_Sweep |-> AC_Sweep, AC_GetStats |-> AC_GetStats,
   RCO_OptimizeResponse |-> RCO_OptimizeResponse, RCO_GetStats |-> RCO_GetStats]

Managers ==
  [MM_updateStats |-> MM_updateStats, MM_GetStats |-> MM_GetStats,
   MM_poolUpdate |-> MM_poolUpdate, CM_updateStats |-> CM_updateStats,
   CM_GetStats |-> CM_GetStats, CM_poolUpdate |-> CM_poolUpdate,
   CBM_GetStats |-> CBM_GetStats, CBM_Stop |-> CBM_Stop,
   CB_executeClosed |-> CB_executeClosed, CB_executeHalfOpen |-> CB_executeHalfOpen,
   CB_executeOpen |-> CB_executeOpen, CB_Reset |-> CB_Reset,
   CB_ForceClose |-> CB_ForceClose,
   Mgr_GetStats |-> Mgr_GetStats, Mgr_ResetAll |-> Mgr_ResetAll,
   Mgr_memberUpdate |-> Mgr_memberUpdate]

\* The operations of all services.
Methods ==
  [o \in UNION {DOMAIN TaskManager, DOMAIN JobScheduler, DOMAIN HealthChecker,
                DOMAIN CacheOptimizer, DOMAIN Managers} |->
     CASE o \in DOMAIN TaskManager -> TaskManager[o]
       [] o \in DOMAIN JobScheduler -> JobScheduler[o]
       [] o \in DOMAIN HealthChecker -> HealthChecker[o]
       [] o \in DOMAIN CacheOptimizer -> CacheOptimizer[o]
       [] o \in DOMAIN Managers -> Managers[o]]

\* Those that take the statistics mutex first, and the one that takes a mutex
\* it has.
Suspects == {"TM_GetStats", "JS_GetStats", "HC_GetStats", "AC_GetStats", "RCO_GetStats",
             "CB_executeOpen"}
=============================================================================
