-------------------------- MODULE SessionLockProofs -------------------------
(***************************************************************************)
(* What the session lock guarantees for every set of outputs, every answer *)
(* of the prerequisite tests and of logind, and every number of queued     *)
(* signals.                                                                *)
(***************************************************************************)
EXTENDS SessionLock, TLAPS

\* Every step of TCCLock leaves its flags, the shared ones included, boolean.
LEMMA BooleansStep == TypeOK /\ [Next]_vars => BooleansOK'
<1> SUFFICES ASSUME TypeOK, [Next]_vars PROVE BooleansOK'
  OBVIOUS
<1> USE DEF TypeOK, BooleansOK, LockFlags, UiFlags, ThreadFlags, PamFlags,
           SleepFlags, lock, ui, thread, pam, logind
<1>1. CASE LockLocked
  BY <1>1 DEF LockLocked, Dispatching, SleepReady, EndLock, NoteStale
<1>2. CASE LockFinished
  BY <1>2 DEF LockFinished, Dispatching, SleepReady, EndLock, NoteStale
<1>3. CASE Idled
  BY <1>3 DEF Idled, Dispatching, DoLock, AlreadyLocking, CannotLock,
     StartLocking, SleepReady, Lockable
<1>4. ASSUME NEW o \in Output, OutputAnnounced(o)
      PROVE  BooleansOK'
  BY <1>4 DEF OutputAnnounced, Dispatching
<1>5. ASSUME NEW o \in Output, OutputNamed(o)
      PROVE  BooleansOK'
  BY <1>5 DEF OutputNamed, Dispatching
<1>6. ASSUME NEW o \in Output, OutputMarkedRemoved(o)
      PROVE  BooleansOK'
  BY <1>6 DEF OutputMarkedRemoved, Dispatching
<1>7. ASSUME NEW o \in Output, OutputDestroyed(o)
      PROVE  BooleansOK'
  BY <1>7 DEF OutputDestroyed, Dispatching
<1>8. ASSUME NEW o \in Output, SurfaceConfigured(o)
      PROVE  BooleansOK'
  BY <1>8 DEF SurfaceConfigured, Dispatching, MayMap
<1>9. CASE KeyPressed
  BY <1>9 DEF KeyPressed, Dispatching, ShowDialog, MayMap
<1>10. CASE PointerWakesDialog
  BY <1>10 DEF PointerWakesDialog, Dispatching, ShowDialog, MayMap
<1>11. CASE PointerPressed
  BY <1>11 DEF PointerPressed, Dispatching
<1>12. CASE DialogClosed
  BY <1>12 DEF DialogClosed, Dispatching
<1>13. ASSUME NEW o \in Output \cup {None}, PointerMoved(o)
      PROVE  BooleansOK'
  BY <1>13 DEF PointerMoved, Dispatching
<1>14. CASE Wake
  BY <1>14 DEF Wake
<1>15. CASE DrainWakeFd
  BY <1>15 DEF DrainWakeFd
<1>16. CASE TakeLockRequest
  BY <1>16 DEF TakeLockRequest, DoLock, AlreadyLocking, CannotLock,
     StartLocking, SleepReady, Lockable
<1>17. CASE PollPamResult
  BY <1>17 DEF PollPamResult, Unlock, EndLock
<1>18. CASE HandleSignal
  BY <1>18 DEF HandleSignal, DoLock, AlreadyLocking, CannotLock,
     StartLocking, SleepReady, Unlock, EndLock, NoteStale, Lockable
<1>19. CASE FinishIteration
  BY <1>19 DEF FinishIteration
<1>20. CASE RequestLock
  BY <1>20 DEF RequestLock
<1>21. CASE RequestLockWrite
  BY <1>21 DEF RequestLockWrite
<1>22. CASE PamChecked
  BY <1>22 DEF PamChecked
<1>23. CASE PamNotify
  BY <1>23 DEF PamNotify
<1>24. CASE UserSignal
  BY <1>24 DEF UserSignal, Room
<1>25. CASE LogindPrepares
  BY <1>25 DEF LogindPrepares, Room
<1>26. CASE LogindSuspends
  BY <1>26 DEF LogindSuspends
<1>27. CASE LogindResumes
  BY <1>27 DEF LogindResumes
<1>28. CASE UNCHANGED vars
  BY <1>28 DEF vars
<1> QED
  BY <1>1, <1>2, <1>3, <1>4, <1>5, <1>6, <1>7, <1>8, <1>9, <1>10, <1>11,
     <1>12, <1>13, <1>14, <1>15, <1>16, <1>17, <1>18, <1>19, <1>20, <1>21,
     <1>22, <1>23, <1>24, <1>25, <1>26, <1>27, <1>28
  DEF Next, OutputEvent, UserInput, MainLoop, OtherThreads, Logind

\* Every step of TCCLock leaves its other variables in their types: in
\* particular only lock surfaces that exist are configured and mapped.
LEMMA ValuesStep == TypeOK /\ [Next]_vars => ValuesOK'
<1> SUFFICES ASSUME TypeOK, [Next]_vars PROVE ValuesOK'
  OBVIOUS
<1> USE NoneAssumption DEF TypeOK, ValuesOK, lock, ui, thread, pam, logind
<1>1. CASE LockLocked
  BY <1>1 DEF LockLocked, Dispatching, SleepReady, EndLock, NoteStale
<1>2. CASE LockFinished
  BY <1>2 DEF LockFinished, Dispatching, SleepReady, EndLock, NoteStale
<1>3. CASE Idled
  BY <1>3 DEF Idled, Dispatching, DoLock, AlreadyLocking, CannotLock,
     StartLocking, SleepReady, Lockable
<1>4. ASSUME NEW o \in Output, OutputAnnounced(o)
      PROVE  ValuesOK'
  BY <1>4 DEF OutputAnnounced, Dispatching
<1>5. ASSUME NEW o \in Output, OutputNamed(o)
      PROVE  ValuesOK'
  BY <1>5 DEF OutputNamed, Dispatching
<1>6. ASSUME NEW o \in Output, OutputMarkedRemoved(o)
      PROVE  ValuesOK'
  BY <1>6 DEF OutputMarkedRemoved, Dispatching
<1>7. ASSUME NEW o \in Output, OutputDestroyed(o)
      PROVE  ValuesOK'
  BY <1>7 DEF OutputDestroyed, Dispatching
<1>8. ASSUME NEW o \in Output, SurfaceConfigured(o)
      PROVE  ValuesOK'
  BY <1>8 DEF SurfaceConfigured, Dispatching, MayMap
<1>9. CASE KeyPressed
  BY <1>9 DEF KeyPressed, Dispatching, ShowDialog, MayMap
<1>10. CASE PointerWakesDialog
  BY <1>10 DEF PointerWakesDialog, Dispatching, ShowDialog, MayMap
<1>11. CASE PointerPressed
  BY <1>11 DEF PointerPressed, Dispatching
<1>12. CASE DialogClosed
  BY <1>12 DEF DialogClosed, Dispatching
<1>13. ASSUME NEW o \in Output \cup {None}, PointerMoved(o)
      PROVE  ValuesOK'
  BY <1>13 DEF PointerMoved, Dispatching
<1>14. CASE Wake
  BY <1>14 DEF Wake
<1>15. CASE DrainWakeFd
  BY <1>15 DEF DrainWakeFd
<1>16. CASE TakeLockRequest
  BY <1>16 DEF TakeLockRequest, DoLock, AlreadyLocking, CannotLock,
     StartLocking, SleepReady, Lockable
<1>17. CASE PollPamResult
  BY <1>17 DEF PollPamResult, Unlock, EndLock
<1>18. CASE HandleSignal
  <2> USE <1>18 DEF HandleSignal
  <2>1. /\ signals' \in Seq({"Lock", "Unlock", "PrepareForSleep", "Resumed"})
        /\ batch' \in 0..Len(signals')
    <3>1. signals # <<>>
      OBVIOUS
    <3>2. Len(Tail(signals)) = Len(signals) - 1
      BY <3>1
    <3> QED
      BY <3>1, <3>2
  <2>2. /\ lockState' \in {"unlocked", "pending", "locked"}
        /\ surfaces' \in SUBSET Output
        /\ configured' \in SUBSET surfaces' /\ mapped' \in SUBSET surfaces'
        /\ pointerSurface' \in Output \cup {None}
        /\ worker' \in {"none", "checking", "notifying", "exited"}
    BY DEF DoLock, AlreadyLocking, CannotLock, StartLocking, Unlock, EndLock,
           Lockable
  <2> QED
    BY <2>1, <2>2
<1>19. CASE FinishIteration
  BY <1>19 DEF FinishIteration
<1>20. CASE RequestLock
  BY <1>20 DEF RequestLock
<1>21. CASE RequestLockWrite
  BY <1>21 DEF RequestLockWrite
<1>22. CASE PamChecked
  BY <1>22 DEF PamChecked
<1>23. CASE PamNotify
  BY <1>23 DEF PamNotify
<1>24. CASE UserSignal
  BY <1>24 DEF UserSignal, Room
<1>25. CASE LogindPrepares
  BY <1>25 DEF LogindPrepares, Room
<1>26. CASE LogindSuspends
  BY <1>26 DEF LogindSuspends
<1>27. CASE LogindResumes
  BY <1>27 DEF LogindResumes
<1>28. CASE UNCHANGED vars
  BY <1>28 DEF vars
<1> QED
  BY <1>1, <1>2, <1>3, <1>4, <1>5, <1>6, <1>7, <1>8, <1>9, <1>10, <1>11,
     <1>12, <1>13, <1>14, <1>15, <1>16, <1>17, <1>18, <1>19, <1>20, <1>21,
     <1>22, <1>23, <1>24, <1>25, <1>26, <1>27, <1>28
  DEF Next, OutputEvent, UserInput, MainLoop, OtherThreads, Logind

\* The state of the lock has the types its variables are declared with, and
\* no surface is configured or mapped that does not exist.
THEOREM TypeCorrect == Spec => []TypeOK
<1>1. Init => TypeOK
  <2> SUFFICES ASSUME Init PROVE TypeOK
    OBVIOUS
  <2>1. ValuesOK
    BY DEF Init, ValuesOK
  <2>2. BooleansOK
    BY InhibitsAssumption, Zenon DEF Init, BooleansOK, LockFlags, UiFlags, ThreadFlags,
       PamFlags, SleepFlags
  <2> QED
    BY <2>1, <2>2 DEF TypeOK
<1>2. TypeOK /\ [Next]_vars => TypeOK'
  BY BooleansStep, ValuesStep DEF TypeOK
<1>3. QED
  BY <1>1, <1>2, PTL DEF Spec
\* No handler leaves a surface, the loader, typed text or the hint behind.
LEMMA LockLifecycleStep == TypeOK /\ LockLifecycle /\ [Next]_vars => LockLifecycle'
<1> SUFFICES ASSUME TypeOK, LockLifecycle, [Next]_vars PROVE LockLifecycle'
  OBVIOUS
<1> USE DEF TypeOK, ValuesOK, lock, ui, thread, pam, logind, LockLifecycle
<1>1. CASE LockLocked
  BY <1>1 DEF LockLocked, Dispatching, SleepReady, EndLock, NoteStale
<1>2. CASE LockFinished
  BY <1>2 DEF LockFinished, Dispatching, SleepReady, EndLock, NoteStale
<1>3. CASE Idled
  <2>1. CASE UNCHANGED <<lock, ui, hint>>
    BY <2>1
  <2>2. CASE /\ \E sp, ow : StartLocking(sp, ow)
             /\ UNCHANGED hint
    <3>1. mapped' = {}
      BY <2>2 DEF StartLocking
    <3> QED
      BY <2>2, <3>1 DEF StartLocking
  <2> QED
    BY <1>3, <2>1, <2>2
    DEF Idled, DoLock, AlreadyLocking, CannotLock
<1>4. ASSUME NEW o \in Output, OutputAnnounced(o)
      PROVE  LockLifecycle'
  BY <1>4 DEF OutputAnnounced, Dispatching
<1>5. ASSUME NEW o \in Output, OutputNamed(o)
      PROVE  LockLifecycle'
  BY <1>5 DEF OutputNamed, Dispatching
<1>6. ASSUME NEW o \in Output, OutputMarkedRemoved(o)
      PROVE  LockLifecycle'
  BY <1>6 DEF OutputMarkedRemoved, Dispatching
<1>7. ASSUME NEW o \in Output, OutputDestroyed(o)
      PROVE  LockLifecycle'
  BY <1>7 DEF OutputDestroyed, Dispatching
<1>8. ASSUME NEW o \in Output, SurfaceConfigured(o)
      PROVE  LockLifecycle'
  BY <1>8 DEF SurfaceConfigured, Dispatching, MayMap
<1>9. CASE KeyPressed
  BY <1>9 DEF KeyPressed, Dispatching, ShowDialog, MayMap
<1>10. CASE PointerWakesDialog
  BY <1>10 DEF PointerWakesDialog, Dispatching, ShowDialog, MayMap
<1>11. CASE PointerPressed
  BY <1>11 DEF PointerPressed, Dispatching
<1>12. CASE DialogClosed
  BY <1>12 DEF DialogClosed, Dispatching
<1>13. ASSUME NEW o \in Output \cup {None}, PointerMoved(o)
      PROVE  LockLifecycle'
  BY <1>13 DEF PointerMoved, Dispatching
<1>14. CASE Wake
  BY <1>14 DEF Wake
<1>15. CASE DrainWakeFd
  BY <1>15 DEF DrainWakeFd
<1>16. CASE TakeLockRequest
  <2>1. CASE UNCHANGED <<lock, ui, hint>>
    BY <2>1
  <2>2. CASE /\ \E sp, ow : StartLocking(sp, ow)
             /\ UNCHANGED hint
    <3>1. mapped' = {}
      BY <2>2 DEF StartLocking
    <3> QED
      BY <2>2, <3>1 DEF StartLocking
  <2> QED
    BY <1>16, <2>1, <2>2
    DEF TakeLockRequest, DoLock, AlreadyLocking, CannotLock
<1>17. CASE PollPamResult
  BY <1>17 DEF PollPamResult, Unlock, EndLock
<1>18. CASE HandleSignal
  <2>1. CASE UNCHANGED <<lock, ui, hint>>
    BY <2>1
  <2>2. CASE /\ \E sp, ow : StartLocking(sp, ow)
             /\ UNCHANGED hint
    <3>1. mapped' = {}
      BY <2>2 DEF StartLocking
    <3> QED
      BY <2>2, <3>1 DEF StartLocking
  <2>3. CASE Unlock
    BY <2>3 DEF Unlock, EndLock
  <2> QED
    BY <1>18, <2>1, <2>2, <2>3
    DEF HandleSignal, DoLock, AlreadyLocking, CannotLock
<1>19. CASE FinishIteration
  BY <1>19 DEF FinishIteration
<1>20. CASE RequestLock
  BY <1>20 DEF RequestLock
<1>21. CASE RequestLockWrite
  BY <1>21 DEF RequestLockWrite
<1>22. CASE PamChecked
  BY <1>22 DEF PamChecked
<1>23. CASE PamNotify
  BY <1>23 DEF PamNotify
<1>24. CASE UserSignal
  BY <1>24 DEF UserSignal, Room
<1>25. CASE LogindPrepares
  BY <1>25 DEF LogindPrepares, Room
<1>26. CASE LogindSuspends
  BY <1>26 DEF LogindSuspends
<1>27. CASE LogindResumes
  BY <1>27 DEF LogindResumes
<1>28. CASE UNCHANGED vars
  BY <1>28 DEF vars
<1> QED
  BY <1>1, <1>2, <1>3, <1>4, <1>5, <1>6, <1>7, <1>8, <1>9, <1>10, <1>11,
     <1>12, <1>13, <1>14, <1>15, <1>16, <1>17, <1>18, <1>19, <1>20, <1>21,
     <1>22, <1>23, <1>24, <1>25, <1>26, <1>27, <1>28
  DEF Next, OutputEvent, UserInput, MainLoop, OtherThreads, Logind

\* No handler leaves a usable output uncovered while locking or locked.
LEMMA OutputsCoveredStep == TypeOK /\ LockLifecycle /\ OutputsCovered /\ [Next]_vars => OutputsCovered'
<1> SUFFICES ASSUME TypeOK, LockLifecycle, OutputsCovered, [Next]_vars PROVE OutputsCovered'
  OBVIOUS
<1> USE DEF TypeOK, ValuesOK, lock, ui, thread, pam, logind, OutputsCovered
<1>1. CASE LockLocked
  BY <1>1 DEF LockLocked, Dispatching, SleepReady, EndLock, NoteStale,
     Lockable
<1>2. CASE LockFinished
  BY <1>2 DEF LockFinished, Dispatching, SleepReady, EndLock, NoteStale,
     Lockable
<1>3. CASE Idled
  BY <1>3 DEF Idled, Dispatching, DoLock, AlreadyLocking, CannotLock,
     StartLocking, SleepReady, Lockable, Lockable
<1>4. ASSUME NEW o \in Output, OutputAnnounced(o)
      PROVE  OutputsCovered'
  BY <1>4 DEF OutputAnnounced, Dispatching, Lockable
<1>5. ASSUME NEW o \in Output, OutputNamed(o)
      PROVE  OutputsCovered'
  BY <1>5 DEF OutputNamed, Dispatching, Lockable
<1>6. ASSUME NEW o \in Output, OutputMarkedRemoved(o)
      PROVE  OutputsCovered'
  BY <1>6 DEF OutputMarkedRemoved, Dispatching, Lockable
<1>7. ASSUME NEW o \in Output, OutputDestroyed(o)
      PROVE  OutputsCovered'
  BY <1>7 DEF OutputDestroyed, Dispatching, Lockable
<1>8. ASSUME NEW o \in Output, SurfaceConfigured(o)
      PROVE  OutputsCovered'
  BY <1>8 DEF SurfaceConfigured, Dispatching, MayMap, Lockable
<1>9. CASE KeyPressed
  BY <1>9 DEF KeyPressed, Dispatching, ShowDialog, MayMap, Lockable
<1>10. CASE PointerWakesDialog
  BY <1>10 DEF PointerWakesDialog, Dispatching, ShowDialog, MayMap, Lockable
<1>11. CASE PointerPressed
  BY <1>11 DEF PointerPressed, Dispatching, Lockable
<1>12. CASE DialogClosed
  BY <1>12 DEF DialogClosed, Dispatching, Lockable
<1>13. ASSUME NEW o \in Output \cup {None}, PointerMoved(o)
      PROVE  OutputsCovered'
  BY <1>13 DEF PointerMoved, Dispatching, Lockable
<1>14. CASE Wake
  BY <1>14 DEF Wake, Lockable
<1>15. CASE DrainWakeFd
  BY <1>15 DEF DrainWakeFd, Lockable
<1>16. CASE TakeLockRequest
  BY <1>16 DEF TakeLockRequest, DoLock, AlreadyLocking, CannotLock,
     StartLocking, SleepReady, Lockable, Lockable
<1>17. CASE PollPamResult
  BY <1>17 DEF PollPamResult, Unlock, EndLock, Lockable
<1>18. CASE HandleSignal
  BY <1>18 DEF HandleSignal, DoLock, AlreadyLocking, CannotLock,
     StartLocking, SleepReady, Unlock, EndLock, NoteStale, Lockable,
     Lockable
<1>19. CASE FinishIteration
  BY <1>19 DEF FinishIteration, Lockable
<1>20. CASE RequestLock
  BY <1>20 DEF RequestLock, Lockable
<1>21. CASE RequestLockWrite
  BY <1>21 DEF RequestLockWrite, Lockable
<1>22. CASE PamChecked
  BY <1>22 DEF PamChecked, Lockable
<1>23. CASE PamNotify
  BY <1>23 DEF PamNotify, Lockable
<1>24. CASE UserSignal
  BY <1>24 DEF UserSignal, Room, Lockable
<1>25. CASE LogindPrepares
  BY <1>25 DEF LogindPrepares, Room, Lockable
<1>26. CASE LogindSuspends
  BY <1>26 DEF LogindSuspends, Lockable
<1>27. CASE LogindResumes
  BY <1>27 DEF LogindResumes, Lockable
<1>28. CASE UNCHANGED vars
  BY <1>28 DEF vars, Lockable
<1> QED
  BY <1>1, <1>2, <1>3, <1>4, <1>5, <1>6, <1>7, <1>8, <1>9, <1>10, <1>11,
     <1>12, <1>13, <1>14, <1>15, <1>16, <1>17, <1>18, <1>19, <1>20, <1>21,
     <1>22, <1>23, <1>24, <1>25, <1>26, <1>27, <1>28
  DEF Next, OutputEvent, UserInput, MainLoop, OtherThreads, Logind

\* No handler leaves a seat pointing at a deleted lock surface.
LEMMA PointerSurfaceAliveStep == TypeOK /\ PointerSurfaceAlive /\ [Next]_vars => PointerSurfaceAlive'
<1> SUFFICES ASSUME TypeOK, PointerSurfaceAlive, [Next]_vars PROVE PointerSurfaceAlive'
  OBVIOUS
<1> USE NoneAssumption DEF TypeOK, ValuesOK, lock, ui, thread, pam, logind, PointerSurfaceAlive
<1>1. CASE LockLocked
  BY <1>1 DEF LockLocked, Dispatching, SleepReady, EndLock, NoteStale
<1>2. CASE LockFinished
  BY <1>2 DEF LockFinished, Dispatching, SleepReady, EndLock, NoteStale
<1>3. CASE Idled
  BY ZenonT(60), <1>3 DEF Idled, Dispatching, DoLock, AlreadyLocking, CannotLock,
     StartLocking, SleepReady, Lockable
<1>4. ASSUME NEW o \in Output, OutputAnnounced(o)
      PROVE  PointerSurfaceAlive'
  BY <1>4 DEF OutputAnnounced, Dispatching
<1>5. ASSUME NEW o \in Output, OutputNamed(o)
      PROVE  PointerSurfaceAlive'
  BY <1>5 DEF OutputNamed, Dispatching
<1>6. ASSUME NEW o \in Output, OutputMarkedRemoved(o)
      PROVE  PointerSurfaceAlive'
  BY <1>6 DEF OutputMarkedRemoved, Dispatching
<1>7. ASSUME NEW o \in Output, OutputDestroyed(o)
      PROVE  PointerSurfaceAlive'
  BY <1>7 DEF OutputDestroyed, Dispatching
<1>8. ASSUME NEW o \in Output, SurfaceConfigured(o)
      PROVE  PointerSurfaceAlive'
  BY <1>8 DEF SurfaceConfigured, Dispatching, MayMap
<1>9. CASE KeyPressed
  BY <1>9 DEF KeyPressed, Dispatching, ShowDialog, MayMap
<1>10. CASE PointerWakesDialog
  BY <1>10 DEF PointerWakesDialog, Dispatching, ShowDialog, MayMap
<1>11. CASE PointerPressed
  BY <1>11 DEF PointerPressed, Dispatching
<1>12. CASE DialogClosed
  BY <1>12 DEF DialogClosed, Dispatching
<1>13. ASSUME NEW o \in Output \cup {None}, PointerMoved(o)
      PROVE  PointerSurfaceAlive'
  BY <1>13 DEF PointerMoved, Dispatching
<1>14. CASE Wake
  BY <1>14 DEF Wake
<1>15. CASE DrainWakeFd
  BY <1>15 DEF DrainWakeFd
<1>16. CASE TakeLockRequest
  BY ZenonT(60), <1>16 DEF TakeLockRequest, DoLock, AlreadyLocking, CannotLock,
     StartLocking, SleepReady, Lockable
<1>17. CASE PollPamResult
  BY <1>17 DEF PollPamResult, Unlock, EndLock
<1>18. CASE HandleSignal
  BY ZenonT(60), <1>18 DEF HandleSignal, DoLock, AlreadyLocking, CannotLock,
     StartLocking, SleepReady, Unlock, EndLock, NoteStale, Lockable
<1>19. CASE FinishIteration
  BY <1>19 DEF FinishIteration
<1>20. CASE RequestLock
  BY <1>20 DEF RequestLock
<1>21. CASE RequestLockWrite
  BY <1>21 DEF RequestLockWrite
<1>22. CASE PamChecked
  BY <1>22 DEF PamChecked
<1>23. CASE PamNotify
  BY <1>23 DEF PamNotify
<1>24. CASE UserSignal
  BY <1>24 DEF UserSignal, Room
<1>25. CASE LogindPrepares
  BY <1>25 DEF LogindPrepares, Room
<1>26. CASE LogindSuspends
  BY <1>26 DEF LogindSuspends
<1>27. CASE LogindResumes
  BY <1>27 DEF LogindResumes
<1>28. CASE UNCHANGED vars
  BY <1>28 DEF vars
<1> QED
  BY <1>1, <1>2, <1>3, <1>4, <1>5, <1>6, <1>7, <1>8, <1>9, <1>10, <1>11,
     <1>12, <1>13, <1>14, <1>15, <1>16, <1>17, <1>18, <1>19, <1>20, <1>21,
     <1>22, <1>23, <1>24, <1>25, <1>26, <1>27, <1>28
  DEF Next, OutputEvent, UserInput, MainLoop, OtherThreads, Logind

\* No handler leaves logind waiting unless the compositor has to answer.
LEMMA SleepPendingStep == TypeOK /\ SleepPendingWhilePending /\ [Next]_vars => SleepPendingWhilePending'
<1> SUFFICES ASSUME TypeOK, SleepPendingWhilePending, [Next]_vars PROVE SleepPendingWhilePending'
  OBVIOUS
<1> USE DEF TypeOK, ValuesOK, lock, ui, thread, pam, logind, SleepPendingWhilePending
<1>1. CASE LockLocked
  BY <1>1 DEF LockLocked, Dispatching, SleepReady, EndLock, NoteStale
<1>2. CASE LockFinished
  BY <1>2 DEF LockFinished, Dispatching, SleepReady, EndLock, NoteStale
<1>3. CASE Idled
  BY <1>3 DEF Idled, Dispatching, DoLock, AlreadyLocking, CannotLock,
     StartLocking, SleepReady, Lockable
<1>4. ASSUME NEW o \in Output, OutputAnnounced(o)
      PROVE  SleepPendingWhilePending'
  BY <1>4 DEF OutputAnnounced, Dispatching
<1>5. ASSUME NEW o \in Output, OutputNamed(o)
      PROVE  SleepPendingWhilePending'
  BY <1>5 DEF OutputNamed, Dispatching
<1>6. ASSUME NEW o \in Output, OutputMarkedRemoved(o)
      PROVE  SleepPendingWhilePending'
  BY <1>6 DEF OutputMarkedRemoved, Dispatching
<1>7. ASSUME NEW o \in Output, OutputDestroyed(o)
      PROVE  SleepPendingWhilePending'
  BY <1>7 DEF OutputDestroyed, Dispatching
<1>8. ASSUME NEW o \in Output, SurfaceConfigured(o)
      PROVE  SleepPendingWhilePending'
  BY <1>8 DEF SurfaceConfigured, Dispatching, MayMap
<1>9. CASE KeyPressed
  BY <1>9 DEF KeyPressed, Dispatching, ShowDialog, MayMap
<1>10. CASE PointerWakesDialog
  BY <1>10 DEF PointerWakesDialog, Dispatching, ShowDialog, MayMap
<1>11. CASE PointerPressed
  BY <1>11 DEF PointerPressed, Dispatching
<1>12. CASE DialogClosed
  BY <1>12 DEF DialogClosed, Dispatching
<1>13. ASSUME NEW o \in Output \cup {None}, PointerMoved(o)
      PROVE  SleepPendingWhilePending'
  BY <1>13 DEF PointerMoved, Dispatching
<1>14. CASE Wake
  BY <1>14 DEF Wake
<1>15. CASE DrainWakeFd
  BY <1>15 DEF DrainWakeFd
<1>16. CASE TakeLockRequest
  BY <1>16 DEF TakeLockRequest, DoLock, AlreadyLocking, CannotLock,
     StartLocking, SleepReady, Lockable
<1>17. CASE PollPamResult
  BY <1>17 DEF PollPamResult, Unlock, EndLock
<1>18. CASE HandleSignal
  BY <1>18 DEF HandleSignal, DoLock, AlreadyLocking, CannotLock,
     StartLocking, SleepReady, Unlock, EndLock, NoteStale, Lockable
<1>19. CASE FinishIteration
  BY <1>19 DEF FinishIteration
<1>20. CASE RequestLock
  BY <1>20 DEF RequestLock
<1>21. CASE RequestLockWrite
  BY <1>21 DEF RequestLockWrite
<1>22. CASE PamChecked
  BY <1>22 DEF PamChecked
<1>23. CASE PamNotify
  BY <1>23 DEF PamNotify
<1>24. CASE UserSignal
  BY <1>24 DEF UserSignal, Room
<1>25. CASE LogindPrepares
  BY <1>25 DEF LogindPrepares, Room
<1>26. CASE LogindSuspends
  BY <1>26 DEF LogindSuspends
<1>27. CASE LogindResumes
  BY <1>27 DEF LogindResumes
<1>28. CASE UNCHANGED vars
  BY <1>28 DEF vars
<1> QED
  BY <1>1, <1>2, <1>3, <1>4, <1>5, <1>6, <1>7, <1>8, <1>9, <1>10, <1>11,
     <1>12, <1>13, <1>14, <1>15, <1>16, <1>17, <1>18, <1>19, <1>20, <1>21,
     <1>22, <1>23, <1>24, <1>25, <1>26, <1>27, <1>28
  DEF Next, OutputEvent, UserInput, MainLoop, OtherThreads, Logind

\* The main loop and the PAM thread hand the answer over without losing it.
LEMMA PamHandoverStep == TypeOK /\ PamHandover /\ [Next]_vars => PamHandover'
<1> SUFFICES ASSUME TypeOK, PamHandover, [Next]_vars PROVE PamHandover'
  OBVIOUS
<1> USE DEF TypeOK, ValuesOK, lock, ui, thread, pam, logind, PamHandover
<1>1. CASE LockLocked
  BY <1>1 DEF LockLocked, Dispatching, SleepReady, EndLock, NoteStale
<1>2. CASE LockFinished
  BY <1>2 DEF LockFinished, Dispatching, SleepReady, EndLock, NoteStale
<1>3. CASE Idled
  BY <1>3 DEF Idled, Dispatching, DoLock, AlreadyLocking, CannotLock,
     StartLocking, SleepReady, Lockable
<1>4. ASSUME NEW o \in Output, OutputAnnounced(o)
      PROVE  PamHandover'
  BY <1>4 DEF OutputAnnounced, Dispatching
<1>5. ASSUME NEW o \in Output, OutputNamed(o)
      PROVE  PamHandover'
  BY <1>5 DEF OutputNamed, Dispatching
<1>6. ASSUME NEW o \in Output, OutputMarkedRemoved(o)
      PROVE  PamHandover'
  BY <1>6 DEF OutputMarkedRemoved, Dispatching
<1>7. ASSUME NEW o \in Output, OutputDestroyed(o)
      PROVE  PamHandover'
  BY <1>7 DEF OutputDestroyed, Dispatching
<1>8. ASSUME NEW o \in Output, SurfaceConfigured(o)
      PROVE  PamHandover'
  BY <1>8 DEF SurfaceConfigured, Dispatching, MayMap
<1>9. CASE KeyPressed
  BY <1>9 DEF KeyPressed, Dispatching, ShowDialog, MayMap
<1>10. CASE PointerWakesDialog
  BY <1>10 DEF PointerWakesDialog, Dispatching, ShowDialog, MayMap
<1>11. CASE PointerPressed
  BY <1>11 DEF PointerPressed, Dispatching
<1>12. CASE DialogClosed
  BY <1>12 DEF DialogClosed, Dispatching
<1>13. ASSUME NEW o \in Output \cup {None}, PointerMoved(o)
      PROVE  PamHandover'
  BY <1>13 DEF PointerMoved, Dispatching
<1>14. CASE Wake
  BY <1>14 DEF Wake
<1>15. CASE DrainWakeFd
  BY <1>15 DEF DrainWakeFd
<1>16. CASE TakeLockRequest
  BY <1>16 DEF TakeLockRequest, DoLock, AlreadyLocking, CannotLock,
     StartLocking, SleepReady, Lockable
<1>17. CASE PollPamResult
  BY <1>17 DEF PollPamResult, Unlock, EndLock
<1>18. CASE HandleSignal
  <2>1. UNCHANGED <<pamBusy, worker, wake, pc>>
    BY <1>18 DEF HandleSignal
  <2> QED
    BY <2>1
<1>19. CASE FinishIteration
  BY <1>19 DEF FinishIteration
<1>20. CASE RequestLock
  BY <1>20 DEF RequestLock
<1>21. CASE RequestLockWrite
  BY <1>21 DEF RequestLockWrite
<1>22. CASE PamChecked
  BY <1>22 DEF PamChecked
<1>23. CASE PamNotify
  BY <1>23 DEF PamNotify
<1>24. CASE UserSignal
  BY <1>24 DEF UserSignal, Room
<1>25. CASE LogindPrepares
  BY <1>25 DEF LogindPrepares, Room
<1>26. CASE LogindSuspends
  BY <1>26 DEF LogindSuspends
<1>27. CASE LogindResumes
  BY <1>27 DEF LogindResumes
<1>28. CASE UNCHANGED vars
  BY <1>28 DEF vars
<1> QED
  BY <1>1, <1>2, <1>3, <1>4, <1>5, <1>6, <1>7, <1>8, <1>9, <1>10, <1>11,
     <1>12, <1>13, <1>14, <1>15, <1>16, <1>17, <1>18, <1>19, <1>20, <1>21,
     <1>22, <1>23, <1>24, <1>25, <1>26, <1>27, <1>28
  DEF Next, OutputEvent, UserInput, MainLoop, OtherThreads, Logind

\* Draining the eventfd first means no request is left behind unseen.
LEMMA NoLostLockRequestStep == TypeOK /\ NoLostLockRequest /\ [Next]_vars => NoLostLockRequest'
<1> SUFFICES ASSUME TypeOK, NoLostLockRequest, [Next]_vars PROVE NoLostLockRequest'
  OBVIOUS
<1> USE DEF TypeOK, ValuesOK, lock, ui, thread, pam, logind, NoLostLockRequest
<1>1. CASE LockLocked
  BY <1>1 DEF LockLocked, Dispatching, SleepReady, EndLock, NoteStale
<1>2. CASE LockFinished
  BY <1>2 DEF LockFinished, Dispatching, SleepReady, EndLock, NoteStale
<1>3. CASE Idled
  BY <1>3 DEF Idled, Dispatching, DoLock, AlreadyLocking, CannotLock,
     StartLocking, SleepReady, Lockable
<1>4. ASSUME NEW o \in Output, OutputAnnounced(o)
      PROVE  NoLostLockRequest'
  BY <1>4 DEF OutputAnnounced, Dispatching
<1>5. ASSUME NEW o \in Output, OutputNamed(o)
      PROVE  NoLostLockRequest'
  BY <1>5 DEF OutputNamed, Dispatching
<1>6. ASSUME NEW o \in Output, OutputMarkedRemoved(o)
      PROVE  NoLostLockRequest'
  BY <1>6 DEF OutputMarkedRemoved, Dispatching
<1>7. ASSUME NEW o \in Output, OutputDestroyed(o)
      PROVE  NoLostLockRequest'
  BY <1>7 DEF OutputDestroyed, Dispatching
<1>8. ASSUME NEW o \in Output, SurfaceConfigured(o)
      PROVE  NoLostLockRequest'
  BY <1>8 DEF SurfaceConfigured, Dispatching, MayMap
<1>9. CASE KeyPressed
  BY <1>9 DEF KeyPressed, Dispatching, ShowDialog, MayMap
<1>10. CASE PointerWakesDialog
  BY <1>10 DEF PointerWakesDialog, Dispatching, ShowDialog, MayMap
<1>11. CASE PointerPressed
  BY <1>11 DEF PointerPressed, Dispatching
<1>12. CASE DialogClosed
  BY <1>12 DEF DialogClosed, Dispatching
<1>13. ASSUME NEW o \in Output \cup {None}, PointerMoved(o)
      PROVE  NoLostLockRequest'
  BY <1>13 DEF PointerMoved, Dispatching
<1>14. CASE Wake
  BY <1>14 DEF Wake
<1>15. CASE DrainWakeFd
  BY <1>15 DEF DrainWakeFd
<1>16. CASE TakeLockRequest
  BY <1>16 DEF TakeLockRequest, DoLock, AlreadyLocking, CannotLock,
     StartLocking, SleepReady, Lockable
<1>17. CASE PollPamResult
  BY <1>17 DEF PollPamResult, Unlock, EndLock
<1>18. CASE HandleSignal
  BY <1>18 DEF HandleSignal, DoLock, AlreadyLocking, CannotLock,
     StartLocking, SleepReady, Unlock, EndLock, NoteStale, Lockable
<1>19. CASE FinishIteration
  BY <1>19 DEF FinishIteration
<1>20. CASE RequestLock
  BY <1>20 DEF RequestLock
<1>21. CASE RequestLockWrite
  BY <1>21 DEF RequestLockWrite
<1>22. CASE PamChecked
  BY <1>22 DEF PamChecked
<1>23. CASE PamNotify
  BY <1>23 DEF PamNotify
<1>24. CASE UserSignal
  BY <1>24 DEF UserSignal, Room
<1>25. CASE LogindPrepares
  BY <1>25 DEF LogindPrepares, Room
<1>26. CASE LogindSuspends
  BY <1>26 DEF LogindSuspends
<1>27. CASE LogindResumes
  BY <1>27 DEF LogindResumes
<1>28. CASE UNCHANGED vars
  BY <1>28 DEF vars
<1> QED
  BY <1>1, <1>2, <1>3, <1>4, <1>5, <1>6, <1>7, <1>8, <1>9, <1>10, <1>11,
     <1>12, <1>13, <1>14, <1>15, <1>16, <1>17, <1>18, <1>19, <1>20, <1>21,
     <1>22, <1>23, <1>24, <1>25, <1>26, <1>27, <1>28
  DEF Next, OutputEvent, UserInput, MainLoop, OtherThreads, Logind

\* The loader, the surfaces, what was typed and logind's hint follow the lock
\* through every way it can begin and end (do_lock, unlock, lock_finished).
THEOREM LockLifecycleHolds == Spec => []LockLifecycle
<1>1. Init => LockLifecycle
  BY DEF Init, LockLifecycle
<1> QED
  BY <1>1, TypeCorrect, LockLifecycleStep, PTL DEF Spec

\* Every usable output has a lock surface while the session is locked or
\* about to be, for any number of outputs coming and going.
THEOREM OutputsCoveredHolds == Spec => []OutputsCovered
<1>1. Init => OutputsCovered
  BY DEF Init, OutputsCovered, Lockable
<1> QED
  BY <1>1, TypeCorrect, OutputsCoveredStep, LockLifecycleHolds, PTL DEF Spec

\* pointer_surface is never left dangling by destroy_surface.
THEOREM PointerSurfaceAliveHolds == Spec => []PointerSurfaceAlive
<1>1. Init => PointerSurfaceAlive
  BY DEF Init, PointerSurfaceAlive
<1> QED
  BY <1>1, TypeCorrect, PointerSurfaceAliveStep, PTL DEF Spec

\* logind waits for us only until the compositor has answered.
THEOREM SleepPendingHolds == Spec => []SleepPendingWhilePending
<1>1. Init => SleepPendingWhilePending
  BY DEF Init, SleepPendingWhilePending
<1> QED
  BY <1>1, TypeCorrect, SleepPendingStep, PTL DEF Spec

\* A finished PAM worker is always noticed: the eventfd is readable or the
\* main loop is on its way to poll_result.
THEOREM PamHandoverHolds == Spec => []PamHandover
<1>1. Init => PamHandover
  BY DEF Init, PamHandover
<1> QED
  BY <1>1, TypeCorrect, PamHandoverStep, PTL DEF Spec

\* A lock requested from another thread always wakes the main loop.
THEOREM NoLostLockRequestHolds == Spec => []NoLostLockRequest
<1>1. Init => NoLostLockRequest
  BY DEF Init, NoLostLockRequest
<1> QED
  BY <1>1, TypeCorrect, NoLostLockRequestStep, PTL DEF Spec

\* Only logind's Unlock, a password PAM accepted and the compositor's
\* finished take a locked session back to unlocked.
THEOREM LockedUntilUnlockHolds == Spec => LockedUntilUnlock
<1> DEFINE Allowed ==
      lockState = "locked" /\ lockState' = "unlocked" =>
        \/ LockFinished
        \/ HandleSignal /\ Head(signals) = "Unlock"
        \/ PollPamResult /\ pamOk
<1>1. ASSUME Next PROVE Allowed
  <2> USE DEF lock
  <2>1. CASE LockLocked
    BY <2>1 DEF LockLocked, Dispatching, SleepReady, EndLock, NoteStale
  <2>2. CASE LockFinished
    BY <2>2 DEF LockFinished, Dispatching, SleepReady, EndLock, NoteStale
  <2>3. CASE Idled
    BY <2>3 DEF Idled, Dispatching, DoLock, AlreadyLocking, CannotLock,
       StartLocking, SleepReady, Lockable
  <2>4. ASSUME NEW o \in Output, OutputAnnounced(o)
        PROVE  Allowed
    BY <2>4 DEF OutputAnnounced, Dispatching
  <2>5. ASSUME NEW o \in Output, OutputNamed(o)
        PROVE  Allowed
    BY <2>5 DEF OutputNamed, Dispatching
  <2>6. ASSUME NEW o \in Output, OutputMarkedRemoved(o)
        PROVE  Allowed
    BY <2>6 DEF OutputMarkedRemoved, Dispatching
  <2>7. ASSUME NEW o \in Output, OutputDestroyed(o)
        PROVE  Allowed
    BY <2>7 DEF OutputDestroyed, Dispatching
  <2>8. ASSUME NEW o \in Output, SurfaceConfigured(o)
        PROVE  Allowed
    BY <2>8 DEF SurfaceConfigured, Dispatching, MayMap
  <2>9. CASE KeyPressed
    BY <2>9 DEF KeyPressed, Dispatching, ShowDialog, MayMap
  <2>10. CASE PointerWakesDialog
    BY <2>10 DEF PointerWakesDialog, Dispatching, ShowDialog, MayMap
  <2>11. CASE PointerPressed
    BY <2>11 DEF PointerPressed, Dispatching
  <2>12. CASE DialogClosed
    BY <2>12 DEF DialogClosed, Dispatching
  <2>13. ASSUME NEW o \in Output \cup {None}, PointerMoved(o)
        PROVE  Allowed
    BY <2>13 DEF PointerMoved, Dispatching
  <2>14. CASE Wake
    BY <2>14 DEF Wake
  <2>15. CASE DrainWakeFd
    BY <2>15 DEF DrainWakeFd
  <2>16. CASE TakeLockRequest
    BY <2>16 DEF TakeLockRequest, DoLock, AlreadyLocking, CannotLock,
       StartLocking, SleepReady, Lockable
  <2>17. CASE PollPamResult
    BY <2>17 DEF PollPamResult, Unlock, EndLock
  <2>18. CASE HandleSignal
    BY <2>18 DEF HandleSignal, DoLock, AlreadyLocking, CannotLock,
       StartLocking, SleepReady, Unlock, EndLock, NoteStale, Lockable
  <2>19. CASE FinishIteration
    BY <2>19 DEF FinishIteration
  <2>20. CASE RequestLock
    BY <2>20 DEF RequestLock
  <2>21. CASE RequestLockWrite
    BY <2>21 DEF RequestLockWrite
  <2>22. CASE PamChecked
    BY <2>22 DEF PamChecked
  <2>23. CASE PamNotify
    BY <2>23 DEF PamNotify
  <2>24. CASE UserSignal
    BY <2>24 DEF UserSignal, Room
  <2>25. CASE LogindPrepares
    BY <2>25 DEF LogindPrepares, Room
  <2>26. CASE LogindSuspends
    BY <2>26 DEF LogindSuspends
  <2>27. CASE LogindResumes
    BY <2>27 DEF LogindResumes
  <2> QED
    BY <1>1, <2>1, <2>2, <2>3, <2>4, <2>5, <2>6, <2>7, <2>8, <2>9, <2>10, <2>11, <2>12, <2>13, <2>14, <2>15, <2>16, <2>17, <2>18, <2>19, <2>20, <2>21, <2>22, <2>23, <2>24, <2>25, <2>26, <2>27
       DEF Next, OutputEvent, UserInput, MainLoop, OtherThreads, Logind
<1>2. [Next]_vars => [Allowed]_vars
  BY <1>1
<1> QED
  BY <1>2, PTL DEF Spec, LockedUntilUnlock

=============================================================================
