------------------------- MODULE BrowserSession_proofs -------------------------
(***************************************************************************)
(* Proofs about BrowserSession, for any number of requests and sessions:    *)
(* nothing of a session runs or stays without an owner, one browser runs at *)
(* a time, and a session leaves the slot by its own end only.               *)
(***************************************************************************)
EXTENDS BrowserSession, TLAPS

HolderPC == LaunchPC \cup {"stale", "kill"}
Owns(q, i) == q.id = i /\ q.pc \in HolderPC

MutexOnce ==
    \A h, g \in Handler : job[h].pc \in MutexPC /\ job[g].pc \in MutexPC => h = g

\* Whoever holds the mutex beyond a step has emptied the slot.
SlotFree == \A h \in Handler : job[h].pc \in MutexPC => slot = 0

Inv == TypeOK /\ MutexOnce /\ SlotFree /\ ProcessesAreHeld /\ ProfilesAreHeld

\* A session whose processes are dead and whose profile is accounted for.
Gone(s) == /\ \A p \in Process : s.proc[p] \notin {"up", "hung"}
           /\ s.profile = "none" \/ s.left # "no"

\* The two invariants about one session.
Kept(i) == Gone(session[i]) \/ Held(i)

AllKept == \A i \in Id : Kept(i)

LEMMA KeptAll == AllKept <=> ProcessesAreHeld /\ ProfilesAreHeld
  BY DEF AllKept, Kept, Gone, ProcessesAreHeld, ProfilesAreHeld, Lives

-----------------------------------------------------------------------------
(* Types. *)

LEMMA NothingType ==
    /\ Nothing \in Session /\ Gone(Nothing)
    /\ Idle \in Job /\ Idle.pc = "idle" /\ Idle.id = 0
  BY BoundAssumption DEF Nothing, Session, Process, Purpose, Idle, Job, Gone

LEMMA DestroyedType ==
    ASSUME NEW s \in Session
    PROVE  Destroyed(s) \in Session /\ Gone(Destroyed(s))
  <1> DEFINE none == [p \in Process |-> "none"]
             d == [s EXCEPT !.purpose = "login", !.proc = none]
             e == [d EXCEPT !.profile = "none"]
  <1>1. none \in [Process -> {"none", "up", "hung", "exited"}]
        /\ \A p \in Process : none[p] = "none"
    OBVIOUS
  <1> HIDE DEF none
  <1>2. d \in Session /\ d.proc = none
    BY <1>1 DEF Session, Purpose
  <1> HIDE DEF d
  <1>3. e \in Session /\ e.proc = none /\ e.profile = "none"
    BY <1>2 DEF Session
  <1>4. Destroyed(s) = e
    BY DEF Destroyed, Dead, e, d, none
  <1> HIDE DEF e
  <1>5. QED
    BY <1>1, <1>3, <1>4 DEF Gone

LEMMA AbandonedType ==
    ASSUME NEW s \in Session, NEW profile \in {"none", "plain", "cookie"}
    PROVE  LET d == [Dead(s) EXCEPT !.profile = profile, !.left = "launch"]
           IN  d \in Session /\ Gone(d)
  <1> DEFINE none == [p \in Process |-> "none"]
             d == [s EXCEPT !.purpose = "login", !.proc = none]
             e == [d EXCEPT !.profile = profile, !.left = "launch"]
  <1>1. none \in [Process -> {"none", "up", "hung", "exited"}]
        /\ \A p \in Process : none[p] = "none"
    OBVIOUS
  <1> HIDE DEF none
  <1>2. d \in Session /\ d.proc = none
    BY <1>1 DEF Session, Purpose
  <1> HIDE DEF d
  <1>3. e \in Session /\ e.proc = none /\ e.left = "launch"
    BY <1>2 DEF Session
  <1>4. Gone(e)
    BY <1>1, <1>3 DEF Gone
  <1>5. d = Dead(s)
    BY DEF Dead, d, none
  <1>6. QED
    BY <1>3, <1>4, <1>5

LEMMA Holders ==
    /\ HolderPC = {"display", "vnc", "cdp", "page", "stale", "kill"}
    /\ MutexPC = {"display", "vnc", "cdp", "page", "stale", "launch"}
  BY DEF HolderPC, MutexPC, LaunchPC

LEMMA JobType ==
    ASSUME Inv, NEW h \in Handler
    PROVE  /\ job[h] \in Job /\ job[h].id \in 0..made /\ job[h].id \in 0..MaxSessions
           /\ job[h].pc \notin {"idle", "start", "launch"} => job[h].id \in Id
           /\ made \in 0..MaxSessions /\ slot \in 0..made
           /\ session \in [Id -> Session]
  BY BoundAssumption DEF Inv, TypeOK, Job, Id

-----------------------------------------------------------------------------
(* Steps in general. *)

\* Request h goes on as q.  It gets the mutex only when nobody has it, a session
\* gets into the slot only by who has it, and each session stays held, or is
\* cleaned up.
LEMMA RequestKeeps ==
    ASSUME Inv, NEW h \in Handler, NEW q \in Job, job' = [job EXCEPT ![h] = q],
           q.id <= made', q.pc \notin {"idle", "start", "launch"} => q.id > 0,
           made' \in 0..MaxSessions, made <= made', slot' \in 0..made',
           session' \in [Id -> Session],
           \A i \in Id : i > made' => session'[i] = Nothing,
           q.pc \in MutexPC => slot' = 0 /\ (job[h].pc \in MutexPC \/ Available),
           slot' # slot => slot' = 0 \/ job[h].pc \in MutexPC,
           \A i \in Id :
              \/ Gone(session'[i]) \/ Owns(q, i) \/ slot' = i
              \/ session'[i] = session[i] /\ slot # i /\ ~Owns(job[h], i)
    PROVE  Inv'
  <1>1. TypeOK /\ job'[h] = q /\ \A g \in Handler : g # h => job'[g] = job[g]
    BY DEF Inv, TypeOK
  <1>2. TypeOK'
    <2>1. job' \in [Handler -> Job]
      BY <1>1 DEF TypeOK
    <2>2. ASSUME NEW g \in Handler
          PROVE  /\ job'[g].id <= made'
                 /\ job'[g].pc \notin {"idle", "start", "launch"} => job'[g].id > 0
      <3>1. CASE g = h
        BY <1>1, <3>1
      <3>2. CASE g # h
        <4>1. job[g].id \in 0..made /\ made \in 0..MaxSessions
          BY JobType
        <4>2. QED
          BY <1>1, <3>2, <4>1, BoundAssumption DEF TypeOK
      <3>3. QED
        BY <3>1, <3>2
    <2>3. QED
      BY <2>1, <2>2 DEF TypeOK
  <1>3. MutexOnce'
    BY <1>1 DEF Inv, MutexOnce, Available
  <1>4. SlotFree'
    BY <1>1 DEF Inv, MutexOnce, SlotFree
  <1>5. ASSUME NEW i \in Id PROVE Kept(i)'
    <2>1. CASE Gone(session'[i])
      BY <2>1 DEF Kept, Gone
    <2>2. CASE Owns(q, i) \/ slot' = i
      BY <1>1, <2>2 DEF Kept, Held, Owns, HolderPC
    <2>3. CASE session'[i] = session[i] /\ slot # i /\ ~Owns(job[h], i)
      <3>1. Gone(session[i]) \/ Held(i)
        BY KeptAll DEF Inv, AllKept, Kept
      <3>2. Held(i) => Held(i)'
        BY <1>1, <2>3 DEF Held, Owns, HolderPC
      <3>3. QED
        BY <2>3, <3>1, <3>2 DEF Kept, Gone
    <2>4. QED
      BY <2>1, <2>2, <2>3
  <1>6. (ProcessesAreHeld /\ ProfilesAreHeld)'
    <2>1. AllKept'
      BY <1>5 DEF AllKept, Id
    <2>2. QED
      BY <2>1, KeptAll, PTL
  <1>7. QED
    BY <1>2, <1>3, <1>4, <1>6 DEF Inv

\* A request that holds nothing goes on, or ends.
LEMMA LooksOnly ==
    ASSUME Inv, NEW h \in Handler, NEW q \in Job, job' = [job EXCEPT ![h] = q],
           q.id <= made, q.pc \notin {"idle", "start", "launch"} => q.id > 0,
           UNCHANGED <<slot, made, session>>,
           job[h].pc \notin HolderPC, q.pc \notin MutexPC
    PROVE  Inv'
  <1>1. \A i \in Id : \/ slot' = i
                      \/ session'[i] = session[i] /\ slot # i /\ ~Owns(job[h], i)
    BY DEF Owns
  <1>2. /\ made' \in 0..MaxSessions /\ made <= made' /\ slot' \in 0..made'
        /\ session' \in [Id -> Session] /\ q.id <= made'
        /\ \A i \in Id : i > made' => session'[i] = Nothing
    BY JobType, BoundAssumption DEF Inv, TypeOK
  <1>3. QED
    BY <1>1, <1>2, RequestKeeps

\* A request that holds a session is done with it.
LEMMA EndsSession ==
    ASSUME Inv, NEW h \in Handler, job[h].pc \in HolderPC, NEW s \in Session, Gone(s),
           session' = [session EXCEPT ![job[h].id] = s],
           NEW q \in Job, job' = [job EXCEPT ![h] = q], q.id = 0,
           \/ q.pc = "idle"
           \/ q.pc = "launch" /\ job[h].pc \in MutexPC,
           UNCHANGED <<slot, made>>
    PROVE  Inv'
  <1>1. job[h].id \in Id /\ job[h].id <= made /\ session \in [Id -> Session]
        /\ made \in 0..MaxSessions /\ slot \in 0..made
    BY JobType, Holders
  <1>2. session' \in [Id -> Session] /\ session'[job[h].id] = s
        /\ \A i \in Id : i # job[h].id => session'[i] = session[i]
    BY <1>1
  <1>3. \A i \in Id : i > made' => session'[i] = Nothing
    BY <1>1, <1>2, BoundAssumption DEF Inv, TypeOK, Id
  <1>4. q.pc \in MutexPC => slot' = 0 /\ job[h].pc \in MutexPC
    BY Holders DEF Inv, SlotFree
  <1>5. \A i \in Id : \/ Gone(session'[i]) \/ slot' = i
                      \/ session'[i] = session[i] /\ slot # i /\ ~Owns(job[h], i)
    BY <1>2 DEF Owns
  <1>6. q.id <= made' /\ made <= made' /\ (q.pc \in {"idle", "launch"})
    BY <1>1, BoundAssumption
  <1>7. QED
    BY <1>1, <1>2, <1>3, <1>4, <1>5, <1>6, RequestKeeps

\* A request takes a session out of the slot to end it.
LEMMA TakeKeeps ==
    ASSUME Inv, NEW h \in Handler, NEW i \in Id, Take(h, i), job[h].pc \notin HolderPC,
           UNCHANGED <<made, session>>
    PROVE  Inv'
  <1> DEFINE q == [Idle EXCEPT !.pc = "kill", !.id = i]
  <1>1. /\ made \in 0..MaxSessions /\ slot \in 0..made /\ slot = i /\ slot' = 0
        /\ session \in [Id -> Session] /\ i > 0 /\ 0 \in 0..made'
    BY JobType, BoundAssumption DEF Take, Id
  <1>2. q \in Job /\ q.pc = "kill" /\ q.id = i /\ job' = [job EXCEPT ![h] = q]
    <2>1. i \in 0..MaxSessions
      BY BoundAssumption DEF Id
    <2>2. q \in Job /\ q.pc = "kill" /\ q.id = i
      BY <2>1, NothingType DEF Job
    <2>3. QED
      BY <2>2 DEF Take
  <1>3. Owns(q, i)
    BY <1>2, Holders DEF Owns
  <1>4. \A j \in Id : \/ Owns(q, j)
                      \/ session'[j] = session[j] /\ slot # j /\ ~Owns(job[h], j)
    BY <1>1, <1>3 DEF Owns
  <1>5. q.pc \notin MutexPC
    BY <1>2, Holders
  <1>6. q.id <= made' /\ q.id > 0 /\ made <= made'
    BY <1>1, <1>2, BoundAssumption
  <1>7. \A j \in Id : j > made' => session'[j] = Nothing
    BY DEF Inv, TypeOK
  <1> HIDE DEF q
  <1>8. QED
    BY <1>1, <1>2, <1>4, <1>5, <1>6, <1>7, RequestKeeps

\* A launch goes from one stage to the next, with its session.
LEMMA WorksOn ==
    ASSUME Inv, NEW h \in Handler, job[h].pc \in LaunchPC, NEW p \in LaunchPC,
           job' = [job EXCEPT ![h].pc = p], session' \in [Id -> Session],
           \A i \in Id : i # job[h].id => session'[i] = session[i],
           UNCHANGED <<slot, made>>
    PROVE  Inv'
  <1> DEFINE q == [job[h] EXCEPT !.pc = p]
  <1>1. /\ job[h] \in Job /\ job[h].id \in Id /\ job[h].id <= made
        /\ made \in 0..MaxSessions /\ slot \in 0..made
        /\ job \in [Handler -> Job]
    BY JobType, Holders DEF Inv, TypeOK, LaunchPC
  <1>2. q \in Job /\ q.pc = p /\ q.id = job[h].id /\ job' = [job EXCEPT ![h] = q]
    BY <1>1 DEF Job, MutexPC
  <1>3. \A i \in Id : i > made' => session'[i] = Nothing
    BY <1>1, BoundAssumption DEF Inv, TypeOK, Id
  <1>4. \A i \in Id : \/ Owns(q, i)
                      \/ slot' = i
                      \/ session'[i] = session[i] /\ slot # i /\ ~Owns(job[h], i)
    BY <1>2 DEF Owns, HolderPC
  <1>5. q.pc \in MutexPC /\ job[h].pc \in MutexPC /\ slot' = 0
    BY <1>2 DEF MutexPC, Inv, SlotFree
  <1>6. /\ q.id <= made' /\ q.id > 0 /\ made <= made'
        /\ slot' \in 0..made' /\ made' \in 0..MaxSessions
    BY <1>1, <1>2, BoundAssumption DEF Id
  <1> HIDE DEF q
  <1>7. QED
    BY <1>2, <1>3, <1>4, <1>5, <1>6, RequestKeeps

\* Something happens to a session, or its own task takes a step.
LEMMA SessionKeeps ==
    ASSUME Inv, NEW i \in Id, i <= made, NEW s \in Session,
           session' = [session EXCEPT ![i] = s], UNCHANGED <<made, job>>,
           \/ slot' = slot
           \/ slot' = 0 /\ slot = i /\ s.timer = "kill",
           \/ Gone(s) \/ s.timer = "kill"
           \/ (Gone(session[i]) => Gone(s)) /\ session[i].timer # "kill"
    PROVE  Inv'
  <1>1. made \in 0..MaxSessions /\ slot \in 0..made /\ session \in [Id -> Session]
        /\ MaxSessions \in Nat
    BY BoundAssumption DEF Inv, TypeOK
  <1>2. session' \in [Id -> Session] /\ session'[i] = s
        /\ \A j \in Id : j # i => session'[j] = session[j]
    BY <1>1
  <1>3. \A j \in Id : j > made' => session'[j] = Nothing
    BY <1>1, <1>2 DEF Inv, TypeOK, Id
  <1>4. TypeOK'
    <2>1. slot' \in 0..made' /\ made' \in 0..MaxSessions
      BY <1>1
    <2>2. QED
      BY <1>2, <1>3, <2>1 DEF Inv, TypeOK
  <1>5. MutexOnce' /\ SlotFree'
    BY DEF Inv, MutexOnce, SlotFree
  <1>6. ASSUME NEW j \in Id PROVE Kept(j)'
    <2>1. Gone(session[j]) \/ Held(j)
      BY KeptAll DEF Inv, AllKept, Kept
    <2>2. CASE j # i
      <3>1. Held(j) => Held(j)'
        BY <1>2, <2>2 DEF Held
      <3>2. QED
        BY <1>2, <2>1, <2>2, <3>1 DEF Kept, Gone
    <2>3. CASE j = i
      <3>1. session'[j] = s
        BY <1>2, <2>3
      <3>2. CASE Gone(s)
        BY <3>1, <3>2 DEF Kept, Gone
      <3>3. CASE s.timer = "kill"
        BY <3>1, <3>3 DEF Kept, Held
      <3>4. CASE slot' = slot /\ (Gone(session[i]) => Gone(s)) /\ session[i].timer # "kill"
        <4>1. Held(j) => Held(j)'
          BY <2>3, <3>4 DEF Held
        <4>2. QED
          BY <2>1, <2>3, <3>1, <3>2, <3>4, <4>1 DEF Kept
      <3>5. QED
        BY <3>2, <3>3, <3>4
    <2>4. QED
      BY <2>2, <2>3
  <1>7. (ProcessesAreHeld /\ ProfilesAreHeld)'
    <2>1. AllKept'
      BY <1>6 DEF AllKept, Id
    <2>2. QED
      BY <2>1, KeptAll, PTL
  <1>8. QED
    BY <1>4, <1>5, <1>7 DEF Inv

-----------------------------------------------------------------------------
(* The steps of a start. *)

LEMMA StartKeeps ==
    ASSUME Inv, NEW h \in Handler, NEW purpose \in Purpose, Start(h, purpose)
    PROVE  Inv'
  <1> DEFINE q == [Idle EXCEPT !.pc = "start", !.purpose = purpose]
  <1>1. q \in Job /\ q.pc = "start" /\ q.id = 0
    BY NothingType DEF Idle, Job
  <1>2. 0 <= made
    BY JobType
  <1>3. job' = [job EXCEPT ![h] = q] /\ UNCHANGED <<slot, made, session>> /\ job[h].pc = "idle"
    BY DEF Start
  <1> HIDE DEF q
  <1>4. QED
    BY <1>1, <1>2, <1>3, LooksOnly, Holders

\* A request that holds nothing, nor the mutex for a launch to come, ends.
LEMMA EndKeeps ==
    ASSUME Inv, NEW h \in Handler, End(h), UNCHANGED <<slot, made, session>>,
           job[h].pc \notin HolderPC
    PROVE  Inv'
  <1>1. 0 <= made
    BY JobType
  <1>2. QED
    BY <1>1, NothingType, LooksOnly, Holders DEF End

LEMMA AcquireKeeps ==
    ASSUME Inv, NEW h \in Handler, Acquire(h)
    PROVE  Inv'
  <1>1. CASE End(h) /\ UNCHANGED slot
    BY <1>1, EndKeeps, Holders DEF Acquire
  <1>2. CASE ~(End(h) /\ UNCHANGED slot)
    <2> DEFINE p == IF slot # 0 THEN "stale" ELSE "launch"
               q == [job[h] EXCEPT !.pc = p, !.id = slot]
    <2>1. /\ job[h] \in Job /\ job \in [Handler -> Job] /\ session \in [Id -> Session]
          /\ made \in 0..MaxSessions /\ slot \in 0..made /\ slot \in 0..MaxSessions
          /\ MaxSessions \in Nat
      BY JobType, BoundAssumption DEF Inv, TypeOK
    <2>2. q \in Job /\ q.pc = p /\ q.id = slot
      BY <2>1 DEF Job, MutexPC
    <2>3. /\ slot' = 0 /\ job' = [job EXCEPT ![h] = q] /\ Available
          /\ job[h].pc = "start" /\ UNCHANGED <<made, session>>
      BY <1>2, <2>1 DEF Acquire
    <2>4. \A i \in Id : \/ Owns(q, i)
                        \/ session'[i] = session[i] /\ slot # i /\ ~Owns(job[h], i)
      BY <2>2, <2>3, Holders DEF Owns, Id
    <2>5. q.pc \notin {"idle", "start", "launch"} => q.id > 0
      BY <2>1, <2>2
    <2>6. \A i \in Id : i > made' => session'[i] = Nothing
      BY <2>3 DEF Inv, TypeOK
    <2>7. q.id <= made' /\ made <= made' /\ slot' \in 0..made'
      BY <2>1, <2>2, <2>3
    <2> HIDE DEF q, p
    <2>8. QED
      BY <2>1, <2>2, <2>3, <2>4, <2>5, <2>6, <2>7, RequestKeeps
  <1>3. QED
    BY <1>1, <1>2

LEMMA StopStaleKeeps ==
    ASSUME Inv, NEW h \in Handler, StopStale(h)
    PROVE  Inv'
  <1> DEFINE q == [job[h] EXCEPT !.pc = "launch", !.id = 0]
             s == Destroyed(session[job[h].id])
  <1>1. /\ job[h] \in Job /\ job \in [Handler -> Job] /\ job[h].id \in Id
        /\ session \in [Id -> Session] /\ MaxSessions \in Nat
    BY JobType, BoundAssumption DEF Inv, TypeOK, StopStale
  <1>2. q \in Job /\ q.pc = "launch" /\ q.id = 0 /\ job' = [job EXCEPT ![h] = q]
    <2>1. job' = [job EXCEPT ![h] = q]
      BY <1>1 DEF StopStale
    <2>2. 0 \in 0..MaxSessions
      BY <1>1
    <2>3. QED
      BY <1>1, <2>1, <2>2 DEF Job, MutexPC
  <1>3. s \in Session /\ Gone(s)
    BY <1>1, DestroyedType
  <1>4. session' = [session EXCEPT ![job[h].id] = s] /\ UNCHANGED <<slot, made>>
        /\ job[h].pc = "stale"
    BY DEF StopStale, Destroy
  <1> HIDE DEF q, s
  <1>5. QED
    BY <1>2, <1>3, <1>4, EndsSession, Holders

LEMMA DestroyKeeps ==
    ASSUME Inv, NEW h \in Handler, job[h].pc \in HolderPC, Destroy(job[h].id), End(h),
           UNCHANGED <<slot, made>>
    PROVE  Inv'
  <1>1. session[job[h].id] \in Session
    BY JobType, Holders
  <1>2. QED
    BY <1>1, DestroyedType, NothingType, EndsSession DEF Destroy, End

LEMMA AbandonKeeps ==
    ASSUME Inv, NEW h \in Handler, job[h].pc \in HolderPC,
           NEW profile \in {"none", "plain", "cookie"}, Abandon(job[h].id, profile), End(h),
           UNCHANGED <<slot, made>>
    PROVE  Inv'
  <1> DEFINE s == [Dead(session[job[h].id]) EXCEPT !.profile = profile, !.left = "launch"]
  <1>1. session[job[h].id] \in Session
    BY JobType, Holders
  <1>2. s \in Session /\ Gone(s)
    BY <1>1, AbandonedType
  <1>3. session' = [session EXCEPT ![job[h].id] = s]
    BY <1>1, JobType DEF Abandon
  <1> HIDE DEF s
  <1>4. QED
    BY <1>2, <1>3, NothingType, EndsSession DEF End

LEMMA SpawnXvfbKeeps ==
    ASSUME Inv, NEW h \in Handler, NEW state \in {"none", "up", "hung"}, SpawnXvfb(h, state)
    PROVE  Inv'
  <1> DEFINE n == made + 1
  <1>1. /\ job[h] \in Job /\ job \in [Handler -> Job] /\ session \in [Id -> Session]
        /\ made \in Nat /\ MaxSessions \in Nat /\ made < MaxSessions
        /\ slot' = 0 /\ slot = 0 /\ made' = n /\ job[h].pc = "launch"
    BY JobType, BoundAssumption, Holders DEF Inv, TypeOK, SlotFree, SpawnXvfb
  <1>2. n \in Id /\ n \in 0..MaxSessions /\ made' \in 0..MaxSessions /\ made <= made'
        /\ slot' \in 0..made' /\ n > 0 /\ 0 <= made' /\ n <= made'
    BY <1>1 DEF Id
  <1>3. \A i \in Id : i > made' => session[i] = Nothing /\ i # n
    BY <1>1 DEF Inv, TypeOK, Id
  <1>4. \A i \in Id : slot # i /\ ~Owns(job[h], i)
    BY <1>1, Holders DEF Id, Owns
  <1>5. CASE state = "none"
    <2> DEFINE s == [Nothing EXCEPT !.profile = "plain", !.left = "launch"]
    <2>1. s \in Session /\ Gone(s)
      BY NothingType DEF Session, Gone
    <2>2. session' = [session EXCEPT ![n] = s] /\ job' = [job EXCEPT ![h] = Idle]
      BY <1>5 DEF SpawnXvfb, End
    <2> HIDE DEF s, n
    <2>3. session' \in [Id -> Session] /\ session'[n] = s
          /\ \A i \in Id : i # n => session'[i] = session[i]
      BY <1>1, <1>2, <2>1, <2>2
    <2>4. \A i \in Id : \/ Gone(session'[i])
                        \/ session'[i] = session[i] /\ slot # i /\ ~Owns(job[h], i)
      BY <1>4, <2>1, <2>3
    <2>5. \A i \in Id : i > made' => session'[i] = Nothing
      BY <1>3, <2>3
    <2>6. QED
      BY <1>1, <1>2, <2>2, <2>3, <2>4, <2>5, NothingType, Holders, RequestKeeps
  <1>6. CASE state # "none"
    <2> DEFINE s == [Nothing EXCEPT !.purpose = job[h].purpose, !.profile = "plain",
                                    !.proc["xvfb"] = state]
               q == [job[h] EXCEPT !.pc = "display", !.id = n]
    <2>1. s \in Session
      <3> DEFINE f == [Nothing.proc EXCEPT !["xvfb"] = state]
      <3>1. f \in [Process -> {"none", "up", "hung", "exited"}]
        BY NothingType DEF Session
      <3>2. s = [Nothing EXCEPT !.purpose = job[h].purpose, !.profile = "plain", !.proc = f]
        OBVIOUS
      <3> HIDE DEF f
      <3>3. job[h].purpose \in Purpose
        BY <1>1 DEF Job
      <3>4. QED
        BY <3>1, <3>2, <3>3, NothingType DEF Session
    <2>2. q \in Job /\ q.pc = "display" /\ q.id = n
      BY <1>1, <1>2 DEF Job, MutexPC, LaunchPC
    <2>3. session' = [session EXCEPT ![n] = s] /\ job' = [job EXCEPT ![h] = q]
      BY <1>1, <1>6 DEF SpawnXvfb
    <2> HIDE DEF s, n, q
    <2>4. session' \in [Id -> Session] /\ session'[n] = s
          /\ \A i \in Id : i # n => session'[i] = session[i]
      BY <1>1, <1>2, <2>1, <2>3
    <2>5. \A i \in Id : \/ Owns(q, i)
                        \/ session'[i] = session[i] /\ slot # i /\ ~Owns(job[h], i)
      BY <1>4, <2>2, <2>4, Holders DEF Owns
    <2>6. \A i \in Id : i > made' => session'[i] = Nothing
      BY <1>3, <2>4
    <2>7. q.pc \in MutexPC /\ job[h].pc \in MutexPC /\ slot' = 0 /\ slot' = slot
      BY <1>1, <2>2, Holders
    <2>8. q.id <= made' /\ q.id > 0
      BY <1>2, <2>2
    <2>9. QED
      <3>1. session' \in [Id -> Session]
        BY <2>4
      <3>2. job' = [job EXCEPT ![h] = q]
        BY <2>3
      <3>3. \A i \in Id : \/ Gone(session'[i]) \/ Owns(q, i) \/ slot' = i
                          \/ session'[i] = session[i] /\ slot # i /\ ~Owns(job[h], i)
        BY <2>5
      <3>4. QED
        BY <1>2, <2>2, <2>6, <2>7, <2>8, <3>1, <3>2, <3>3, RequestKeeps
  <1>7. QED
    BY <1>5, <1>6

LEMMA SpawnNextKeeps ==
    ASSUME Inv, NEW h \in Handler, NEW state \in {"up", "hung"}, SpawnNext(h, state)
    PROVE  Inv'
  <1>1. /\ session \in [Id -> Session] /\ UNCHANGED <<slot, made>>
        /\ job[h].pc \in {"display", "vnc"} /\ job[h].id \in Id
    BY JobType DEF SpawnNext
  <1>2. PICK p \in {"x11vnc", "chromium"}, next \in {"vnc", "cdp"} :
           /\ job' = [job EXCEPT ![h].pc = next]
           /\ session' = [session EXCEPT ![job[h].id].proc[p] = state]
    BY DEF SpawnNext, Goto
  <1>3. session' \in [Id -> Session] /\ \A i \in Id : i # job[h].id => session'[i] = session[i]
    <2> DEFINE old == session[job[h].id]
               f == [old.proc EXCEPT ![p] = state]
               s == [old EXCEPT !.proc = f]
    <2>1. f \in [Process -> {"none", "up", "hung", "exited"}]
      BY <1>1 DEF Session
    <2>2. session' = [session EXCEPT ![job[h].id] = s]
      BY <1>1, <1>2
    <2> HIDE DEF f
    <2>3. s \in Session
      BY <1>1, <2>1 DEF Session
    <2> HIDE DEF s
    <2>4. QED
      BY <1>1, <2>2, <2>3
  <1>4. QED
    BY <1>1, <1>2, <1>3, WorksOn DEF LaunchPC

LEMMA OpenPageKeeps ==
    ASSUME Inv, NEW h \in Handler, OpenPage(h)
    PROVE  Inv'
  BY JobType, WorksOn DEF OpenPage, Goto, LaunchPC

LEMMA RegisterKeeps ==
    ASSUME Inv, NEW h \in Handler, Register(h)
    PROVE  Inv'
  <1> DEFINE i == job[h].id
             x == IF job[h].pc = "page" THEN "cookie" ELSE session[i].profile
             s == [session[i] EXCEPT !.timer = "armed", !.profile = x]
  <1>1. /\ i \in Id /\ i \in 0..made /\ session \in [Id -> Session] /\ made \in 0..MaxSessions
        /\ job[h].pc \in {"cdp", "page"} /\ slot' = i /\ made' = made
        /\ job' = [job EXCEPT ![h] = Idle] /\ MaxSessions \in Nat
    BY JobType, BoundAssumption DEF Register, End
  <1>2. s \in Session
    <2>1. session[i] \in Session /\ x \in {"none", "plain", "cookie"}
      BY <1>1 DEF Session
    <2> HIDE DEF x
    <2>2. QED
      BY <2>1 DEF Session
  <1>3. session' = [session EXCEPT ![i] = s]
    BY <1>1 DEF Register
  <1>4. slot = 0 /\ job[h].pc \in MutexPC
    BY <1>1, Holders DEF Inv, SlotFree
  <1> HIDE DEF s
  <1>5. session' \in [Id -> Session] /\ \A j \in Id : j # i => session'[j] = session[j]
    BY <1>1, <1>2, <1>3
  <1>6. \A j \in Id : \/ slot' = j
                      \/ session'[j] = session[j] /\ slot # j /\ ~Owns(job[h], j)
    BY <1>1, <1>4, <1>5 DEF Owns, Id
  <1>7. \A j \in Id : j > made' => session'[j] = Nothing
    BY <1>1, <1>5 DEF Inv, TypeOK, Id
  <1>8. 0 <= made' /\ made <= made' /\ slot' \in 0..made' /\ made' \in 0..MaxSessions
    BY <1>1
  <1>9. QED
    BY <1>1, <1>4, <1>5, <1>6, <1>7, <1>8, NothingType, Holders, RequestKeeps

LEMMA LaunchKeeps ==
    ASSUME Inv, NEW h \in Handler, Launch(h)
    PROVE  Inv'
  <1>1. CASE CannotLaunch(h)
    BY <1>1, EndKeeps, Holders DEF CannotLaunch
  <1>2. CASE LaunchFails(h)
    BY <1>2, DestroyKeeps DEF LaunchFails, HolderPC
  <1>3. CASE \E p \in {"plain", "cookie"} : PageTimesOut(h, p)
    BY <1>3, AbandonKeeps, Holders DEF PageTimesOut
  <1>4. QED
    BY <1>1, <1>2, <1>3, OpenPageKeeps, RegisterKeeps, SpawnXvfbKeeps, SpawnNextKeeps DEF Launch

-----------------------------------------------------------------------------
(* The other requests. *)

LEMMA CaptureKeeps ==
    ASSUME Inv, NEW h \in Handler,
           \/ \E i \in Id : Capture(h, i)
           \/ ReadCookie(h) \/ CheckProxy(h) \/ Import(h) \/ CaptureFails(h)
    PROVE  Inv'
  <1>1. /\ job[h] \in Job /\ job \in [Handler -> Job] /\ job[h].id \in 0..made
        /\ made \in 0..MaxSessions /\ slot \in 0..made /\ session \in [Id -> Session]
        /\ MaxSessions \in Nat
        /\ job[h].pc \notin {"idle", "start", "launch"} => job[h].id > 0
    BY JobType, BoundAssumption DEF Inv, TypeOK, Id
  <1>2. UNCHANGED <<slot, made, session>> /\ job[h].pc \notin HolderPC
    BY Holders DEF Capture, ReadCookie, CheckProxy, Import, CaptureFails
  <1>3. CASE \E i \in Id : Capture(h, i)
    <2>1. PICK i \in Id : Capture(h, i)
      BY <1>3
    <2> DEFINE q == [Idle EXCEPT !.pc = "read", !.id = i]
    <2>2. q \in Job /\ q.pc = "read" /\ q.id = i
      <3>1. i \in 0..MaxSessions
        BY <1>1 DEF Id
      <3>2. Idle \in Job
        BY NothingType
      <3>3. QED
        BY <3>1, <3>2 DEF Job, Idle
    <2>3. job' = [job EXCEPT ![h] = q]
      BY <2>1 DEF Capture
    <2> HIDE DEF q
    <2>4. i = slot /\ i > 0
      <3>1. i = slot
        BY <2>1 DEF Capture
      <3>2. i > 0
        BY BoundAssumption DEF Id
      <3>3. QED
        BY <3>1, <3>2
    <2>5. q.id > 0 /\ q.id <= made
      BY <1>1, <2>2, <2>4
    <2>6. QED
      BY <1>2, <2>2, <2>3, <2>5, LooksOnly, Holders
  <1>4. CASE End(h)
    BY <1>2, <1>4, EndKeeps
  <1>5. CASE (\E p \in {"check", "import"} : Goto(h, p)) /\ job[h].pc \in {"read", "check"}
    <2>1. PICK p \in {"check", "import"} : Goto(h, p)
      BY <1>5
    <2> DEFINE q == [job[h] EXCEPT !.pc = p]
    <2>2. q \in Job /\ q.pc = p /\ q.id = job[h].id /\ job' = [job EXCEPT ![h] = q]
      BY <1>1, <2>1 DEF Job, Goto
    <2>3. q.id > 0 /\ q.id <= made
      BY <1>1, <1>5, <2>2
    <2> HIDE DEF q
    <2>4. QED
      BY <1>2, <2>2, <2>3, LooksOnly, Holders
  <1>6. CASE Import(h)
    <2> DEFINE q == [Idle EXCEPT !.pc = "finish", !.id = job[h].id]
    <2>1. q \in Job /\ q.pc = "finish" /\ q.id = job[h].id /\ job' = [job EXCEPT ![h] = q]
      BY <1>1, <1>6, NothingType DEF Job, Idle, Import
    <2>2. q.id > 0 /\ q.id <= made
      BY <1>1, <1>6, <2>1 DEF Import
    <2> HIDE DEF q
    <2>3. QED
      BY <1>2, <2>1, <2>2, LooksOnly, Holders
  <1>7. QED
    BY <1>3, <1>4, <1>5, <1>6 DEF ReadCookie, CheckProxy, CaptureFails

LEMMA EndingKeeps ==
    ASSUME Inv, NEW h \in Handler,
           \/ \E i \in Id : FindStale(h, i) \/ Stop(h, i)
           \/ Finish(h) \/ Kill(h)
    PROVE  Inv'
  <1>1. CASE \E i \in Id : FindStale(h, i) \/ Stop(h, i)
    BY <1>1, TakeKeeps, Holders DEF FindStale, Stop
  <1>2. CASE Finish(h)
    <2>1. job[h].id \in Id
      BY <1>2, JobType DEF Finish
    <2>2. QED
      BY <1>2, <2>1, TakeKeeps, EndKeeps, Holders DEF Finish
  <1>3. CASE Kill(h)
    BY <1>3, DestroyKeeps, Holders DEF Kill
  <1>4. QED
    BY <1>1, <1>2, <1>3

LEMMA HangUpKeeps ==
    ASSUME Inv, NEW h \in Handler, HangUp(h)
    PROVE  Inv'
  <1>1. End(h) /\ UNCHANGED <<slot, made>>
    BY DEF HangUp
  <1>2. CASE job[h].pc \in {"stale", "kill"}
    <2>1. Destroy(job[h].id)
      BY <1>2 DEF HangUp, LaunchPC
    <2>2. QED
      BY <1>1, <1>2, <2>1, DestroyKeeps, Holders
  <1>3. CASE job[h].pc \in LaunchPC
    <2>1. session[job[h].id].profile \in {"none", "plain", "cookie"}
      BY <1>3, JobType, Holders DEF Session, LaunchPC
    <2>2. \E p \in {"none", "plain", "cookie"} : Abandon(job[h].id, p)
      BY <1>3, <2>1 DEF HangUp, LaunchPC
    <2>3. QED
      BY <1>1, <1>3, <2>2, AbandonKeeps, Holders DEF LaunchPC
  <1>4. CASE job[h].pc \notin HolderPC
    <2>1. UNCHANGED session
      BY <1>4 DEF HangUp, HolderPC
    <2>2. QED
      BY <1>1, <1>4, <2>1, EndKeeps
  <1>5. QED
    BY <1>2, <1>3, <1>4 DEF HolderPC

-----------------------------------------------------------------------------
(* The sessions' tasks and the rest of the world. *)

\* Only a session that was made can change.
LEMMA MadeOnly ==
    ASSUME Inv, NEW i \in Id, session[i] # Nothing
    PROVE  i <= made
  BY BoundAssumption DEF Inv, TypeOK, Id

LEMMA NothingIs ==
    /\ Nothing.timer = "off" /\ Nothing.purpose = "login"
    /\ Nothing.profile = "none" /\ Nothing.left = "no"
    /\ \A p \in Process : Nothing.proc[p] = "none"
  BY DEF Nothing

LEMMA TaskKeeps ==
    ASSUME Inv, NEW i \in Id, Expire(i) \/ TimerStop(i) \/ TimerKill(i)
    PROVE  Inv'
  <1>1. session \in [Id -> Session] /\ session[i] \in Session
    BY JobType DEF Inv, TypeOK
  <1>2. i <= made
    BY NothingIs, MadeOnly DEF Expire, TimerStop, TimerKill
  <1>3. CASE Expire(i)
    <2> DEFINE s == [session[i] EXCEPT !.over = TRUE]
    <2>1. s \in Session /\ (Gone(session[i]) => Gone(s)) /\ session' = [session EXCEPT ![i] = s]
      BY <1>1, <1>3 DEF Session, Gone, Expire
    <2>2. session[i].timer # "kill" /\ UNCHANGED <<slot, made, job>>
      BY <1>3 DEF Expire
    <2> HIDE DEF s
    <2>3. QED
      BY <1>2, <2>1, <2>2, SessionKeeps
  <1>4. CASE TimerStop(i)
    <2> DEFINE t == IF slot = i THEN "kill" ELSE "off"
               s == [session[i] EXCEPT !.timer = t]
    <2>1. s \in Session /\ s.timer = t /\ (Gone(session[i]) => Gone(s))
      BY <1>1 DEF Session, Gone
    <2>2. /\ session' = [session EXCEPT ![i] = s] /\ UNCHANGED <<made, job>>
          /\ session[i].timer # "kill" /\ slot' = IF slot = i THEN 0 ELSE slot
      BY <1>1, <1>4 DEF TimerStop
    <2> HIDE DEF s
    <2>3. QED
      BY <1>2, <2>1, <2>2, SessionKeeps
  <1>5. CASE TimerKill(i)
    <2> DEFINE d == Destroyed(session[i])
               s == [d EXCEPT !.timer = "off"]
    <2>1. d \in Session /\ Gone(d)
      BY <1>1, DestroyedType
    <2>2. session' = [session EXCEPT ![i] = s] /\ UNCHANGED <<slot, made, job>>
      BY <1>5 DEF TimerKill
    <2> HIDE DEF d
    <2>3. s \in Session /\ Gone(s)
      BY <2>1 DEF Session, Gone
    <2> HIDE DEF s
    <2>4. QED
      BY <1>2, <2>2, <2>3, SessionKeeps
  <1>6. QED
    BY <1>3, <1>4, <1>5

LEMMA ExitKeeps ==
    ASSUME Inv, NEW i \in Id, NEW p \in Process, Exit(i, p)
    PROVE  Inv'
  <1> DEFINE f == [session[i].proc EXCEPT ![p] = "exited"]
             s == [session[i] EXCEPT !.proc = f]
  <1>1. session \in [Id -> Session] /\ session[i] \in Session
        /\ session[i].proc \in [Process -> {"none", "up", "hung", "exited"}]
    BY JobType DEF Inv, TypeOK, Session
  <1>2. i <= made
    BY NothingIs, MadeOnly DEF Exit, Lives
  <1>3. f \in [Process -> {"none", "up", "hung", "exited"}]
        /\ \A o \in Process : f[o] = "exited" \/ f[o] = session[i].proc[o]
    BY <1>1
  <1>4. session' = [session EXCEPT ![i] = s] /\ UNCHANGED <<slot, made, job>>
    BY <1>1 DEF Exit
  <1> HIDE DEF f
  <1>5. /\ s \in Session /\ s.timer = session[i].timer
        /\ s.proc = f /\ s.profile = session[i].profile /\ s.left = session[i].left
    BY <1>1, <1>3 DEF Session
  <1> HIDE DEF s
  <1>6. Gone(session[i]) => Gone(s)
    BY <1>3, <1>5 DEF Gone
  <1>7. QED
    BY <1>2, <1>4, <1>5, <1>6, SessionKeeps

LEMMA RestartKeeps ==
    ASSUME Inv, Restart
    PROVE  Inv'
  <1> DEFINE l(i) == IF session[i].left = "no" /\ session[i].profile # "none"
                     THEN "restart" ELSE session[i].left
             s(i) == [Nothing EXCEPT !.profile = session[i].profile, !.left = l(i)]
  <1>1. TypeOK /\ 0 \in 0..made
    BY JobType, BoundAssumption DEF Inv, TypeOK
  <1>2. ASSUME NEW i \in Id
        PROVE  s(i) \in Session /\ Gone(s(i)) /\ (session[i] = Nothing => s(i) = Nothing)
    <2>1. /\ session[i].profile \in {"none", "plain", "cookie"}
          /\ session[i].left \in {"no", "launch", "restart"}
      BY <1>1 DEF TypeOK, Session
    <2>2. l(i) \in {"no", "launch", "restart"} /\ (l(i) = "no" => session[i].profile = "none")
      BY <2>1
    <2>3. s(i) \in Session /\ Gone(s(i))
      BY <2>1, <2>2, NothingType, NothingIs DEF Session, Gone
    <2>4. session[i] = Nothing => s(i) = Nothing
      BY NothingType, NothingIs DEF Session
    <2>5. QED
      BY <2>3, <2>4
  <1>3. session' = [i \in Id |-> s(i)] /\ slot' = 0 /\ made' = made
        /\ job' = [h \in Handler |-> Idle]
    BY DEF Restart
  <1> HIDE DEF s, l
  <1>4. session' \in [Id -> Session] /\ \A i \in Id : Gone(session'[i])
    BY <1>2, <1>3
  <1>5. TypeOK'
    <2>1. job' \in [Handler -> Job] /\ \A h \in Handler : job'[h] = Idle
      BY <1>3, NothingType
    <2>2. \A i \in Id : i > made' => session'[i] = Nothing
      BY <1>1, <1>2, <1>3 DEF TypeOK
    <2>3. slot' \in 0..made' /\ made' \in 0..MaxSessions /\ 0 <= made'
      BY <1>1, <1>3 DEF TypeOK
    <2>4. QED
      BY <1>4, <2>1, <2>2, <2>3, NothingType DEF TypeOK
  <1>6. MutexOnce' /\ SlotFree'
    BY <1>3, NothingType, Holders DEF MutexOnce, SlotFree
  <1>7. AllKept'
    <2>1. ASSUME NEW i \in Id PROVE Kept(i)'
      BY <1>4 DEF Kept, Gone
    <2>2. QED
      BY <2>1 DEF AllKept, Id
  <1>8. (ProcessesAreHeld /\ ProfilesAreHeld)'
    BY <1>7, KeptAll, PTL
  <1>9. QED
    BY <1>5, <1>6, <1>8 DEF Inv

-----------------------------------------------------------------------------
(* The theorems. *)

LEMMA StepKeeps == Inv /\ [Next]_vars => Inv'
  <1> SUFFICES ASSUME Inv, [Next]_vars PROVE Inv'
    OBVIOUS
  <1>1. CASE UNCHANGED vars
    <2>1. UNCHANGED <<slot, made, session, job>>
      BY <1>1 DEF vars
    <2>2. TypeOK' /\ MutexOnce' /\ SlotFree'
      BY <2>1 DEF Inv, TypeOK, MutexOnce, SlotFree
    <2>3. ProcessesAreHeld' /\ ProfilesAreHeld'
      BY <2>1 DEF Inv, ProcessesAreHeld, ProfilesAreHeld, Lives, Held
    <2>4. QED
      BY <2>2, <2>3 DEF Inv
  <1>2. CASE Next
    BY <1>2, StartKeeps, AcquireKeeps, StopStaleKeeps, LaunchKeeps, CaptureKeeps, EndingKeeps,
       HangUpKeeps, TaskKeeps, ExitKeeps, RestartKeeps DEF Next
  <1>3. QED
    BY <1>1, <1>2

\* The inductive invariant: the mutex is held once, who holds it has emptied the
\* slot, and every session is held or cleaned up (browser_login.rs).
THEOREM BrowserInvariant == Spec => []Inv
  <1>1. Init => Inv
    <2> SUFFICES ASSUME Init PROVE Inv
      OBVIOUS
    <2>1. TypeOK
      BY NothingType, BoundAssumption DEF Init, TypeOK
    <2>2. MutexOnce /\ SlotFree
      BY NothingType, Holders DEF Init, MutexOnce, SlotFree
    <2>3. \A i \in Id : Kept(i)
      BY NothingType DEF Init, Kept
    <2>4. QED
      BY <2>1, <2>2, <2>3, KeptAll DEF Inv, AllKept
  <1>2. QED
    BY <1>1, StepKeeps, PTL DEF Spec

\* Types, and that whoever works on a session works on one there is.
THEOREM BrowserTypes == Spec => []TypeOK
  <1>1. Inv => TypeOK
    BY DEF Inv
  <1>2. QED
    BY <1>1, BrowserInvariant, PTL

\* Neither a process nor a profile is left without someone who will end it
\* (launch_session, BrowserSession::stop and its destructor).
THEOREM NothingIsForgotten == Spec => [](ProcessesAreHeld /\ ProfilesAreHeld)
  <1>1. Inv => ProcessesAreHeld /\ ProfilesAreHeld
    BY DEF Inv
  <1>2. QED
    BY <1>1, BrowserInvariant, PTL

\* One remote browser at a time (start_session).
THEOREM BrowsersAreOne == Spec => []OneBrowser
  <1>1. Inv => OneBrowser
    <2> SUFFICES ASSUME Inv, NEW i \in Id, NEW j \in Id, i # j,
                        Lives(i, "chromium"), Lives(j, "chromium"),
                        \A k \in {i, j} :
                           /\ session[k].timer # "kill"
                           /\ \A h \in Handler :
                                 ~(job[h].id = k /\ job[h].pc \in {"stale", "kill"})
                 PROVE  FALSE
      BY DEF OneBrowser
    <2>1. ASSUME NEW k \in {i, j}
          PROVE  slot = k \/ \E h \in Handler : job[h].id = k /\ job[h].pc \in LaunchPC
      BY DEF Inv, ProcessesAreHeld, Held, Process
    <2>2. i # 0 /\ j # 0
      BY BoundAssumption DEF Id
    <2>3. QED
      BY <2>1, <2>2 DEF Inv, MutexOnce, SlotFree, MutexPC
  <1>2. QED
    BY <1>1, BrowserInvariant, PTL

\* A session leaves the slot by its own end only (start_session's task, stop).
THEOREM SlotLeftRightly == Spec => OnlyItsOwnEnd
  <1> DEFINE Rightly(i) ==
        \/ ~Running(i)
        \/ slot' = 0 /\ \E h \in Handler : job'[h].id = i /\ job'[h].pc = "kill"
        \/ Restart
  <1>1. ASSUME Inv, Next, NEW i \in Id, slot = i, slot' # i
        PROVE  Rightly(i)
    <2>1. job \in [Handler -> Job] /\ i # 0
      BY <1>1, BoundAssumption DEF Inv, TypeOK, Id
    <2>2. ASSUME NEW h \in Handler, NEW k \in Id, Take(h, k) PROVE Rightly(i)
      BY <1>1, <2>1, <2>2 DEF Take, Idle
    <2>3. ASSUME NEW h \in Handler, Acquire(h) PROVE Rightly(i)
      BY <1>1, <2>3 DEF Acquire
    <2>4. ASSUME NEW h \in Handler, Launch(h) PROVE FALSE
      <3>1. job[h].pc \notin MutexPC
        BY <1>1, <2>1 DEF Inv, SlotFree
      <3>2. QED
        BY <1>1, <2>4, <3>1, Holders
           DEF Launch, CannotLaunch, OpenPage, Register, LaunchFails, SpawnXvfb, SpawnNext,
               PageTimesOut, LaunchPC
    <2>5. ASSUME NEW k \in Id, TimerStop(k) PROVE Rightly(i)
      BY <1>1, <2>5 DEF TimerStop, Running
    <2>6. ASSUME Restart PROVE Rightly(i)
      BY <2>6
    <2>7. ASSUME NEW h \in Handler, Finish(h) PROVE Rightly(i)
      <3>1. job[h].id \in Id
        BY <1>1, <2>7, JobType DEF Finish
      <3>2. QED
        BY <1>1, <2>2, <2>7, <3>1 DEF Finish
    <2>8. CASE \E h \in Handler : \E k \in Id : FindStale(h, k) \/ Stop(h, k)
      BY <2>2, <2>8 DEF FindStale, Stop
    <2>9. CASE UNCHANGED slot
      BY <1>1, <2>9
    <2> HIDE DEF Rightly
    <2>10. QED
      BY <1>1, <2>3, <2>4, <2>5, <2>6, <2>7, <2>8, <2>9
         DEF Next, Start, StopStale, Capture, ReadCookie, CheckProxy, Import, CaptureFails,
             Kill, HangUp, Expire, TimerKill, Exit
  <1>2. Inv /\ [Next]_vars =>
           [\A i \in Id : slot = i /\ slot' # i => Rightly(i)]_vars
    BY <1>1
  <1>3. QED
    BY <1>2, BrowserInvariant, PTL DEF Spec, OnlyItsOwnEnd
=============================================================================
