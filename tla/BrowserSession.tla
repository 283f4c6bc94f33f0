---------------------------- MODULE BrowserSession ----------------------------
(***************************************************************************)
(* The remote browser (browser_login.rs).  One slot holds the session: an   *)
(* X server, a VNC server, Chromium and a profile directory.  A start holds *)
(* the slot's mutex through the whole launch; every other operation takes   *)
(* the session out of the slot, or looks at it, and works on without the    *)
(* mutex.  A task per session ends it when its time is over.  Processes     *)
(* hang and exit, launches fail at each stage, clients hang up, and the     *)
(* gateway restarts without running destructors.  remove_dir_all, whose     *)
(* errors the code ignores, is taken to remove the profile.                 *)
(***************************************************************************)
EXTENDS Naturals

CONSTANTS
    Handler,        \* concurrent requests of the management API
    MaxSessions     \* bound: sessions ever launched

ASSUME BoundAssumption == MaxSessions \in Nat

VARIABLES
    slot,       \* BrowserLoginManager.session, 0 when empty
    made,       \* sessions launched so far, numbered from 1
    session,    \* by number, in the slot or not
    job         \* what each request is at

vars == <<slot, made, session, job>>

Id == 1..MaxSessions
Process == {"xvfb", "x11vnc", "chromium"}

\* An account's page, or a login.
Purpose == {"account", "login"}

\* left: what became of a session that nobody holds and nobody cleaned up.
Session == [purpose: Purpose,
            proc: [Process -> {"none", "up", "hung", "exited"}],
            profile: {"none", "plain", "cookie"},
            over: BOOLEAN, timer: {"off", "armed", "kill"},
            left: {"no", "launch", "restart"}]
Nothing == [purpose |-> "login", proc |-> [p \in Process |-> "none"],
            profile |-> "none", over |-> FALSE, timer |-> "off", left |-> "no"]

\* launch_session between two awaits, and all that holds the mutex.
LaunchPC == {"display", "vnc", "cdp", "page"}
MutexPC == LaunchPC \cup {"stale", "launch"}
Job == [pc: MutexPC \cup {"idle", "start", "read", "check", "import", "finish", "kill"},
        id: 0..MaxSessions, purpose: Purpose]
Idle == [pc |-> "idle", id |-> 0, purpose |-> "login"]

\* Every variable has its type, whoever works on a session works on one there
\* is, and the sessions to come have nothing yet.
TypeOK ==
    /\ slot \in 0..made /\ made \in 0..MaxSessions
    /\ session \in [Id -> Session] /\ job \in [Handler -> Job]
    /\ \A i \in Id : i > made => session[i] = Nothing
    /\ \A h \in Handler :
        /\ job[h].id <= made
        /\ job[h].pc \notin {"idle", "start", "launch"} => job[h].id > 0

Init ==
    /\ slot = 0 /\ made = 0
    /\ session = [i \in Id |-> Nothing]
    /\ job = [h \in Handler |-> Idle]

-----------------------------------------------------------------------------
Lives(i, p) == session[i].proc[p] \in {"up", "hung"}
Running(i) == (\A p \in Process : Lives(i, p)) /\ ~session[i].over

Available == \A h \in Handler : job[h].pc \notin MutexPC

Goto(h, p) == job' = [job EXCEPT ![h].pc = p]
End(h) == job' = [job EXCEPT ![h] = Idle]

Dead(s) == [s EXCEPT !.purpose = "login", !.proc = [p \in Process |-> "none"]]
Destroyed(s) == [Dead(s) EXCEPT !.profile = "none"]

\* BrowserSession::stop, and the destructor when it is cut short.
Destroy(i) == session' = [session EXCEPT ![i] = Destroyed(@)]

\* What is dropped before it is a BrowserSession: kill_on_drop ends the
\* processes, nothing removes the profile.
Abandon(i, profile) ==
    session' = [session EXCEPT ![i] = [Dead(@) EXCEPT !.profile = profile,
                                                      !.left = "launch"]]

-----------------------------------------------------------------------------
(* start and start_go. *)

\* The proxy is read before the mutex is asked for.
Start(h, purpose) ==
    /\ job[h].pc = "idle"
    /\ job' = [job EXCEPT ![h] = [Idle EXCEPT !.pc = "start", !.purpose = purpose]]
    /\ UNCHANGED <<slot, made, session>>

\* Slip: the mutex is released for the launch.
AcquireAnyway(h) ==
    /\ job[h].pc = "start"
    /\ IF slot # 0 /\ Running(slot) THEN End(h) /\ UNCHANGED slot
       ELSE /\ slot' = 0
            /\ job' = [job EXCEPT ![h].pc = IF slot # 0 THEN "stale" ELSE "launch",
                                  ![h].id = slot]
    /\ UNCHANGED <<made, session>>

\* Slip: an empty slot is emptied, too.
AcquireUnwrapping(h) ==
    /\ job[h].pc = "start" /\ Available
    /\ IF slot # 0 /\ Running(slot) THEN End(h) /\ UNCHANGED slot
       ELSE /\ slot' = 0
            /\ job' = [job EXCEPT ![h].pc = "stale", ![h].id = slot]
    /\ UNCHANGED <<made, session>>

\* A running session refuses the start, a stale one is taken out.
Acquire(h) ==
    /\ job[h].pc = "start" /\ Available
    /\ IF slot # 0 /\ Running(slot) THEN End(h) /\ UNCHANGED slot
       ELSE /\ slot' = 0
            /\ job' = [job EXCEPT ![h].pc = IF slot # 0 THEN "stale" ELSE "launch",
                                  ![h].id = slot]
    /\ UNCHANGED <<made, session>>

StopStale(h) ==
    /\ job[h].pc = "stale"
    /\ Destroy(job[h].id)
    /\ job' = [job EXCEPT ![h].pc = "launch", ![h].id = 0]
    /\ UNCHANGED <<slot, made>>

\* No Chromium, no proxy bridge, no display, no port.
CannotLaunch(h) ==
    /\ job[h].pc = "launch"
    /\ End(h)
    /\ UNCHANGED <<slot, made, session>>

\* The profile is there before Xvfb is spawned, and stays when that fails.
SpawnXvfb(h, state) ==
    LET fresh == [Nothing EXCEPT !.purpose = job[h].purpose, !.profile = "plain",
                                 !.proc["xvfb"] = state]
    IN  /\ job[h].pc = "launch" /\ made < MaxSessions
        /\ made' = made + 1
        /\ IF state = "none"
           THEN /\ session' = [session EXCEPT ![made + 1] =
                                  [Nothing EXCEPT !.profile = "plain", !.left = "launch"]]
                /\ End(h)
           ELSE /\ session' = [session EXCEPT ![made + 1] = fresh]
                /\ job' = [job EXCEPT ![h].pc = "display", ![h].id = made + 1]
        /\ UNCHANGED slot

\* The process that a stage waits for, and the one it then spawns.
Awaited == [display |-> "xvfb", vnc |-> "x11vnc", cdp |-> "chromium"]
SpawnNext(h, state) ==
    /\ \/ job[h].pc = "display" /\ Goto(h, "vnc")
          /\ session' = [session EXCEPT ![job[h].id].proc["x11vnc"] = state]
       \/ job[h].pc = "vnc" /\ Goto(h, "cdp")
          /\ session' = [session EXCEPT ![job[h].id].proc["chromium"] = state]
    /\ session[job[h].id].proc[Awaited[job[h].pc]] = "up"
    /\ UNCHANGED <<slot, made>>

OpenPage(h) ==
    /\ job[h].pc = "cdp" /\ job[h].purpose = "account"
    /\ session[job[h].id].proc["chromium"] = "up"
    /\ Goto(h, "page")
    /\ UNCHANGED <<slot, made, session>>

\* The session is in the slot and its task is running, in one go.
Register(h) ==
    /\ \/ job[h].pc = "cdp" /\ job[h].purpose # "account"
       \/ job[h].pc = "page"
    /\ session[job[h].id].proc["chromium"] = "up"
    /\ slot' = job[h].id
    /\ session' = [session EXCEPT ![job[h].id].timer = "armed",
                      ![job[h].id].profile = IF job[h].pc = "page" THEN "cookie" ELSE @]
    /\ End(h)
    /\ UNCHANGED made

\* Slip: a launch waits for a process as long as it lives.
LaunchFailsOnExit(h) ==
    /\ job[h].pc \in LaunchPC
    /\ job[h].pc # "page" => ~Lives(job[h].id, Awaited[job[h].pc])
    /\ Destroy(job[h].id) /\ End(h)
    /\ UNCHANGED <<slot, made>>

\* A process exits or does not come up in time, the next cannot be spawned,
\* the page cannot be opened.
LaunchFails(h) ==
    /\ job[h].pc \in LaunchPC
    /\ Destroy(job[h].id) /\ End(h)
    /\ UNCHANGED <<slot, made>>

\* The page's own timeout leaves by `?`, with the Cookie written or not.
PageTimesOut(h, profile) ==
    /\ job[h].pc = "page"
    /\ Abandon(job[h].id, profile) /\ End(h)
    /\ UNCHANGED <<slot, made>>

Launch(h) ==
    \/ CannotLaunch(h) \/ OpenPage(h) \/ Register(h) \/ LaunchFails(h)
    \/ \E s \in {"none", "up", "hung"} : SpawnXvfb(h, s)
    \/ \E s \in {"up", "hung"} : SpawnNext(h, s)
    \/ \E p \in {"plain", "cookie"} : PageTimesOut(h, p)

-----------------------------------------------------------------------------
(* status, vnc, capture and stop. *)

\* The session leaves the slot, and the mutex is free, before it is ended.
Take(h, i) ==
    /\ slot = i /\ slot' = 0
    /\ job' = [job EXCEPT ![h] = [Idle EXCEPT !.pc = "kill", !.id = i]]

\* with_session on a session that has stopped running.
FindStale(h, i) ==
    /\ job[h].pc = "idle" /\ Available
    /\ Take(h, i) /\ ~Running(i)
    /\ UNCHANGED <<made, session>>

Stop(h, i) ==
    /\ job[h].pc = "idle" /\ Available
    /\ Take(h, i)
    /\ UNCHANGED <<made, session>>

Capture(h, i) ==
    /\ job[h].pc = "idle" /\ Available
    /\ slot = i /\ Running(i) /\ session[i].purpose # "account"
    /\ job' = [job EXCEPT ![h] = [Idle EXCEPT !.pc = "read", !.id = i]]
    /\ UNCHANGED <<slot, made, session>>

\* The session may be gone by now.
ReadCookie(h) ==
    /\ job[h].pc = "read"
    /\ IF session[job[h].id].proc["chromium"] = "up" THEN Goto(h, "check") ELSE End(h)
    /\ UNCHANGED <<slot, made, session>>

\* The login's proxy is as the login read it (proxy_revision): one that was
\* edited or deleted since is among the ways in which CaptureFails.
CheckProxy(h) ==
    /\ job[h].pc = "check"
    /\ Goto(h, "import")
    /\ UNCHANGED <<slot, made, session>>

\* import_cookie_record; the session ends after it alone.
Import(h) ==
    /\ job[h].pc = "import"
    /\ job' = [job EXCEPT ![h] = [Idle EXCEPT !.pc = "finish", !.id = job[h].id]]
    /\ UNCHANGED <<slot, made, session>>

CaptureFails(h) ==
    /\ job[h].pc \in {"read", "check", "import"}
    /\ End(h)
    /\ UNCHANGED <<slot, made, session>>

Finish(h) ==
    /\ job[h].pc = "finish" /\ Available
    /\ \/ Take(h, job[h].id)
       \/ slot # job[h].id /\ End(h) /\ UNCHANGED slot
    /\ UNCHANGED <<made, session>>

Kill(h) ==
    /\ job[h].pc = "kill"
    /\ Destroy(job[h].id) /\ End(h)
    /\ UNCHANGED <<slot, made>>

-----------------------------------------------------------------------------
(* The session's own task. *)

Expire(i) ==
    /\ session[i].timer = "armed" /\ ~session[i].over
    /\ session' = [session EXCEPT ![i].over = TRUE]
    /\ UNCHANGED <<slot, made, job>>

\* Slip: whatever session is in the slot is ended.
TimerStopAny(i) ==
    /\ session[i].timer = "armed" /\ session[i].over /\ Available
    /\ slot' = 0
    /\ session' = [session EXCEPT ![i].timer = IF slot # 0 THEN "kill" ELSE "off"]
    /\ UNCHANGED <<made, job>>

TimerStop(i) ==
    /\ session[i].timer = "armed" /\ session[i].over /\ Available
    /\ slot' = IF slot = i THEN 0 ELSE slot
    /\ session' = [session EXCEPT ![i].timer = IF slot = i THEN "kill" ELSE "off"]
    /\ UNCHANGED <<made, job>>

\* Slip: the session is taken and forgotten.
TimerForgets(i) ==
    /\ session[i].timer = "kill"
    /\ session' = [session EXCEPT ![i].timer = "off"]
    /\ UNCHANGED <<slot, made, job>>

TimerKill(i) ==
    /\ session[i].timer = "kill"
    /\ session' = [session EXCEPT ![i] = [Destroyed(@) EXCEPT !.timer = "off"]]
    /\ UNCHANGED <<slot, made, job>>

-----------------------------------------------------------------------------
(* The rest of the world. *)

Exit(i, p) ==
    /\ Lives(i, p)
    /\ session' = [session EXCEPT ![i].proc[p] = "exited"]
    /\ UNCHANGED <<slot, made, job>>

\* Slip: a launch that is dropped leaves its processes to themselves.
HangUpWithoutKill(h) ==
    LET i == job[h].id
    IN  /\ job[h].pc # "idle"
        /\ IF job[h].pc \in {"stale", "kill"} THEN Destroy(i) ELSE UNCHANGED session
        /\ End(h)
        /\ UNCHANGED <<slot, made>>

\* The client is gone and the server drops the handler at an await.
HangUp(h) ==
    LET i == job[h].id
    IN  /\ job[h].pc # "idle"
        /\ CASE job[h].pc \in {"stale", "kill"} -> Destroy(i)
             [] job[h].pc \in LaunchPC -> \E p \in {session[i].profile} \cup
                    (IF job[h].pc = "page" THEN {"cookie"} ELSE {}) : Abandon(i, p)
             [] OTHER -> UNCHANGED session
        /\ End(h)
        /\ UNCHANGED <<slot, made>>

\* The gateway is killed, no destructor runs and the profiles stay.  Processes
\* that outlive it are no longer the program's, and not followed any further.
Restart ==
    /\ slot' = 0
    /\ job' = [h \in Handler |-> Idle]
    /\ session' = [i \in Id |->
          [Nothing EXCEPT !.profile = session[i].profile,
                          !.left = IF session[i].left = "no" /\ session[i].profile # "none"
                                   THEN "restart" ELSE session[i].left]]
    /\ UNCHANGED made

Next ==
    \/ \E h \in Handler :
        \/ \E purpose \in Purpose : Start(h, purpose)
        \/ Acquire(h) \/ StopStale(h) \/ Launch(h)
        \/ \E i \in Id : FindStale(h, i) \/ Stop(h, i) \/ Capture(h, i)
        \/ ReadCookie(h) \/ CheckProxy(h) \/ Import(h) \/ CaptureFails(h)
        \/ Finish(h) \/ Kill(h) \/ HangUp(h)
    \/ \E i \in Id : \/ Expire(i) \/ TimerStop(i) \/ TimerKill(i)
                     \/ \E p \in Process : Exit(i, p)
    \/ Restart

Spec == Init /\ [][Next]_vars

\* Time passes, tasks run, each stage of a launch has its timeout, and the
\* mutex is handed out in the order it was asked for.
Fairness ==
    /\ \A h \in Handler : WF_vars(StopStale(h)) /\ WF_vars(Launch(h)) /\ WF_vars(Kill(h))
    /\ \A i \in Id : WF_vars(Expire(i)) /\ SF_vars(TimerStop(i)) /\ WF_vars(TimerKill(i))
FairSpec == Spec /\ Fairness

-----------------------------------------------------------------------------
(* Properties. *)

Held(i) ==
    \/ slot = i \/ session[i].timer = "kill"
    \/ \E h \in Handler : job[h].id = i /\ job[h].pc \in LaunchPC \cup {"stale", "kill"}

\* browser_login.rs:117-143, 470-600: a process of a session runs only while
\* the slot or a request or task that will end it holds the session, whichever
\* stage of a launch failed and whoever hung up.
ProcessesAreHeld ==
    \A i \in Id : (\E p \in Process : Lives(i, p)) => Held(i)

\* browser_login.rs:117-135, a profile, with the Cookies in it, outlives its
\* session only where a launch was abandoned or the gateway killed: a session
\* that was handed out takes its profile with it, however it ends.  (Of profiles
\* with an account's Cookie more is promised: AccountProfilesDestroyed.)
ProfilesAreHeld ==
    \A i \in Id : session[i].profile # "none" => Held(i) \/ session[i].left # "no"

\* README.md:159, the Cookie of an account is in the temporary profile alone,
\* and is destroyed with it on close or timeout: while the gateway runs, only a
\* session somebody still holds has one.
AccountProfilesDestroyed ==
    \A i \in Id : session[i].profile = "cookie" => Held(i) \/ session[i].left = "restart"

\* README.md:158, one remote browser at a time: of two that run, one is being
\* ended.
OneBrowser ==
    \A i, j \in Id :
        i # j /\ Lives(i, "chromium") /\ Lives(j, "chromium")
        => \E k \in {i, j} : \/ session[k].timer = "kill"
                             \/ \E h \in Handler : job[h].id = k /\ job[h].pc \in {"stale", "kill"}

\* browser_login.rs:216-220 and 275-285, a session leaves the slot because it is
\* over or broken, because a request names it, or with the gateway: never by the
\* task of a session before it.
OnlyItsOwnEnd ==
    [][\A i \in Id : slot = i /\ slot' # i =>
        \/ ~Running(i)
        \/ slot' = 0 /\ \E h \in Handler : job'[h].id = i /\ job'[h].pc = "kill"
        \/ Restart]_vars

\* browser_login.rs:676-738, whatever hangs, a launch lets go of the mutex.
LaunchesEnd == ~Available ~> Available

\* README.md:158, a session ends by itself after its time, and nothing of it is
\* left, unless the gateway is killed.
SessionsEnd ==
    \A i \in Id : slot = i ~> \/ session[i].left = "restart"
                              \/ session[i].profile = "none"
                                 /\ \A p \in Process : ~Lives(i, p)
=============================================================================
