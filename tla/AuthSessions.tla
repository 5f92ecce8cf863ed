---------------------------- MODULE AuthSessions ----------------------------
(***************************************************************************)
(* The logins of the running service: AuthSessionStore, LoginRateLimiter,  *)
(* the auth middleware, the login and logout routes, and the loop that     *)
(* sweeps out expired sessions.  All of it is in the memory of one         *)
(* process.                                                                *)
(*                                                                         *)
(* Two kinds of steps interleave.  Login and logout run in the thread      *)
(* pool, any number of them at once, without a lock.  The middleware and   *)
(* the sweep run in the event loop: they contain no await until they have  *)
(* archived what expired, so one runs to that point before another starts. *)
(*                                                                         *)
(* Abstractions.  A session is named by the client whose login created it. *)
(* One address is modelled: the limiter keeps nothing that is common to    *)
(* two.  A time is a tick of the clock, and the archive is whether an      *)
(* append returns or raises.                                               *)
(***************************************************************************)
EXTENDS Naturals, Sequences, FiniteSets

CONSTANTS
    Clients,        \* each logs in until it succeeds, then has a token
    Credentials,    \* username and password, with the hash that fits them
    Ttl,            \* auth_session_ttl_hours
    MaxFailures, Window, LockFor,    \* max_failures, window_seconds, lock_seconds
    MaxTime,        \* bound: where the clock stops
    MayRaise,       \* whether an archive append may raise
    Nothing, Disabled, Down

ASSUME TimesAssumption ==
    {Ttl, MaxFailures, Window, LockFor} \subseteq Nat \ {0} /\ Window <= LockFor /\ MaxTime \in Nat
ASSUME MayRaiseAssumption == MayRaise \in BOOLEAN
ASSUME ValuesAssumption ==
    /\ Cardinality({Nothing, Disabled, Down}) = 3
    /\ {Nothing, Disabled, Down} \cap (Credentials \cup Nat \cup Clients) = {}

VARIABLES
    now,
    active,      \* what the process loaded when it started; Down while none runs
    sessions,    \* AuthSessionStore._sessions: when the session of a client expires
    expired,     \* AuthSessionStore._expired
    cleaning,    \* the cleanup task is alive
    loop,        \* what the event loop is doing
    login,       \* where the login of each client is
    logout,      \* and its logout
    failures, lockedUntil,   \* LoginRateLimiter, for the one address
    recorded,    \* history: how many auth.session_expired events each session has
    seen,        \* history: when the session was created or last let a request through
    wrong,       \* history: when wrong passwords were given, since the last right one
    raised       \* history: an append has raised in this process

limiter == <<failures, lockedUntil, wrong>>
store == <<sessions, expired, seen>>
vars == <<now, active, store, cleaning, loop, login, logout, limiter, recorded, raised>>

Maybe(S) == S \cup {Nothing}
Idle == [at |-> "idle", client |-> Nothing, until |-> Nothing, left |-> {}, batch |-> {}]
NoLogin == [at |-> "idle", time |-> 0]

\* Logins that overlap are not in the order the history has them in: it ends then.
Mixed == <<Nothing>>

Init ==
    /\ now = 0 /\ active = Down
    /\ sessions = [c \in Clients |-> Nothing] /\ expired = {}
    /\ seen = [c \in Clients |-> 0]
    /\ cleaning = TRUE /\ loop = Idle
    /\ login = [c \in Clients |-> NoLogin]
    /\ logout = [c \in Clients |-> "idle"]
    /\ failures = <<>> /\ lockedUntil = Nothing /\ wrong = <<>>
    /\ recorded = [c \in Clients |-> 0] /\ raised = FALSE

Serves == active \in Credentials
At(c, l) == login' = [login EXCEPT ![c].at = l]

\* An append of the archive: it returns, or it raises.
Appended(ok) == (ok \/ MayRaise) /\ raised' = (raised \/ ~ok)

-----------------------------------------------------------------------------
(* The route of logins, with LoginRateLimiter, in the thread pool. *)

InFlight(c) == login[c].at \notin {"idle", "in", "lost"}

ReceiveLogin(c) ==
    /\ active # Down /\ login[c].at = "idle"
    /\ At(c, IF Serves THEN "limit" ELSE "create")
    /\ wrong' = IF \E d \in Clients : InFlight(d) THEN Mixed ELSE wrong
    /\ UNCHANGED <<now, active, store, cleaning, loop, logout, failures, lockedUntil, recorded, raised>>

Locked == lockedUntil # Nothing /\ lockedUntil > now

\* is_limited: the lock is read, and removed in a later step when it is over.
IsLimited(c) ==
    /\ login[c].at = "limit"
    /\ At(c, CASE lockedUntil = Nothing -> "verify" [] Locked -> "refuse" [] OTHER -> "unlock")
    /\ UNCHANGED <<now, active, store, cleaning, loop, logout, limiter, recorded, raised>>

Unlock(c) ==
    /\ login[c].at = "unlock"
    /\ lockedUntil' = Nothing /\ failures' = <<>>
    /\ At(c, "verify")
    /\ UNCHANGED <<now, active, store, cleaning, loop, logout, wrong, recorded, raised>>

\* The username and the password fit what is active, or they do not.
Verify(c) ==
    /\ login[c].at = "verify"
    /\ At(c, "reset") \/ At(c, "fail")
    /\ UNCHANGED <<now, active, store, cleaning, loop, logout, limiter, recorded, raised>>

\* popleft: what comes before the first failure that is younger than this is dropped.
YoungerThan(age) ==
    LET n == CHOOSE n \in 0 .. Len(failures) :
                 /\ \A i \in 1 .. n : failures[i] + age <= now
                 /\ n < Len(failures) => failures[n + 1] + age > now
    IN  SubSeq(failures, n + 1, Len(failures))

\* Mutant: a failure that is exactly as old as the window is kept.
RecentOrEqual == YoungerThan(Window + 1)
Recent == YoungerThan(Window)

\* record_failure: the deque is brought up to date, then the lock is set.
RecordFailure(c) ==
    /\ login[c].at = "fail"
    /\ failures' = Append(Recent, now)
    /\ login' = [login EXCEPT ![c].at = IF Len(failures') >= MaxFailures THEN "lock" ELSE "refuse",
                              ![c].time = now]
    /\ wrong' = IF wrong = Mixed THEN Mixed ELSE Append(wrong, now)
    /\ UNCHANGED <<now, active, store, cleaning, loop, logout, lockedUntil, recorded, raised>>

SetLock(c) ==
    /\ login[c].at = "lock"
    /\ lockedUntil' = login[c].time + LockFor
    /\ At(c, "refuse")
    /\ UNCHANGED <<now, active, store, cleaning, loop, logout, failures, wrong, recorded, raised>>

\* auth.login_failed, then 429 or 401; the client may try again.
ArchiveRefusal(c) ==
    /\ login[c].at = "refuse"
    /\ \E ok \in BOOLEAN : Appended(ok)
    /\ login' = [login EXCEPT ![c] = NoLogin]
    /\ UNCHANGED <<now, active, store, cleaning, loop, logout, limiter, recorded>>

Reset(c) ==
    /\ login[c].at = "reset"
    /\ failures' = <<>> /\ lockedUntil' = Nothing
    /\ wrong' = IF wrong = Mixed THEN Mixed ELSE <<>>
    /\ At(c, "create")
    /\ UNCHANGED <<now, active, store, cleaning, loop, logout, recorded, raised>>

\* AuthSessionStore.create; with auth disabled nothing is archived.
Create(c) ==
    /\ login[c].at = "create"
    /\ sessions' = [sessions EXCEPT ![c] = now + Ttl]
    /\ seen' = [seen EXCEPT ![c] = now]
    /\ At(c, IF Serves THEN "log" ELSE "in")
    /\ UNCHANGED <<now, active, expired, cleaning, loop, logout, limiter, recorded, raised>>

\* When auth.login_succeeded cannot be appended nobody learns the token.
ArchiveLogin(c) ==
    /\ login[c].at = "log"
    /\ \E ok \in BOOLEAN : Appended(ok) /\ At(c, IF ok THEN "in" ELSE "lost")
    /\ UNCHANGED <<now, active, store, cleaning, loop, logout, limiter, recorded>>

-----------------------------------------------------------------------------
(* The route of logouts, in the thread pool. *)

\* AuthSessionStore.revoke; a token without a session gets no event.
Revoke(c) ==
    /\ active # Down /\ login[c].at = "in" /\ logout[c] = "idle"
    /\ sessions' = [sessions EXCEPT ![c] = Nothing]
    /\ logout' = [logout EXCEPT ![c] = IF sessions[c] # Nothing THEN "revoked" ELSE "done"]
    /\ UNCHANGED <<now, active, expired, seen, cleaning, loop, login, limiter, recorded, raised>>

ArchiveLogout(c) ==
    /\ logout[c] = "revoked"
    /\ \E ok \in BOOLEAN : Appended(ok)
    /\ logout' = [logout EXCEPT ![c] = "done"]
    /\ UNCHANGED <<now, active, store, cleaning, loop, login, limiter, recorded>>

-----------------------------------------------------------------------------
(* The middleware, in the event loop: validate, drain_expired, archive. *)

\* validate looks the token up.
Lookup(c) ==
    /\ Serves /\ loop.at = "idle" /\ login[c].at = "in"
    /\ loop' = [Idle EXCEPT !.at = "request", !.client = c, !.until = sessions[c]]
    /\ UNCHANGED <<now, active, store, cleaning, login, logout, limiter, recorded, raised>>

\* Mutants: the queue is kept; it is cleared before it is copied.
DrainKeeping(more) ==
    /\ loop' = [Idle EXCEPT !.at = "archive", !.batch = expired \cup more]
    /\ expired' = expired \cup more
DrainClearedFirst(more) ==
    /\ loop' = [Idle EXCEPT !.at = "archive"]
    /\ expired' = {} \cap more

\* The queue is emptied into the batch that is archived next.
Drain(more) ==
    /\ loop' = [Idle EXCEPT !.at = "archive", !.batch = expired \cup more]
    /\ expired' = {}

\* Mutants: the session is written back; it does not slide.
SlideBack(c) == sessions' = [sessions EXCEPT ![c] = now + Ttl]
NoSlide(c) == sessions' = [sessions EXCEPT ![c] = @]

\* The expiry is moved in the object, which a logout may have removed from the store.
Slide(c) == sessions' = IF sessions[c] = Nothing THEN sessions
                        ELSE [sessions EXCEPT ![c] = now + Ttl]

\* The session is moved on, or ends, by what the lookup found.
Validate ==
    /\ loop.at = "request"
    /\ LET c == loop.client
       IN  \/ /\ loop.until = Nothing
              /\ Drain({}) /\ UNCHANGED <<sessions, seen>>
           \/ /\ loop.until # Nothing /\ loop.until <= now
              /\ sessions' = [sessions EXCEPT ![c] = Nothing]
              /\ Drain({c}) /\ UNCHANGED seen
           \/ /\ loop.until # Nothing /\ loop.until > now
              /\ Slide(c) /\ seen' = [seen EXCEPT ![c] = now]
              /\ Drain({})
    /\ UNCHANGED <<now, active, cleaning, login, logout, limiter, recorded, raised>>

\* One auth.session_expired; when it cannot be appended the rest of the batch is
\* dropped, and the cleanup task ends if the batch was its own.
ArchiveExpired ==
    /\ loop.at \in {"archive", "archive_sweep"}
    /\ \/ loop.batch = {} /\ loop' = Idle /\ UNCHANGED <<cleaning, recorded, raised>>
       \/ \E c \in loop.batch, ok \in BOOLEAN :
            /\ Appended(ok)
            /\ recorded' = IF ok THEN [recorded EXCEPT ![c] = @ + 1] ELSE recorded
            /\ loop' = IF ok THEN [loop EXCEPT !.batch = @ \ {c}] ELSE Idle
            /\ cleaning' = (cleaning /\ (ok \/ loop.at = "archive"))
    /\ UNCHANGED <<now, active, store, login, logout, limiter>>

-----------------------------------------------------------------------------
(* The cleanup loop: cleanup_expired, in the event loop. *)

\* The items are listed, and the time is taken, once; what a request would move on in
\* between cannot run, but a logout can.
StartSweep ==
    /\ active # Down /\ cleaning /\ loop.at = "idle"
    /\ loop' = [Idle EXCEPT !.at = "sweep",
                            !.left = {c \in Clients : sessions[c] # Nothing /\ sessions[c] <= now}]
    /\ UNCHANGED <<now, active, store, cleaning, login, logout, limiter, recorded, raised>>

SweepOne ==
    /\ loop.at = "sweep"
    /\ \E c \in loop.left :
         /\ sessions' = [sessions EXCEPT ![c] = Nothing]
         /\ loop' = [loop EXCEPT !.left = @ \ {c}, !.batch = @ \cup {c}]
    /\ UNCHANGED <<now, active, expired, seen, cleaning, login, logout, limiter, recorded, raised>>

\* What was swept goes into the queue of the requests, and is archived here as well.
EndSweep ==
    /\ loop.at = "sweep" /\ loop.left = {}
    /\ expired' = expired \cup loop.batch
    /\ loop' = [loop EXCEPT !.at = "archive_sweep"]
    /\ UNCHANGED <<now, active, sessions, seen, cleaning, login, logout, limiter, recorded, raised>>

-----------------------------------------------------------------------------
(* The process. *)

\* What Settings.from_env makes of the file and the environment: Nothing is a file
\* that is not there, Down a process that does not start.  LOOM_AUTH_DISABLED is not
\* set, or says yes or no; to be without authentication is for development.
Switches == {"unset", "yes", "no"}

Loaded(file, env, appEnv, switch) ==
    LET credentials == IF env # Nothing THEN env ELSE file
        off == switch = "yes" \/ (switch = "unset" /\ appEnv = "dev" /\ credentials = Nothing)
    IN  CASE off /\ appEnv = "dev" -> Disabled
          [] ~off /\ credentials # Nothing -> credentials
          [] OTHER -> Down

Start(loaded) ==
    /\ active = Down /\ active' = loaded
    /\ UNCHANGED <<now, store, cleaning, loop, login, logout, limiter, recorded, raised>>

\* Nothing of this is kept: handlers end where they are, tokens outlive their sessions.
Stop ==
    /\ active # Down
    /\ active' = Down
    /\ sessions' = [c \in Clients |-> Nothing] /\ expired' = {}
    /\ seen' = [c \in Clients |-> 0]
    /\ cleaning' = TRUE /\ loop' = Idle
    /\ failures' = <<>> /\ lockedUntil' = Nothing /\ wrong' = <<>>
    /\ raised' = FALSE
    /\ login' = [c \in Clients |-> CASE login[c].at = "log" -> [login[c] EXCEPT !.at = "lost"]
                                      [] login[c].at # "log" /\ InFlight(c) -> NoLogin
                                      [] OTHER -> login[c]]
    /\ logout' = [c \in Clients |-> IF logout[c] = "revoked" THEN "done" ELSE logout[c]]
    /\ UNCHANGED <<now, recorded>>

Tick ==
    /\ now < MaxTime
    /\ now' = now + 1
    /\ UNCHANGED <<active, store, cleaning, loop, login, logout, limiter, recorded, raised>>

LoginStep(c) ==
    \/ IsLimited(c) \/ Unlock(c) \/ Verify(c) \/ RecordFailure(c) \/ SetLock(c)
    \/ ArchiveRefusal(c) \/ Reset(c) \/ Create(c) \/ ArchiveLogin(c)

LoopStep == Validate \/ SweepOne \/ EndSweep \/ ArchiveExpired

Running ==
    \/ \E c \in Clients : ReceiveLogin(c) \/ LoginStep(c) \/ Revoke(c) \/ ArchiveLogout(c) \/ Lookup(c)
    \/ StartSweep \/ LoopStep
    \/ Stop \/ Tick

Next ==
    \/ Running
    \/ \E file, env \in Maybe(Credentials), appEnv \in {"dev", "prod"}, switch \in Switches :
         Start(Loaded(file, env, appEnv, switch))

Spec == Init /\ [][Next]_vars

\* A thread of the pool runs its handler to the end, and the event loop what it has
\* begun; asyncio wakes the cleanup task in its turn however many requests there are.
\* Nothing makes a client send a request, a clock tick or a process start.
Fairness ==
    /\ WF_vars(LoopStep) /\ SF_vars(StartSweep)
    /\ \A c \in Clients : WF_vars(LoginStep(c)) /\ WF_vars(ArchiveLogout(c))

-----------------------------------------------------------------------------
(* Properties. *)

\* A logout is final: whatever the middleware and the sweep had looked up before it,
\* neither puts the session back.
LogoutIsFinal == \A c \in Clients : logout[c] # "idle" => sessions[c] = Nothing

\* A session is given up only for being idle: one that is queued, swept or being
\* recorded as expired has let no request through for the whole of Ttl.
ExpiryIsEarned ==
    \A c \in expired \cup loop.left \cup loop.batch : seen[c] + Ttl <= now

\* The sweep records what it found and leaves it to the next request as well, so an
\* expiry may be recorded twice; no interleaving makes it more.
RecordedAtMostTwice == \A c \in Clients : recorded[c] <= 2

\* A session whose time has come is removed and recorded, though nobody uses it any
\* more, unless it is logged out, the process stops, or an append has raised: then the
\* rest of a batch is dropped, and the cleanup task may have ended.
ExpiryIsRecorded ==
    \A c \in Clients :
        (sessions[c] # Nothing /\ sessions[c] <= now) ~>
            (recorded[c] > 0 \/ logout[c] # "idle" \/ active = Down \/ raised)

\* The lock by its definition: max_failures wrong passwords in less than the window,
\* the last of them less than lock_seconds ago.
LockedByDefinition ==
    \E i \in MaxFailures .. Len(wrong) :
        /\ wrong[i] < wrong[(i + 1) - MaxFailures] + Window
        /\ now < wrong[i] + LockFor

\* Logins that come one after the other are refused exactly when the definition says.
LockoutIsExact ==
    [][\A c \in Clients :
         login[c].at = "limit" /\ login'[c].at # "limit" /\ active' # Down /\ wrong # Mixed =>
             (login'[c].at = "refuse" <=> LockedByDefinition)]_vars
=============================================================================
