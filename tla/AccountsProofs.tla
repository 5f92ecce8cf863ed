----------------------------- MODULE AccountsProofs -----------------------------
(* For every set of clients and commands, every lifetime of a session, any clock, *)
(* with appends that raise and a process that stops: a logout is final, a session *)
(* expires only after being idle for its lifetime, and an expiry is recorded      *)
(* twice at most; logins that come in turn are refused exactly while the lock of  *)
(* the definition holds; whoever reads auth.json finds a whole document, and a    *)
(* command that reports success has made its change and recorded it.              *)
(*                                                                                *)
(* The argument for the sessions follows one of them.  While it is `Unspent`,     *)
(* which it may be in the store, in the list of a sweep, or in the hands of a     *)
(* request, nothing of it is queued or recorded.  A request that finds it expired *)
(* spends it once, the sweep twice: in the batch it archives and in the queue.    *)
(* What is queued is not in the store any more, so nobody finds it again.         *)
(*                                                                                *)
(* The argument for the limiter: the deque ends as the history of wrong passwords *)
(* does and lacks only what is older than the window (`Deque`), also when it was  *)
(* cleared, since a lock lasts at least as long as the window.  So its length     *)
(* reaches the threshold exactly when the definition locks, and the lock that is  *)
(* stored covers every one the definition still has in force (`Lock`).            *)
(*                                                                                *)
(* The argument for the file: between its open and its rename a command owns the  *)
(* temporary file of its process id, since live commands differ in their ids and  *)
(* O_EXCL gives a name to one of them only (`Owns`).  So what it renames is what  *)
(* it wrote, and it renames only after the write has returned (`Wrote`).          *)
EXTENDS Accounts, WellFoundedInduction, TLAPS

LoginLabels == {"idle", "limit", "unlock", "verify", "fail", "lock", "refuse", "reset", "create",
                "log", "in", "lost"}
LoopLabels == {"idle", "request", "sweep", "archive", "archive_sweep"}

Types ==
    /\ now \in Nat
    /\ sessions \in [Clients -> Nat \cup {Nothing}]
    /\ seen \in [Clients -> Nat]
    /\ recorded \in [Clients -> Nat]
    /\ expired \subseteq Clients
    /\ login \in [Clients -> [at : LoginLabels, time : Nat]]
    /\ logout \in [Clients -> {"idle", "revoked", "done"}]
    /\ loop \in [at : LoopLabels, client : Clients \cup {Nothing}, until : Nat \cup {Nothing},
                 left : SUBSET Clients, batch : SUBSET Clients]

\* The event loop holds a list only while it sweeps, and a batch until it is archived.
Lists ==
    /\ loop.at # "sweep" => loop.left = {}
    /\ loop.at \in {"idle", "request"} => loop.batch = {}
    /\ loop.left \cap loop.batch = {}
    /\ loop.at = "request" => loop.client \in Clients

Created(c) == login[c].at \in {"log", "in", "lost"}
Held(c) == loop.at = "request" /\ loop.client = c /\ loop.until # Nothing

Unspent(c) ==
    \/ ~Created(c) \/ sessions[c] # Nothing
    \/ c \in loop.left \/ Held(c)
    \/ loop.at = "sweep" /\ c \in loop.batch

Owed(c) == (IF c \in expired THEN 1 ELSE 0) + (IF c \in loop.batch THEN 1 ELSE 0)

Session(c) ==
    /\ logout[c] # "idle" => login[c].at = "in" /\ sessions[c] = Nothing
    /\ sessions[c] # Nothing => Created(c) /\ sessions[c] = seen[c] + Ttl
    /\ c \in expired \cup loop.left \cup loop.batch => Created(c) /\ seen[c] + Ttl <= now
    /\ c \in expired \cup loop.batch => sessions[c] = Nothing
    /\ loop.at = "request" /\ loop.client = c => Created(c)
    /\ Held(c) => loop.until = seen[c] + Ttl
    /\ Unspent(c) => recorded[c] = 0 /\ c \notin expired
    /\ recorded[c] + Owed(c) <= 2

Inv == Types /\ Lists /\ \A c \in Clients : Session(c)

LEMMA Numbers == Ttl \in Nat /\ LockFor \in Nat /\ Nothing \notin Nat /\ Nothing \notin Clients
  BY TimesAssumption, ValuesAssumption

LEMMA Begins == Init => Inv
  BY Numbers
  DEF Init, Inv, Types, Lists, Session, Unspent, Created, Held, Owed, Idle, NoLogin, LoginLabels,
      LoopLabels

-----------------------------------------------------------------------------
(* The thread pool. *)

\* A step of a login that neither creates the session nor follows its creation.
LEMMA LoginMoves ==
    ASSUME Inv, NEW c \in Clients, login' \in [Clients -> [at : LoginLabels, time : Nat]],
           \A d \in Clients \ {c} : login'[d] = login[d],
           ~Created(c), login'[c].at \notin {"log", "in", "lost"},
           UNCHANGED <<now, sessions, expired, seen, loop, logout, recorded>>
    PROVE  Inv'
<1>1. \A d \in Clients : Created(d)' = Created(d)  BY DEF Created
<1>2. \A d \in Clients : login[d].at = "in" => login'[d].at = "in"  BY DEF Created
<1>3. \A d \in Clients : Session(d)'
  BY <1>1, <1>2 DEF Inv, Session, Unspent, Held, Owed
<1>4. QED  BY <1>3 DEF Inv, Types, Lists

LEMMA ReceiveKeeps ==
    ASSUME Inv, NEW c \in Clients, ReceiveLogin(c)
    PROVE  Inv'
<1>1. /\ UNCHANGED <<now, sessions, expired, seen, loop, logout, recorded>>
      /\ login[c].at = "idle"
      /\ \E l \in {"limit", "create"} : At(c, l)
  BY DEF ReceiveLogin, store
<1>2. QED  BY <1>1, LoginMoves DEF At, Inv, Types, LoginLabels, Created

LEMMA RefusalKeeps ==
    ASSUME Inv, NEW c \in Clients,
           \/ IsLimited(c) \/ Unlock(c) \/ Verify(c) \/ RecordFailure(c) \/ SetLock(c)
           \/ ArchiveRefusal(c) \/ Reset(c)
    PROVE  Inv'
<1>1. UNCHANGED <<now, sessions, expired, seen, loop, logout, recorded>>
  BY DEF IsLimited, Unlock, Verify, RecordFailure, SetLock, ArchiveRefusal, Reset, store
<1>2. ~Created(c)
  BY DEF IsLimited, Unlock, Verify, RecordFailure, SetLock, ArchiveRefusal, Reset, Created
<1>3. CASE \E l \in {"limit", "unlock", "verify", "fail", "lock", "refuse", "reset", "create"} : At(c, l)
  BY <1>1, <1>2, <1>3, LoginMoves DEF At, Inv, Types, LoginLabels
<1>4. CASE RecordFailure(c)
  <2>1. PICK l \in {"lock", "refuse"} : login' = [login EXCEPT ![c].at = l, ![c].time = now]
    BY <1>4 DEF RecordFailure
  <2>2. QED  BY ZenonT(40), <1>1, <1>2, <2>1, LoginMoves DEF Inv, Types, LoginLabels
<1>5. CASE ArchiveRefusal(c)
  BY <1>1, <1>2, <1>5, LoginMoves DEF ArchiveRefusal, NoLogin, Inv, Types, LoginLabels
<1>6. CASE IsLimited(c)
  BY <1>3, <1>6 DEF IsLimited
<1>7. QED  BY <1>3, <1>4, <1>5, <1>6 DEF Unlock, Verify, SetLock, Reset

\* A new session is of a client that nothing knows yet.
LEMMA CreateKeeps ==
    ASSUME Inv, NEW c \in Clients, Create(c)
    PROVE  Inv'
<1>1. /\ login[c].at = "create"
      /\ sessions' = [sessions EXCEPT ![c] = now + Ttl] /\ seen' = [seen EXCEPT ![c] = now]
      /\ UNCHANGED <<now, expired, loop, logout, recorded>>
      /\ \E l \in {"log", "in"} : At(c, l)
  BY DEF Create
<1>2. ~Created(c)  BY <1>1 DEF Created
<1>3. login' \in [Clients -> [at : LoginLabels, time : Nat]] /\ Created(c)'
  BY <1>1 DEF At, Inv, Types, LoginLabels, Created
<1>4. \A d \in Clients \ {c} : login'[d] = login[d]
  BY <1>1 DEF At, Inv, Types
<1>5. Types'
  <2>1. now + Ttl \in Nat  BY Numbers DEF Inv, Types
  <2>2. sessions' \in [Clients -> Nat \cup {Nothing}] /\ seen' \in [Clients -> Nat]
    BY <1>1, <2>1 DEF Inv, Types
  <2>3. QED  BY <1>1, <1>3, <2>2 DEF Inv, Types
<1>6. Session(c)'
  BY <1>1, <1>2, <1>3, Numbers DEF Inv, Types, Session, Unspent, Held, Owed
<1>7. \A d \in Clients \ {c} : Session(d)'
  BY <1>1, <1>4 DEF Inv, Types, Session, Unspent, Created, Held, Owed
<1>8. QED  BY <1>1, <1>5, <1>6, <1>7 DEF Inv, Lists

LEMMA ArchiveLoginKeeps ==
    ASSUME Inv, NEW c \in Clients, ArchiveLogin(c)
    PROVE  Inv'
<1>1. /\ login[c].at = "log"
      /\ UNCHANGED <<now, sessions, expired, seen, loop, logout, recorded>>
      /\ \E l \in {"in", "lost"} : At(c, l)
  BY DEF ArchiveLogin, store
<1>2. /\ login' \in [Clients -> [at : LoginLabels, time : Nat]]
      /\ \A d \in Clients : Created(d)' = Created(d) /\ (login[d].at = "in" => login'[d].at = "in")
  BY <1>1 DEF At, Inv, Types, LoginLabels, Created
<1>3. \A d \in Clients : Session(d)'
  BY <1>1, <1>2 DEF Inv, Session, Unspent, Held, Owed
<1>4. QED  BY <1>1, <1>2, <1>3 DEF Inv, Types, Lists

LEMMA RevokeKeeps ==
    ASSUME Inv, NEW c \in Clients, Revoke(c)
    PROVE  Inv'
<1>1. /\ login[c].at = "in" /\ sessions' = [sessions EXCEPT ![c] = Nothing]
      /\ UNCHANGED <<now, expired, seen, loop, login, recorded>>
      /\ \E l \in {"revoked", "done"} : logout' = [logout EXCEPT ![c] = l]
  BY DEF Revoke
<1>2. Types'  BY <1>1 DEF Inv, Types
<1>3. \A d \in Clients : Session(d)'
  BY <1>1 DEF Inv, Types, Session, Unspent, Created, Held, Owed
<1>4. QED  BY <1>1, <1>2, <1>3 DEF Inv, Lists

LEMMA ArchiveLogoutKeeps ==
    ASSUME Inv, NEW c \in Clients, ArchiveLogout(c)
    PROVE  Inv'
<1>1. /\ logout[c] = "revoked" /\ logout' = [logout EXCEPT ![c] = "done"]
      /\ UNCHANGED <<now, sessions, expired, seen, loop, login, recorded>>
  BY DEF ArchiveLogout, store
<1>2. \A d \in Clients : Session(d)'
  BY <1>1 DEF Inv, Types, Session, Unspent, Created, Held, Owed
<1>3. QED  BY <1>1, <1>2 DEF Inv, Types, Lists

-----------------------------------------------------------------------------
(* The event loop. *)

LEMMA LookupKeeps ==
    ASSUME Inv, NEW c \in Clients, Lookup(c)
    PROVE  Inv'
<1>1. /\ loop.at = "idle" /\ login[c].at = "in"
      /\ loop' = [at |-> "request", client |-> c, until |-> sessions[c], left |-> {}, batch |-> {}]
      /\ UNCHANGED <<now, sessions, expired, seen, login, logout, recorded>>
  BY DEF Lookup, Idle, store
<1>2. Types' /\ Lists'
  BY <1>1 DEF Inv, Types, Lists, LoopLabels
<1>3. loop.left = {} /\ loop.batch = {}  BY <1>1 DEF Inv, Lists
<1>4. \A d \in Clients : Session(d)'
  BY <1>1, <1>3 DEF Inv, Types, Session, Unspent, Created, Held, Owed
<1>5. QED  BY <1>2, <1>4 DEF Inv

\* The queue becomes the batch; a session that the request found expired joins it.
LEMMA ValidateKeeps ==
    ASSUME Inv, Validate
    PROVE  Inv'
<1>0. PICK c \in Clients : c = loop.client  BY DEF Validate, Inv, Lists
<1>1. /\ loop.at = "request" /\ c = loop.client /\ loop.left = {} /\ loop.batch = {}
      /\ UNCHANGED <<now, login, logout, recorded>>
  BY <1>0 DEF Validate, Inv, Lists
<1>2. \A d \in Clients :
        /\ sessions[d] \in Nat \cup {Nothing} /\ seen[d] \in Nat /\ recorded[d] \in Nat
        /\ Session(d) /\ d \notin loop.left /\ d \notin loop.batch
        /\ Created(d)' = Created(d)
  BY <1>1 DEF Inv, Types, Created
<1>3. CASE Drain({}) /\ UNCHANGED <<sessions, seen>>
  <2>1. /\ Types' /\ Lists' /\ expired' = {}
        /\ loop'.at = "archive" /\ loop'.left = {} /\ loop'.batch = expired
    <3>1. /\ loop' = [at |-> "archive", client |-> Nothing, until |-> Nothing, left |-> {},
                   batch |-> expired]
          /\ expired' = {}
      BY <1>3 DEF Drain, Idle
    <3>2. QED  BY <1>1, <1>3, <3>1 DEF Inv, Types, Lists, LoopLabels
  <2>2. \A d \in Clients : Session(d)'
    BY <1>1, <1>3, <2>1, <1>2 DEF Session, Unspent, Held, Owed
  <2>3. QED  BY <2>1, <2>2 DEF Inv
<1>4. CASE /\ loop.until # Nothing /\ loop.until <= now
           /\ sessions' = [sessions EXCEPT ![c] = Nothing]
           /\ Drain({c}) /\ UNCHANGED seen
  <2>1. /\ Types' /\ Lists' /\ expired' = {}
        /\ loop'.at = "archive" /\ loop'.left = {} /\ loop'.batch = expired \cup {c}
    <3>1. /\ loop' = [at |-> "archive", client |-> Nothing, until |-> Nothing, left |-> {},
                   batch |-> expired \cup {c}]
          /\ expired' = {}
      BY <1>4 DEF Drain, Idle
    <3>2. QED  BY <1>1, <1>4, <3>1 DEF Inv, Types, Lists, LoopLabels
  <2>2. Session(c)'
    <3>1. sessions'[c] = Nothing  BY <1>4 DEF Inv, Types
    <3>2. Held(c) /\ seen[c] + Ttl <= now /\ recorded[c] = 0 /\ c \notin expired
      BY <1>1, <1>2, <1>4 DEF Held, Session, Unspent
    <3>3. QED  BY <1>1, <1>2, <1>4, <2>1, <3>1, <3>2 DEF Session, Unspent, Held, Owed
  <2>3. \A d \in Clients \ {c} : Session(d)'
    BY <1>1, <1>4, <2>1, <1>2 DEF Session, Unspent, Held, Owed
  <2>4. QED  BY <2>1, <2>2, <2>3 DEF Inv
<1>5. CASE /\ loop.until # Nothing /\ loop.until > now
           /\ Slide(c) /\ seen' = [seen EXCEPT ![c] = now]
           /\ Drain({})
  <2>1. now + Ttl \in Nat  BY Numbers DEF Inv, Types
  <2>2. /\ sessions' \in [Clients -> Nat \cup {Nothing}] /\ seen' \in [Clients -> Nat]
        /\ sessions'[c] = IF sessions[c] = Nothing THEN Nothing ELSE now + Ttl
        /\ seen'[c] = now
        /\ \A d \in Clients \ {c} : sessions'[d] = sessions[d] /\ seen'[d] = seen[d]
    BY <1>1, <1>5, <2>1 DEF Slide, Inv, Types
  <2>3. /\ Types' /\ Lists' /\ expired' = {}
        /\ loop'.at = "archive" /\ loop'.left = {} /\ loop'.batch = expired
    <3>1. /\ loop' = [at |-> "archive", client |-> Nothing, until |-> Nothing, left |-> {},
                   batch |-> expired]
          /\ expired' = {}
      BY <1>5 DEF Drain, Idle
    <3>2. QED  BY <1>1, <2>2, <3>1 DEF Inv, Types, Lists, LoopLabels
  <2>4. Session(c)'
    BY <1>1, <1>5, <2>2, <2>3, Numbers, <1>2 DEF Session, Unspent, Held, Owed
  <2>5. \A d \in Clients \ {c} : Session(d)'
    BY <1>1, <2>2, <2>3, <1>2 DEF Session, Unspent, Held, Owed
  <2>6. QED  BY <2>3, <2>4, <2>5 DEF Inv
<1>6. QED  BY <1>1, <1>3, <1>4, <1>5 DEF Validate

LEMMA ArchiveExpiredKeeps ==
    ASSUME Inv, ArchiveExpired
    PROVE  Inv'
<1>1. /\ loop.at \in {"archive", "archive_sweep"} /\ loop.left = {}
      /\ UNCHANGED <<now, sessions, expired, seen, login, logout>>
  BY DEF ArchiveExpired, Inv, Lists, store
<1>2. CASE loop' = Idle /\ UNCHANGED recorded
  <2>1. Types' /\ Lists'  BY <1>1, <1>2 DEF Inv, Types, Lists, Idle, LoopLabels
  <2>2. \A d \in Clients : Session(d)'
    BY <1>1, <1>2 DEF Inv, Types, Session, Unspent, Created, Held, Owed, Idle
  <2>3. QED  BY <2>1, <2>2 DEF Inv
<1>3. ASSUME NEW c \in loop.batch, recorded' = [recorded EXCEPT ![c] = @ + 1],
             loop' = [loop EXCEPT !.batch = @ \ {c}]
      PROVE  Inv'
  <2>1. c \in Clients  BY <1>3 DEF Inv, Types
  <2>2. /\ loop'.at = loop.at /\ loop'.left = {} /\ loop'.batch = loop.batch \ {c}
        /\ loop' \in [at : LoopLabels, client : Clients \cup {Nothing}, until : Nat \cup {Nothing},
                     left : SUBSET Clients, batch : SUBSET Clients]
    BY <1>1, <1>3 DEF Inv, Types
  <2>3. /\ recorded' \in [Clients -> Nat] /\ recorded'[c] = recorded[c] + 1
        /\ \A d \in Clients \ {c} : recorded'[d] = recorded[d]
    BY <1>3, <2>1 DEF Inv, Types
  <2>4. Types' /\ Lists'  BY <1>1, <2>2, <2>3 DEF Inv, Types, Lists
  <2>5. Session(c)'
    BY <1>1, <1>3, <2>1, <2>2, <2>3 DEF Inv, Types, Session, Unspent, Created, Held, Owed
  <2>6. \A d \in Clients \ {c} : Session(d)'
    BY <1>1, <2>2, <2>3 DEF Inv, Types, Session, Unspent, Created, Held, Owed
  <2>7. QED  BY <2>4, <2>5, <2>6 DEF Inv
<1>4. QED  BY <1>2, <1>3 DEF ArchiveExpired

LEMMA StartSweepKeeps ==
    ASSUME Inv, StartSweep
    PROVE  Inv'
<1>1. /\ loop.at = "idle" /\ loop.left = {} /\ loop.batch = {}
      /\ loop' = [at |-> "sweep", client |-> Nothing, until |-> Nothing,
                  left |-> {c \in Clients : sessions[c] # Nothing /\ sessions[c] <= now},
                  batch |-> {}]
      /\ UNCHANGED <<now, sessions, expired, seen, login, logout, recorded>>
  BY DEF StartSweep, Idle, Inv, Lists, store
<1>2. Types' /\ Lists'  BY <1>1 DEF Inv, Types, Lists, LoopLabels
<1>3. \A d \in Clients : Session(d)'
  BY <1>1 DEF Inv, Types, Session, Unspent, Created, Held, Owed
<1>4. QED  BY <1>2, <1>3 DEF Inv

LEMMA SweepOneKeeps ==
    ASSUME Inv, SweepOne
    PROVE  Inv'
<1>1. PICK c \in loop.left :
        /\ sessions' = [sessions EXCEPT ![c] = Nothing]
        /\ loop' = [loop EXCEPT !.left = @ \ {c}, !.batch = @ \cup {c}]
  BY DEF SweepOne
<1>2. /\ loop.at = "sweep" /\ c \in Clients
      /\ UNCHANGED <<now, expired, seen, login, logout, recorded>>
  BY DEF SweepOne, Inv, Types
<1>3. /\ loop'.at = "sweep" /\ loop'.left = loop.left \ {c} /\ loop'.batch = loop.batch \cup {c}
      /\ loop' \in [at : LoopLabels, client : Clients \cup {Nothing}, until : Nat \cup {Nothing},
                   left : SUBSET Clients, batch : SUBSET Clients]
  BY <1>1, <1>2 DEF Inv, Types
<1>4. /\ sessions' \in [Clients -> Nat \cup {Nothing}] /\ sessions'[c] = Nothing
      /\ \A d \in Clients \ {c} : sessions'[d] = sessions[d]
  BY <1>1, <1>2 DEF Inv, Types
<1>5. Types' /\ Lists'  BY <1>2, <1>3, <1>4 DEF Inv, Types, Lists
<1>6. Session(c)'
  BY <1>1, <1>2, <1>3, <1>4 DEF Inv, Types, Lists, Session, Unspent, Created, Held, Owed
<1>7. \A d \in Clients \ {c} : Session(d)'
  BY <1>2, <1>3, <1>4 DEF Inv, Types, Session, Unspent, Created, Held, Owed
<1>8. QED  BY <1>5, <1>6, <1>7 DEF Inv

LEMMA EndSweepKeeps ==
    ASSUME Inv, EndSweep
    PROVE  Inv'
<1>1. /\ loop.at = "sweep" /\ loop.left = {} /\ expired' = expired \cup loop.batch
      /\ UNCHANGED <<now, sessions, seen, login, logout, recorded>>
  BY DEF EndSweep
<1>2. /\ loop'.at = "archive_sweep" /\ loop'.left = {} /\ loop'.batch = loop.batch
      /\ loop' \in [at : LoopLabels, client : Clients \cup {Nothing}, until : Nat \cup {Nothing},
                   left : SUBSET Clients, batch : SUBSET Clients]
  BY <1>1 DEF EndSweep, Inv, Types, LoopLabels
<1>3. Types' /\ Lists'  BY <1>1, <1>2 DEF Inv, Types, Lists
<1>4. \A d \in Clients : Session(d)'
  BY <1>1, <1>2 DEF Inv, Types, Session, Unspent, Created, Held, Owed
<1>5. QED  BY <1>3, <1>4 DEF Inv

-----------------------------------------------------------------------------
(* The process. *)

LEMMA StopKeeps ==
    ASSUME Inv, Stop
    PROVE  Inv'
<1>1. /\ sessions' = [c \in Clients |-> Nothing] /\ expired' = {}
      /\ seen' = [c \in Clients |-> 0] /\ loop' = Idle /\ UNCHANGED <<now, recorded>>
      /\ logout' = [c \in Clients |-> IF logout[c] = "revoked" THEN "done" ELSE logout[c]]
  BY DEF Stop
<1>2. login' = [c \in Clients |-> CASE login[c].at = "log" -> [login[c] EXCEPT !.at = "lost"]
                                     [] login[c].at # "log" /\ InFlight(c) -> NoLogin
                                     [] OTHER -> login[c]]
  BY DEF Stop
<1>3. \A c \in Clients :
        /\ login'[c] \in [at : LoginLabels, time : Nat]
        /\ Created(c)' = Created(c)
        /\ login[c].at = "in" => login'[c].at = "in"
  <2> SUFFICES ASSUME NEW c \in Clients
               PROVE  /\ login'[c] \in [at : LoginLabels, time : Nat]
                      /\ Created(c)' = Created(c)
                      /\ login[c].at = "in" => login'[c].at = "in"
    OBVIOUS
  <2>1. CASE login[c].at = "log"
    BY <1>2, <2>1 DEF Inv, Types, Created, LoginLabels
  <2>2. CASE login[c].at # "log" /\ InFlight(c)
    BY <1>2, <2>2 DEF Inv, Types, Created, LoginLabels, InFlight, NoLogin
  <2>3. CASE login[c].at # "log" /\ ~InFlight(c)
    BY <1>2, <2>3 DEF Inv, Types, Created, LoginLabels, InFlight
  <2>4. QED  BY <2>1, <2>2, <2>3
<1>4. login' \in [Clients -> [at : LoginLabels, time : Nat]]  BY <1>2, <1>3
<1>5. Types' /\ Lists'
  BY <1>1, <1>4 DEF Inv, Types, Lists, Idle, LoopLabels
<1>6. \A c \in Clients : Session(c)'
  BY <1>1, <1>3 DEF Inv, Types, Session, Unspent, Held, Owed, Idle
<1>7. QED  BY <1>5, <1>6 DEF Inv

LEMMA TickKeeps ==
    ASSUME Inv, Tick
    PROVE  Inv'
<1>1. /\ now' = now + 1
      /\ UNCHANGED <<sessions, expired, seen, login, logout, loop, recorded>>
  BY DEF Tick, store
<1>2. Types' /\ Lists'  BY <1>1 DEF Inv, Types, Lists
<1>3. \A c \in Clients : Session(c)'
  BY <1>1, Numbers DEF Inv, Types, Session, Unspent, Created, Held, Owed
<1>4. QED  BY <1>2, <1>3 DEF Inv

LEMMA Steps == Inv /\ [Next]_vars => Inv'
<1> SUFFICES ASSUME Inv, [Next]_vars PROVE Inv'
  OBVIOUS
<1>1. CASE UNCHANGED <<now, sessions, expired, seen, login, logout, loop, recorded>>
  BY <1>1 DEF Inv, Types, Lists, Session, Unspent, Created, Held, Owed
<1>2. CASE Running
  BY <1>2, ReceiveKeeps, RefusalKeeps, CreateKeeps, ArchiveLoginKeeps, RevokeKeeps,
     ArchiveLogoutKeeps, LookupKeeps, ValidateKeeps, ArchiveExpiredKeeps, StartSweepKeeps,
     SweepOneKeeps, EndSweepKeeps, StopKeeps, TickKeeps
  DEF Running, LoginStep, LoopStep
<1>3. CASE \E loaded : Start(loaded)
  BY <1>1, <1>3 DEF Start, store
<1>4. CASE UNCHANGED vars
  BY <1>1, <1>4 DEF vars, store
<1>5. QED  BY <1>2, <1>3, <1>4 DEF Next

LEMMA Holds == Spec => []Inv
<1>1. QED  BY Begins, Steps, PTL DEF Spec

-----------------------------------------------------------------------------
(* What follows for the sessions. *)

LEMMA Follows == Inv => LogoutIsFinal /\ ExpiryIsEarned /\ RecordedAtMostTwice
<1>1. Inv => LogoutIsFinal  BY DEF Inv, Session, LogoutIsFinal
<1>2. Inv => ExpiryIsEarned
  <2> SUFFICES ASSUME Inv, NEW c \in expired \cup loop.left \cup loop.batch
               PROVE  seen[c] + Ttl <= now
    BY DEF ExpiryIsEarned
  <2>1. c \in Clients  BY DEF Inv, Types
  <2>2. QED  BY <2>1 DEF Inv, Session
<1>3. Inv => RecordedAtMostTwice
  BY DEF Inv, Types, Session, Owed, RecordedAtMostTwice
<1>4. QED  BY <1>1, <1>2, <1>3

\* A logout is final: no request and no sweep that had looked up the session before puts
\* it back (service/auth/sessions.py:36-65).
THEOREM LogoutStaysFinal == Spec => []LogoutIsFinal
<1>1. QED  BY Follows, Holds, PTL

\* What is queued, swept or being recorded as expired has let no request through for the
\* whole lifetime (service/auth/sessions.py:36-65).
THEOREM ExpiriesAreEarned == Spec => []ExpiryIsEarned
<1>1. QED  BY Follows, Holds, PTL

\* An expiry is recorded twice at most (service/auth/sessions.py:57-70, app.py:245-259).
THEOREM RecordsAreFew == Spec => []RecordedAtMostTwice
<1>1. QED  BY Follows, Holds, PTL

-----------------------------------------------------------------------------
(* The limiter. *)

\* The i-th wrong password since the last right one is one that locks.
Locks(i) == i \in MaxFailures .. Len(wrong) /\ wrong[i] < wrong[(i + 1) - MaxFailures] + Window

\* While logins do not overlap the deque ends as the history does, and what it lacks is
\* older than the window; the lock is the one of the last wrong password, and every lock
\* that is still in force is this one or about to be set.
Deque ==
    /\ wrong \in Seq(Nat) /\ failures \in Seq(Nat) /\ lockedUntil \in Nat \cup {Nothing}
    /\ \A i, j \in 1 .. Len(wrong) : i <= j => wrong[i] <= wrong[j]
    /\ \A i \in 1 .. Len(wrong) : wrong[i] <= now
    /\ Len(failures) <= Len(wrong)
    /\ \A i \in 1 .. Len(failures) : failures[i] = wrong[(Len(wrong) - Len(failures)) + i]
    /\ \A i \in 1 .. (Len(wrong) - Len(failures)) : wrong[i] + Window <= now

Lock ==
    /\ lockedUntil # Nothing => Locks(Len(wrong)) /\ lockedUntil = wrong[Len(wrong)] + LockFor
    /\ \A i \in 1 .. Len(wrong) :
         Locks(i) => \/ wrong[i] + LockFor <= now
                     \/ lockedUntil # Nothing /\ wrong[i] + LockFor <= lockedUntil
                     \/ i = Len(wrong) /\ \E c \in Clients : login[c].at = "lock"

Phase(c) ==
    /\ login[c].at \in {"verify", "fail", "lock", "reset"} => lockedUntil = Nothing
    /\ login[c].at = "unlock" => lockedUntil # Nothing /\ lockedUntil <= now
    /\ login[c].at = "lock" => Locks(Len(wrong)) /\ login[c].time = wrong[Len(wrong)]

InTurn ==
    wrong # Mixed =>
        /\ \A c, d \in Clients : InFlight(c) /\ InFlight(d) => c = d
        /\ Deque
        /\ Lock
        /\ \A c \in Clients : Phase(c)

LEMMA LimitNumbers ==
    /\ MaxFailures \in Nat \ {0} /\ Window \in Nat \ {0} /\ LockFor \in Nat \ {0} /\ Window <= LockFor
    /\ Nothing \notin Nat /\ Mixed \notin Seq(Nat)
<1>1. Nothing \notin Nat  BY ValuesAssumption
<1>2. Len(Mixed) = 1 /\ Mixed[1] = Nothing  BY DEF Mixed
<1>3. ASSUME Mixed \in Seq(Nat) PROVE FALSE
  <2>1. Mixed[1] \in Nat  BY <1>2, <1>3
  <2>2. QED  BY <1>1, <1>2, <2>1
<1>4. QED  BY <1>1, <1>3, TimesAssumption

\* The failures that are too old are a first part of the deque.
LEMMA Dropped ==
    ASSUME failures \in Seq(Nat), now \in Nat, NEW age \in Nat
    PROVE  \E n \in 0 .. Len(failures) :
             /\ \A i \in 1 .. n : failures[i] + age <= now
             /\ n < Len(failures) => failures[n + 1] + age > now
             /\ YoungerThan(age) = SubSeq(failures, n + 1, Len(failures))
<1> DEFINE Gone(n) == /\ \A i \in 1 .. n : failures[i] + age <= now
                      /\ n < Len(failures) => failures[n + 1] + age > now
           young == {i \in 1 .. Len(failures) : failures[i] + age > now}
<1>1. \E n \in 0 .. Len(failures) : Gone(n)
  <2>1. CASE young = {}
    <3>1. Gone(Len(failures))  BY <2>1
    <3>2. Len(failures) \in 0 .. Len(failures)  OBVIOUS
    <3>3. QED  BY <3>1, <3>2
  <2>2. CASE young # {}
    <3>1. young \subseteq Nat  OBVIOUS
    <3>2. PICK m \in young : \A i \in young : ~(i < m)
      <4> HIDE DEF young
      <4>1. PICK m \in young : \A i \in young : ~(<<i, m>> \in OpToRel(<, Nat))
        BY <2>2, <3>1, WFMin, NatLessThanWellFounded, Zenon
      <4>2. ASSUME NEW i \in young, i < m PROVE FALSE
        <5>1. <<i, m>> \in Nat \X Nat  BY <3>1
        <5>2. <<i, m>>[1] = i /\ <<i, m>>[2] = m  OBVIOUS
        <5>3. <<i, m>> \in OpToRel(<, Nat)  BY <4>2, <5>1, <5>2, Zenon DEF OpToRel
        <5>4. QED  BY <4>1, <5>3
      <4>3. QED  BY <4>2
    <3>4. m - 1 \in 0 .. Len(failures) /\ Gone(m - 1)
      BY SMTT(30), <3>2
    <3>5. QED  BY <3>4
  <2>3. QED  BY <2>1, <2>2
<1> DEFINE first == CHOOSE n \in 0 .. Len(failures) : Gone(n)
<1>2. first \in 0 .. Len(failures) /\ Gone(first)
  BY <1>1, Zenon
<1>3. YoungerThan(age) = SubSeq(failures, first + 1, Len(failures))
  BY DEF YoungerThan
<1> HIDE DEF first
<1>4. QED  BY <1>2, <1>3

LEMMA TurnBegins == Init => InTurn
<1> SUFFICES ASSUME Init PROVE InTurn
  OBVIOUS
<1>1. wrong = <<>> /\ failures = <<>> /\ lockedUntil = Nothing /\ \A c \in Clients : login[c].at = "idle"
  BY DEF Init, NoLogin
<1>2. Deque /\ Lock /\ \A c \in Clients : Phase(c) /\ ~InFlight(c)
  BY <1>1, LimitNumbers DEF Deque, Lock, Phase, InFlight, Locks
<1>3. QED  BY <1>2 DEF InTurn

\* Whatever leaves the logins and the limiter alone, while the clock may go on.
LEMMA QuietTurn ==
    ASSUME InTurn, now \in Nat, now' \in Nat, now <= now', UNCHANGED <<login, limiter>>
    PROVE  InTurn'
<1> SUFFICES ASSUME wrong # Mixed PROVE InTurn'
  BY DEF InTurn, limiter
<1>1. UNCHANGED <<login, failures, lockedUntil, wrong>>  BY DEF limiter
<1>2. Deque'
  BY SMTT(30), <1>1, LimitNumbers DEF InTurn, Deque
<1>3. \A i \in 1 .. Len(wrong) : wrong[i] \in Nat
  BY DEF InTurn, Deque
<1>4. Lock'
  BY <1>1, <1>3, LimitNumbers DEF InTurn, Lock, Locks
<1>5. \A c \in Clients : Phase(c)'
  BY <1>1, LimitNumbers DEF InTurn, Phase, Locks, Deque
<1>6. QED  BY <1>1, <1>2, <1>4, <1>5 DEF InTurn, InFlight

\* A step of a login that is under way, which leaves the limiter alone.
LEMMA MoveOn ==
    ASSUME InTurn, NEW c \in Clients, InFlight(c), login[c].at # "lock", login'[c].at # "lock",
           \A d \in Clients \ {c} : login'[d] = login[d],
           UNCHANGED <<now, limiter>>,
           wrong # Mixed => Phase(c)'
    PROVE  InTurn'
<1> SUFFICES ASSUME wrong # Mixed PROVE InTurn'
  BY DEF InTurn, limiter
<1>1. UNCHANGED <<now, failures, lockedUntil, wrong>>  BY DEF limiter
<1>2. Deque'
  BY <1>1 DEF InTurn, Deque
<1>3. \A d \in Clients : d # c => ~InFlight(d) /\ ~InFlight(d)'
  BY DEF InTurn, InFlight
<1>4. Lock'
  BY <1>1, <1>3 DEF InTurn, Lock, Locks, InFlight
<1>5. \A d \in Clients : Phase(d)'
  BY <1>1, <1>3 DEF InTurn, Phase, Locks, InFlight
<1>6. QED  BY <1>2, <1>3, <1>4, <1>5 DEF InTurn

\* What is left of the deque with a new failure is what the history ends with.
LEMMA DequeGrows ==
    ASSUME Deque, now \in Nat, UNCHANGED <<now, lockedUntil>>,
           failures' = Append(Recent, now), wrong' = Append(wrong, now)
    PROVE  /\ Deque'
           /\ Len(failures') >= MaxFailures <=> Locks(Len(wrong))'
           /\ \A i \in 1 .. Len(wrong) : Locks(i)' <=> Locks(i)
           /\ Len(wrong') = Len(wrong) + 1 /\ wrong'[Len(wrong')] = now
           /\ \A i \in 1 .. Len(wrong) : wrong'[i] = wrong[i]
<1>1. wrong \in Seq(Nat) /\ failures \in Seq(Nat)
  BY DEF Deque
<1> DEFINE W == Len(wrong)
           F == Len(failures)
<1>2. /\ W \in Nat /\ F \in Nat /\ F <= W
      /\ \A i \in 1 .. W : wrong[i] \in Nat
  BY <1>1 DEF Deque
<1>3. PICK n \in 0 .. F :
        /\ \A i \in 1 .. n : failures[i] + Window <= now
        /\ n < F => failures[n + 1] + Window > now
        /\ Recent = SubSeq(failures, n + 1, F)
  BY <1>1, Dropped, LimitNumbers DEF Recent
<1>4. /\ Recent \in Seq(Nat) /\ Len(Recent) = F - n
      /\ \A i \in 1 .. F - n : Recent[i] = failures[n + i]
  BY SMTT(30), <1>1, <1>3
<1>5. /\ failures' \in Seq(Nat) /\ Len(failures') = (F - n) + 1
      /\ \A i \in 1 .. F - n : failures'[i] = failures[n + i]
      /\ failures'[(F - n) + 1] = now
  BY <1>4
<1>6. /\ wrong' \in Seq(Nat) /\ Len(wrong') = W + 1 /\ wrong'[W + 1] = now
      /\ \A i \in 1 .. W : wrong'[i] = wrong[i]
  BY <1>1
<1>7. \A i \in 1 .. F : failures[i] = wrong[(W - F) + i]
  BY DEF Deque
<1>8. \A i \in 1 .. (W - F) + n : wrong[i] + Window <= now
  <2> SUFFICES ASSUME NEW i \in 1 .. (W - F) + n PROVE wrong[i] + Window <= now
    OBVIOUS
  <2>1. CASE i <= W - F
    BY <2>1 DEF Deque
  <2>2. CASE i > W - F
    <3>1. i - (W - F) \in 1 .. n /\ i - (W - F) \in 1 .. F /\ (W - F) + (i - (W - F)) = i
      BY <1>2, <1>3, <2>2
    <3>2. failures[i - (W - F)] = wrong[i]  BY <1>7, <3>1
    <3>3. QED  BY <1>3, <3>1, <3>2
  <2>3. QED  BY <1>2, <2>1, <2>2
<1>9. \A i \in 1 .. W : i > (W - F) + n => wrong[i] + Window > now
  <2> SUFFICES ASSUME NEW i \in 1 .. W, i > (W - F) + n PROVE wrong[i] + Window > now
    OBVIOUS
  <2>1. n < F /\ n + 1 \in 1 .. F /\ ((W - F) + (n + 1)) \in 1 .. W /\ (W - F) + (n + 1) <= i
    BY <1>2, <1>3
  <2>2. wrong[(W - F) + (n + 1)] + Window > now
    <3>1. failures[n + 1] = wrong[(W - F) + (n + 1)]  BY <1>7, <2>1
    <3>2. failures[n + 1] + Window > now  BY <1>3, <2>1
    <3>3. QED  BY <3>1, <3>2
  <2>3. wrong[(W - F) + (n + 1)] <= wrong[i]  BY <2>1 DEF Deque
  <2>4. wrong[i] \in Nat /\ wrong[(W - F) + (n + 1)] \in Nat  BY <1>2, <2>1
  <2>5. QED  BY SMTT(30), <2>2, <2>3, <2>4, LimitNumbers
<1>10. Deque'
  <2>1. \A i, j \in 1 .. W + 1 : i <= j => wrong'[i] <= wrong'[j]
    BY <1>2, <1>6 DEF Deque
  <2>2. \A i \in 1 .. W + 1 : wrong'[i] <= now
    BY <1>2, <1>6 DEF Deque
  <2>3. \A i \in 1 .. (F - n) + 1 : failures'[i] = wrong'[((W + 1) - ((F - n) + 1)) + i]
    <3> SUFFICES ASSUME NEW i \in 1 .. (F - n) + 1
                 PROVE  failures'[i] = wrong'[((W + 1) - ((F - n) + 1)) + i]
      OBVIOUS
    <3>1. CASE i = (F - n) + 1
      <4>1. ((W + 1) - ((F - n) + 1)) + i = W + 1  BY <1>2, <1>3, <3>1
      <4>2. QED  BY <1>5, <1>6, <3>1, <4>1
    <3>2. CASE i \in 1 .. F - n
      <4>1. /\ ((W + 1) - ((F - n) + 1)) + i = (W - F) + (n + i)
            /\ n + i \in 1 .. F /\ (W - F) + (n + i) \in 1 .. W
        BY <1>2, <1>3, <3>2
      <4>2. failures'[i] = failures[n + i]  BY <1>5, <3>2
      <4>3. failures[n + i] = wrong[(W - F) + (n + i)]  BY <1>7, <4>1
      <4>4. wrong'[(W - F) + (n + i)] = wrong[(W - F) + (n + i)]  BY <1>6, <4>1
      <4>5. QED  BY <4>1, <4>2, <4>3, <4>4
    <3>3. i = (F - n) + 1 \/ i \in 1 .. F - n
      <4>1. F - n \in Nat  BY <1>2
      <4>2. QED  BY <4>1
    <3>4. QED  BY <3>1, <3>2, <3>3
  <2>4. \A i \in 1 .. ((W + 1) - ((F - n) + 1)) : wrong'[i] + Window <= now
    BY SMTT(30), <1>2, <1>3, <1>6, <1>8
  <2>5. lockedUntil' \in Nat \cup {Nothing}  BY DEF Deque
  <2>6. (F - n) + 1 <= W + 1  BY <1>2, <1>3
  <2>7. QED  BY <1>5, <1>6, <2>1, <2>2, <2>3, <2>4, <2>5, <2>6 DEF Deque
<1>11. Len(failures') >= MaxFailures <=> Locks(Len(wrong))'
  <2>1. Locks(Len(wrong))' <=> W + 1 >= MaxFailures /\ now < wrong'[((W + 1) + 1) - MaxFailures] + Window
    BY <1>2, <1>6, LimitNumbers DEF Locks
  <2>2. CASE (F - n) + 1 >= MaxFailures
    <3>1. W + 1 >= MaxFailures  BY <1>2, <1>3, <2>2, LimitNumbers
    <3>2. CASE MaxFailures = 1
      BY <1>2, <1>5, <1>6, <2>1, <2>2, <3>1, <3>2, LimitNumbers
    <3>3. CASE MaxFailures > 1
      <4>1. /\ ((W + 1) + 1) - MaxFailures \in 1 .. W
            /\ ((W + 1) + 1) - MaxFailures > (W - F) + n
        BY <1>2, <1>3, <2>2, <3>3, LimitNumbers
      <4>2. wrong[((W + 1) + 1) - MaxFailures] + Window > now  BY <1>9, <4>1
      <4>3. wrong'[((W + 1) + 1) - MaxFailures] = wrong[((W + 1) + 1) - MaxFailures]  BY <1>6, <4>1
      <4>4. now < wrong'[((W + 1) + 1) - MaxFailures] + Window
        BY <1>1, <4>1, <4>2, <4>3, LimitNumbers
      <4>5. QED  BY <1>5, <2>1, <2>2, <3>1, <4>4
    <3>4. QED  BY <3>2, <3>3, LimitNumbers
  <2>3. CASE ~((F - n) + 1 >= MaxFailures) /\ W + 1 >= MaxFailures
    <3>1. /\ ((W + 1) + 1) - MaxFailures \in 1 .. W
          /\ ((W + 1) + 1) - MaxFailures \in 1 .. (W - F) + n
      BY <1>2, <1>3, <2>3, LimitNumbers
    <3>2. wrong[((W + 1) + 1) - MaxFailures] + Window <= now  BY <1>8, <3>1
    <3>3. wrong[((W + 1) + 1) - MaxFailures] \in Nat  BY <1>2, <3>1
    <3>4. wrong'[((W + 1) + 1) - MaxFailures] = wrong[((W + 1) + 1) - MaxFailures]  BY <1>6, <3>1
    <3>5. ~(now < wrong'[((W + 1) + 1) - MaxFailures] + Window)
      BY <3>2, <3>3, <3>4, LimitNumbers
    <3>6. QED  BY <1>5, <2>1, <2>3, <3>5
  <2>4. QED  BY <1>5, <2>1, <2>2, <2>3
<1>12. \A i \in 1 .. Len(wrong) : Locks(i)' <=> Locks(i)
  <2> SUFFICES ASSUME NEW i \in 1 .. W PROVE Locks(i)' <=> Locks(i)
    OBVIOUS
  <2>1. i >= MaxFailures => (i + 1) - MaxFailures \in 1 .. W
    BY <1>2, LimitNumbers
  <2>2. QED  BY <1>2, <1>6, <2>1, LimitNumbers DEF Locks
<1>13. QED  BY <1>6, <1>10, <1>11, <1>12

\* A login is received: it is the only one, or the history ends.
LEMMA ReceiveInTurn ==
    ASSUME InTurn, NEW c \in Clients, ReceiveLogin(c), Inv
    PROVE  InTurn'
<1> SUFFICES ASSUME wrong' # Mixed PROVE InTurn'
  BY DEF InTurn
<1>1. /\ wrong # Mixed /\ \A d \in Clients : ~InFlight(d)
      /\ UNCHANGED <<now, failures, lockedUntil, wrong>>
      /\ \E l \in {"limit", "create"} : At(c, l)
  BY DEF ReceiveLogin
<1>2. /\ login'[c].at \in {"limit", "create"}
      /\ \A d \in Clients \ {c} : login'[d] = login[d]
  BY <1>1 DEF At, Inv, Types
<1>3. Deque'
  BY <1>1 DEF InTurn, Deque
<1>4. Lock'
  BY <1>1 DEF InTurn, Lock, Locks, InFlight
<1>5. \A d \in Clients : Phase(d)'
  BY <1>1, <1>2 DEF InTurn, Phase, InFlight
<1>6. \A d, e \in Clients : InFlight(d)' /\ InFlight(e)' => d = e
  BY <1>1, <1>2 DEF InFlight
<1>7. QED  BY <1>3, <1>4, <1>5, <1>6 DEF InTurn

\* What a login that asked is_limited goes on to.
LEMMA Answer ==
    ASSUME Types, NEW c \in Clients, IsLimited(c)
    PROVE  /\ lockedUntil = Nothing => login'[c].at = "verify"
           /\ lockedUntil # Nothing /\ Locked => login'[c].at = "refuse"
           /\ lockedUntil # Nothing /\ ~Locked => login'[c].at = "unlock"
<1>1. login'[c].at = CASE lockedUntil = Nothing -> "verify" [] Locked -> "refuse" [] OTHER -> "unlock"
  BY DEF IsLimited, At, Types
<1>2. CASE lockedUntil = Nothing  BY <1>1, <1>2 DEF Locked
<1>3. CASE lockedUntil # Nothing /\ Locked  BY <1>1, <1>3
<1>4. CASE lockedUntil # Nothing /\ ~Locked  BY <1>1, <1>4
<1>5. QED  BY <1>2, <1>3, <1>4

LEMMA LimitInTurn ==
    ASSUME InTurn, NEW c \in Clients, Inv,
           IsLimited(c) \/ Verify(c) \/ ArchiveRefusal(c) \/ Create(c) \/ ArchiveLogin(c)
    PROVE  InTurn'
<1>1. /\ UNCHANGED <<now, limiter>> /\ login[c].at # "lock" /\ InFlight(c)
      /\ login[c].at = "limit" \/ login[c].at = "verify" \/ login[c].at \in {"refuse", "create", "log"}
  BY DEF IsLimited, Verify, ArchiveRefusal, Create, ArchiveLogin, InFlight
<1>2. \A d \in Clients \ {c} : login'[d] = login[d]
  BY DEF IsLimited, Verify, ArchiveRefusal, Create, ArchiveLogin, At, Inv, Types
<1>3. login'[c].at # "lock" /\ (wrong # Mixed => Phase(c)')
  <2>1. CASE Verify(c)
    BY <2>1 DEF Verify, At, Inv, Types, InTurn, Phase, limiter
  <2>2. CASE IsLimited(c)
    <3>1. /\ lockedUntil = Nothing => login'[c].at = "verify"
          /\ lockedUntil # Nothing /\ Locked => login'[c].at = "refuse"
          /\ lockedUntil # Nothing /\ ~Locked => login'[c].at = "unlock"
      BY <2>2, Answer DEF Inv
    <3>2. wrong # Mixed => lockedUntil \in Nat \cup {Nothing}
      BY DEF InTurn, Deque
    <3>3. now \in Nat  BY DEF Inv, Types
    <3>4. CASE lockedUntil = Nothing
      BY <1>1, <3>1, <3>4 DEF Phase, limiter
    <3>5. CASE lockedUntil # Nothing /\ Locked
      BY <3>1, <3>5 DEF Phase
    <3>6. CASE lockedUntil # Nothing /\ ~Locked
      BY <1>1, <3>1, <3>2, <3>3, <3>6 DEF Phase, limiter, Locked
    <3>7. QED  BY <3>4, <3>5, <3>6
  <2>3. CASE ArchiveRefusal(c) \/ Create(c) \/ ArchiveLogin(c)
    <3>1. login'[c].at \in {"idle", "log", "in", "lost"}
      BY <2>3 DEF ArchiveRefusal, Create, ArchiveLogin, At, Inv, Types, NoLogin
    <3>2. QED  BY <3>1 DEF Phase
  <2>4. QED  BY <2>1, <2>2, <2>3
<1>4. QED  BY <1>1, <1>2, <1>3, MoveOn

\* When a lock is over, all that it was set for is older than the window.
LEMMA UnlockInTurn ==
    ASSUME InTurn, NEW c \in Clients, Unlock(c), Inv
    PROVE  InTurn'
<1> SUFFICES ASSUME wrong # Mixed PROVE InTurn'
  BY DEF InTurn, Unlock
<1>1. /\ login[c].at = "unlock" /\ lockedUntil' = Nothing /\ failures' = <<>>
      /\ UNCHANGED <<now, wrong>> /\ At(c, "verify") /\ InFlight(c)
  BY DEF Unlock, InFlight
<1>2. /\ login'[c].at = "verify" /\ \A d \in Clients \ {c} : login'[d] = login[d]
      /\ now \in Nat
  BY <1>1 DEF At, Inv, Types
<1>3. /\ lockedUntil # Nothing /\ lockedUntil <= now
      /\ Locks(Len(wrong)) /\ lockedUntil = wrong[Len(wrong)] + LockFor
  BY <1>1 DEF InTurn, Phase, Lock
<1>4. \A i \in 1 .. Len(wrong) : wrong[i] + LockFor <= now /\ wrong[i] + Window <= now
  <2> SUFFICES ASSUME NEW i \in 1 .. Len(wrong)
               PROVE  wrong[i] + LockFor <= now /\ wrong[i] + Window <= now
    OBVIOUS
  <2>1. wrong[i] \in Nat /\ wrong[Len(wrong)] \in Nat /\ wrong[i] <= wrong[Len(wrong)]
    BY DEF InTurn, Deque
  <2>2. QED  BY <1>2, <1>3, <2>1, LimitNumbers
<1>5. \A d \in Clients : d # c => ~InFlight(d) /\ ~InFlight(d)'
  BY <1>1, <1>2 DEF InTurn, InFlight
<1>6. Deque'
  BY <1>1, <1>4 DEF InTurn, Deque
<1>7. Lock'
  BY <1>1, <1>4 DEF Lock, Locks
<1>8. \A d \in Clients : Phase(d)'
  BY <1>1, <1>2, <1>5 DEF Phase, InFlight
<1>9. QED  BY <1>5, <1>6, <1>7, <1>8 DEF InTurn

LEMMA FailureInTurn ==
    ASSUME InTurn, NEW c \in Clients, RecordFailure(c), Inv
    PROVE  InTurn'
<1> SUFFICES ASSUME wrong # Mixed PROVE InTurn'
  BY DEF InTurn, RecordFailure
<1>1. /\ login[c].at = "fail" /\ failures' = Append(Recent, now) /\ wrong' = Append(wrong, now)
      /\ UNCHANGED <<now, lockedUntil>> /\ InFlight(c)
      /\ login' = [login EXCEPT ![c].at = IF Len(failures') >= MaxFailures THEN "lock" ELSE "refuse",
                                ![c].time = now]
  BY DEF RecordFailure, InFlight
<1>2. /\ login'[c].at = (IF Len(failures') >= MaxFailures THEN "lock" ELSE "refuse")
      /\ login'[c].time = now
      /\ \A d \in Clients \ {c} : login'[d] = login[d]
      /\ now \in Nat
  BY <1>1 DEF Inv, Types
<1>3. Deque /\ Lock /\ Phase(c) /\ lockedUntil = Nothing
  BY <1>1 DEF InTurn, Phase
<1>4. /\ Deque'
      /\ Len(failures') >= MaxFailures <=> Locks(Len(wrong))'
      /\ \A i \in 1 .. Len(wrong) : Locks(i)' <=> Locks(i)
      /\ Len(wrong') = Len(wrong) + 1 /\ wrong'[Len(wrong')] = now
      /\ \A i \in 1 .. Len(wrong) : wrong'[i] = wrong[i]
  BY <1>1, <1>2, <1>3, DequeGrows
<1>5. \A d \in Clients : d # c => ~InFlight(d) /\ ~InFlight(d)'
  BY <1>1, <1>2 DEF InTurn, InFlight
<1>6. Lock'
  <2>1. lockedUntil' = Nothing  BY <1>1, <1>3
  <2>2. \A i \in 1 .. Len(wrong) : Locks(i)' => wrong'[i] + LockFor <= now
    BY <1>1, <1>3, <1>4, <1>5 DEF Lock, InFlight
  <2>3. Locks(Len(wrong))' => login'[c].at = "lock"
    BY <1>2, <1>4
  <2>4. Len(wrong) \in Nat  BY <1>3 DEF Deque
  <2>5. ASSUME NEW i \in 1 .. Len(wrong'), Locks(i)'
        PROVE  \/ wrong'[i] + LockFor <= now
               \/ i = Len(wrong') /\ login'[c].at = "lock"
    <3>1. CASE i \in 1 .. Len(wrong)
      BY <2>2, <2>5, <3>1
    <3>2. CASE i = Len(wrong')
      BY <2>3, <2>5, <3>2 DEF Locks
    <3>3. QED  BY <1>4, <2>4, <3>1, <3>2
  <2>6. QED  BY <1>1, <2>1, <2>5 DEF Lock
<1>7. \A d \in Clients : Phase(d)'
  <2>1. login'[c].at = "lock" => Locks(Len(wrong))' /\ login'[c].time = wrong'[Len(wrong')]
    BY <1>2, <1>4
  <2>2. Phase(c)'
    BY <1>1, <1>2, <1>3, <2>1 DEF Phase
  <2>3. \A d \in Clients \ {c} : Phase(d)'
    BY <1>5 DEF Phase, InFlight
  <2>4. QED  BY <2>2, <2>3
<1>8. QED  BY <1>4, <1>5, <1>6, <1>7 DEF InTurn

LEMMA LockInTurn ==
    ASSUME InTurn, NEW c \in Clients, SetLock(c), Inv
    PROVE  InTurn'
<1> SUFFICES ASSUME wrong # Mixed PROVE InTurn'
  BY DEF InTurn, SetLock
<1>1. /\ login[c].at = "lock" /\ lockedUntil' = login[c].time + LockFor
      /\ UNCHANGED <<now, failures, wrong>> /\ At(c, "refuse") /\ InFlight(c)
  BY DEF SetLock, InFlight
<1>2. /\ login'[c].at = "refuse" /\ \A d \in Clients \ {c} : login'[d] = login[d]
  BY <1>1 DEF At, Inv, Types
<1>3. Deque /\ Locks(Len(wrong)) /\ login[c].time = wrong[Len(wrong)]
  BY <1>1 DEF InTurn, Phase
<1>4. \A d \in Clients : d # c => ~InFlight(d) /\ ~InFlight(d)'
  BY <1>1, <1>2 DEF InTurn, InFlight
<1>5. /\ Len(wrong) \in 1 .. Len(wrong)
      /\ \A i \in 1 .. Len(wrong) : wrong[i] \in Nat /\ wrong[i] <= wrong[Len(wrong)]
  BY <1>3, LimitNumbers DEF Deque, Locks
<1>6. lockedUntil' \in Nat /\ lockedUntil' = wrong[Len(wrong)] + LockFor /\ lockedUntil' # Nothing
  BY <1>1, <1>3, <1>5, LimitNumbers
<1>7. Deque'
  BY <1>1, <1>3, <1>6 DEF Deque
<1>8. Lock'
  <2>1. \A i \in 1 .. Len(wrong) : wrong'[i] + LockFor <= lockedUntil'
    BY <1>1, <1>5, <1>6, LimitNumbers
  <2>2. Locks(Len(wrong))'  BY <1>1, <1>3 DEF Locks
  <2>3. QED  BY <1>1, <1>6, <2>1, <2>2 DEF Lock
<1>9. \A d \in Clients : Phase(d)'
  BY <1>2, <1>4 DEF Phase, InFlight
<1>10. QED  BY <1>4, <1>7, <1>8, <1>9 DEF InTurn

LEMMA ResetInTurn ==
    ASSUME InTurn, NEW c \in Clients, Reset(c), Inv
    PROVE  InTurn'
<1> SUFFICES ASSUME wrong # Mixed PROVE InTurn'
  BY DEF InTurn, Reset
<1>1. /\ wrong' = <<>> /\ failures' = <<>> /\ lockedUntil' = Nothing /\ InFlight(c) /\ At(c, "create")
  BY DEF Reset, InFlight
<1>2. /\ login'[c].at = "create" /\ \A d \in Clients \ {c} : login'[d] = login[d]
  BY <1>1 DEF At, Inv, Types
<1>3. \A d \in Clients : d # c => ~InFlight(d) /\ ~InFlight(d)'
  BY <1>1, <1>2 DEF InTurn, InFlight
<1>4. Deque' /\ Lock'
  BY <1>1, LimitNumbers DEF Deque, Lock, Locks
<1>5. \A d \in Clients : Phase(d)'
  BY <1>2, <1>3 DEF Phase, InFlight
<1>6. QED  BY <1>3, <1>4, <1>5 DEF InTurn

LEMMA StopInTurn ==
    ASSUME Stop, Inv
    PROVE  InTurn'
<1>1. /\ wrong' = <<>> /\ failures' = <<>> /\ lockedUntil' = Nothing
      /\ login' = [c \in Clients |-> CASE login[c].at = "log" -> [login[c] EXCEPT !.at = "lost"]
                                      [] login[c].at # "log" /\ InFlight(c) -> NoLogin
                                      [] OTHER -> login[c]]
  BY DEF Stop
<1>2. ASSUME NEW c \in Clients PROVE login'[c].at \in {"idle", "in", "lost"}
  <2>1. CASE login[c].at = "log"
    BY <1>1, <2>1 DEF Inv, Types
  <2>2. CASE login[c].at # "log" /\ InFlight(c)
    BY <1>1, <2>2 DEF NoLogin
  <2>3. CASE login[c].at # "log" /\ ~InFlight(c)
    BY <1>1, <2>3 DEF InFlight
  <2>4. QED  BY <2>1, <2>2, <2>3
<1>3. Deque' /\ Lock'
  BY <1>1, LimitNumbers DEF Deque, Lock, Locks
<1>4. \A c \in Clients : Phase(c)' /\ ~InFlight(c)'
  BY <1>2 DEF Phase, InFlight
<1>5. QED  BY <1>3, <1>4 DEF InTurn

\* A step of the service, whatever it is started with.
ServiceStep == Running \/ \E loaded : Start(loaded)

\* The turns of the logins through every step of the service.
LEMMA TurnSteps == Inv /\ InTurn /\ (ServiceStep \/ UNCHANGED vars) => InTurn'
<1> SUFFICES ASSUME Inv, InTurn, ServiceStep \/ UNCHANGED vars PROVE InTurn'
  OBVIOUS
<1>1. now \in Nat  BY DEF Inv, Types
<1>2. CASE \/ \E c \in Clients : Revoke(c) \/ ArchiveLogout(c) \/ Lookup(c)
           \/ StartSweep \/ LoopStep \/ Tick \/ (\E loaded : Start(loaded)) \/ UNCHANGED vars
  <2>1. UNCHANGED <<login, limiter>>
    <3>1. CASE Validate \/ SweepOne
      BY <3>1 DEF Validate, SweepOne
    <3>2. CASE EndSweep \/ ArchiveExpired
      BY <3>2 DEF EndSweep, ArchiveExpired
    <3>3. CASE \E c \in Clients : Revoke(c) \/ ArchiveLogout(c) \/ Lookup(c)
      BY <3>3 DEF Revoke, ArchiveLogout, Lookup
    <3>4. CASE StartSweep \/ Tick \/ (\E loaded : Start(loaded)) \/ UNCHANGED vars
      BY <3>4 DEF StartSweep, Tick, Start, vars
    <3>5. QED  BY <1>2, <3>1, <3>2, <3>3, <3>4 DEF LoopStep
  <2>2. now' \in Nat /\ now <= now'
    <3>1. CASE Tick
      BY <1>1, <3>1 DEF Tick
    <3>2. CASE Validate \/ SweepOne
      <4>1. now' = now  BY <3>2 DEF Validate, SweepOne
      <4>2. QED  BY <1>1, <4>1
    <3>3. CASE EndSweep \/ ArchiveExpired
      BY <1>1, <3>3 DEF EndSweep, ArchiveExpired
    <3>4. CASE \E c \in Clients : Revoke(c) \/ ArchiveLogout(c) \/ Lookup(c)
      BY <1>1, <3>4 DEF Revoke, ArchiveLogout, Lookup
    <3>5. CASE StartSweep \/ (\E loaded : Start(loaded)) \/ UNCHANGED vars
      BY <1>1, <3>5 DEF StartSweep, Start, vars
    <3>6. QED  BY <1>2, <3>1, <3>2, <3>3, <3>4, <3>5 DEF LoopStep
  <2>3. QED  BY <1>1, <2>1, <2>2, QuietTurn
<1>3. QED
  BY <1>2, ReceiveInTurn, LimitInTurn, UnlockInTurn, FailureInTurn, LockInTurn, ResetInTurn, StopInTurn
  DEF ServiceStep, Running, LoginStep

\* What the limiter answers is what the definition says.
LEMMA LockedIsLocked == Inv /\ InTurn /\ wrong # Mixed =>
    \A c \in Clients : login[c].at = "limit" => (lockedUntil # Nothing /\ Locked <=> LockedByDefinition)
<1> SUFFICES ASSUME Inv, InTurn, wrong # Mixed, NEW c \in Clients, login[c].at = "limit"
             PROVE  lockedUntil # Nothing /\ Locked <=> LockedByDefinition
  OBVIOUS
<1>1. /\ Deque /\ Lock /\ now \in Nat /\ \A d \in Clients : login[d].at # "lock"
      /\ lockedUntil \in Nat \cup {Nothing}
  BY DEF Inv, Types, InTurn, InFlight, Deque
<1>2. /\ Len(wrong) \in Nat /\ \A i \in 1 .. Len(wrong) : wrong[i] \in Nat
      /\ \A i \in MaxFailures .. Len(wrong) : i \in 1 .. Len(wrong)
  BY <1>1, LimitNumbers DEF Deque
<1>3. ASSUME lockedUntil # Nothing, Locked PROVE LockedByDefinition
  <2>1. Locks(Len(wrong)) /\ now < wrong[Len(wrong)] + LockFor
    BY <1>1, <1>2, <1>3 DEF Lock, Locked
  <2>2. QED  BY <2>1 DEF LockedByDefinition, Locks
<1>4. ASSUME LockedByDefinition PROVE lockedUntil # Nothing /\ Locked
  <2>1. PICK i \in MaxFailures .. Len(wrong) : Locks(i) /\ now < wrong[i] + LockFor
    BY <1>4 DEF LockedByDefinition, Locks
  <2>2. i \in 1 .. Len(wrong)  BY <1>2
  <2>3. lockedUntil # Nothing /\ wrong[i] + LockFor <= lockedUntil
    BY <1>1, <1>2, <2>1, <2>2, LimitNumbers DEF Lock
  <2>4. QED  BY <1>1, <1>2, <2>1, <2>2, <2>3, LimitNumbers DEF Locked
<1>5. QED  BY <1>3, <1>4

Exact ==
    \A c \in Clients :
        login[c].at = "limit" /\ login'[c].at # "limit" /\ active' # Down /\ wrong # Mixed =>
            (login'[c].at = "refuse" <=> LockedByDefinition)

LEMMA LockoutSteps == Inv /\ InTurn /\ (ServiceStep \/ UNCHANGED vars) => [Exact]_vars
<1> SUFFICES ASSUME Inv, InTurn, ServiceStep,
                    NEW c \in Clients, login[c].at = "limit", login'[c].at # "limit",
                    active' # Down, wrong # Mixed
             PROVE  login'[c].at = "refuse" <=> LockedByDefinition
  BY DEF Exact
<1>1. IsLimited(c)
  <2>1. CASE \E d \in Clients : ReceiveLogin(d) \/ LoginStep(d)
    <3>1. PICK d \in Clients : ReceiveLogin(d) \/ LoginStep(d)  BY <2>1
    <3>2. d # c => login'[c] = login[c]
      BY <3>1 DEF ReceiveLogin, LoginStep, IsLimited, Unlock, Verify, RecordFailure, SetLock,
                  ArchiveRefusal, Reset, Create, ArchiveLogin, At, Inv, Types
    <3>3. d = c  BY <3>2
    <3>4. QED
      BY <3>1, <3>3 DEF ReceiveLogin, LoginStep, Unlock, Verify, RecordFailure, SetLock,
                        ArchiveRefusal, Reset, Create, ArchiveLogin
  <2>2. ~Stop  BY DEF Stop
  <2>3. CASE \/ \E d \in Clients : Revoke(d) \/ ArchiveLogout(d) \/ Lookup(d)
             \/ StartSweep \/ LoopStep \/ Tick \/ \E loaded : Start(loaded)
    <3>1. UNCHANGED login
      BY <2>3 DEF Revoke, ArchiveLogout, Lookup, StartSweep, LoopStep, Validate, SweepOne, EndSweep,
                  ArchiveExpired, Tick, Start
    <3>2. QED  BY <3>1
  <2>4. QED  BY <2>1, <2>2, <2>3 DEF ServiceStep, Running
<1>2. login'[c].at = "refuse" <=> lockedUntil # Nothing /\ Locked
  BY <1>1, Answer DEF Inv
<1>3. QED  BY <1>2, LockedIsLocked

\* Logins that come one after the other are refused exactly while a lock of the
\* definition is in force, with any thresholds and whatever the sweep, the other requests
\* and the clock do between their steps (service/auth/ratelimit.py:16-38).
THEOREM LockoutsAreExact == Spec => LockoutIsExact
<1>1. Init => Inv /\ InTurn  BY Begins, TurnBegins
<1>2. Next => ServiceStep  BY DEF Next, ServiceStep
<1>3. Inv /\ InTurn /\ [Next]_vars => Inv' /\ InTurn' /\ [Exact]_vars
  BY <1>2, Steps, TurnSteps, LockoutSteps
<1>4. QED  BY <1>1, <1>3, PTL DEF Spec, LockoutIsExact, Exact

-----------------------------------------------------------------------------
(* The credentials file. *)

Owns(c) == command[c].at \in {"write", "rename"} => tmp[Pid(c)] = c
Wrote(c) == command[c].at = "rename" => c \in written
Made(c) == command[c].at \in {"sync", "clean_up", "log", "exit_0"} => c \in changed

AdminInv ==
    /\ AdminTypeOK
    /\ \A c, d \in Commands : Live(c) /\ Live(d) /\ c # d => Pid(c) # Pid(d)
    /\ \A c \in Commands : (Live(c) => Pid(c) \in Pids) /\ Owns(c) /\ Wrote(c) /\ Made(c)
    /\ FileIsWhole
    /\ SuccessIsRecorded

LEMMA AdminBegins == AdminInit => AdminInv
  BY DocumentsAssumption
  DEF AdminInit, AdminInv, AdminTypeOK, Owns, Wrote, Made, FileIsWhole, SuccessIsRecorded, Documents,
      NoCommand, Live, Ended, Loads, Pid

\* What a step of command c to label l leaves of the commands.
LEMMA Going ==
    ASSUME AdminInv, NEW c \in Commands, NEW l, Live(c), Goto(c, l),
           l \in Ended \cup {"check", "open", "write", "rename", "sync", "clean", "clean_up",
                             "rename_away", "log"}
    PROVE  /\ command' \in [Commands -> [at : Ended \cup {"idle", "check", "open", "write", "rename",
                                                       "sync", "clean", "clean_up", "rename_away", "log"},
                                        kind : {"init", "force", "reset", "remove"},
                                        pid : Pids \cup {NoFile}]]
           /\ command'[c].at = l
           /\ \A d \in Commands : Pid(d)' = Pid(d) /\ (Live(d)' => Live(d))
           /\ \A d \in Commands \ {c} : command'[d] = command[d]
           /\ \A d \in Commands \ {c} : command[d].at \in {"write", "rename"} => Pid(d) # Pid(c)
           /\ Pid(c) \in Pids
<1>1. command'[c].at = l /\ \A d \in Commands \ {c} : command'[d] = command[d]
  BY DEF Goto, AdminInv, AdminTypeOK
<1>2. \A d \in Commands : Pid(d)' = Pid(d) /\ (Live(d)' => Live(d))
  BY <1>1 DEF Goto, AdminInv, AdminTypeOK, Pid, Live
<1>3. \A d \in Commands : command[d].at \in {"write", "rename"} => Live(d)
  BY DEF Live, Ended
<1>4. QED
  BY <1>1, <1>2, <1>3 DEF Goto, AdminInv, AdminTypeOK

\* A step that leaves the files as they are.
LEMMA Quiet ==
    ASSUME AdminInv, NEW c \in Commands, NEW l, Live(c), Goto(c, l),
           l \in Ended \cup {"check", "open", "rename", "sync", "clean", "clean_up",
                             "rename_away", "log"},
           UNCHANGED <<file, tmp, written, changed, audited>>,
           l # "rename",
           l \in {"clean_up", "log", "exit_0"} => command[c].at \in {"sync", "clean_up", "log"},
           l = "sync" => c \in changed,
           l = "exit_0" => c \in audited
    PROVE  AdminInv'
<1>1. /\ command'[c].at = l
      /\ \A d \in Commands : Pid(d)' = Pid(d) /\ (Live(d)' => Live(d))
      /\ \A d \in Commands \ {c} : command'[d] = command[d]
  BY Going
<1>2. AdminTypeOK'  BY Going DEF AdminInv, AdminTypeOK, Documents
<1>3. \A d \in Commands : Owns(d)' /\ Wrote(d)' /\ Made(d)'
  BY <1>1 DEF AdminInv, Owns, Wrote, Made, Ended
<1>4. FileIsWhole'  BY DEF AdminInv, FileIsWhole, Loads, Documents
<1>5. SuccessIsRecorded'  BY <1>1 DEF AdminInv, SuccessIsRecorded
<1>6. QED  BY <1>1, <1>2, <1>3, <1>4, <1>5 DEF AdminInv

LEMMA BeginKeeps ==
    ASSUME AdminInv, NEW c \in Commands, Begin(c)
    PROVE  AdminInv'
<1>1. PICK kind \in {"init", "force", "reset", "remove"},
           p \in Pids \ {Pid(d) : d \in {e \in Commands : Live(e)}} :
        command' = [command EXCEPT ![c] = [at |-> FirstOf(kind), kind |-> kind, pid |-> p]]
  BY DEF Begin
<1>2. FirstOf(kind) \in {"check", "exit_1", "exit_2", "rename_away"}  BY DEF FirstOf
<1>3. /\ command'[c] = [at |-> FirstOf(kind), kind |-> kind, pid |-> p]
      /\ \A d \in Commands \ {c} : command'[d] = command[d]
  BY <1>1 DEF AdminInv, AdminTypeOK
<1>4. AdminTypeOK'
  BY <1>1, <1>2 DEF AdminInv, AdminTypeOK, Begin, Ended, Documents
<1>5. \A d \in Commands \ {c} : (Live(d)' <=> Live(d)) /\ Pid(d)' = Pid(d) /\ (Live(d) => Pid(d) # p)
  BY <1>1, <1>3 DEF Live, Pid
<1>6. Pid(c)' = p  BY <1>3 DEF Pid
<1>7. \A d, e \in Commands : Live(d)' /\ Live(e)' /\ d # e => Pid(d)' # Pid(e)'
  BY <1>5, <1>6 DEF AdminInv
<1>8. \A d \in Commands : (Live(d)' => Pid(d)' \in Pids) /\ Owns(d)' /\ Wrote(d)' /\ Made(d)'
  BY <1>2, <1>3, <1>5, <1>6 DEF AdminInv, Owns, Wrote, Made, Begin, Ended
<1>9. FileIsWhole' /\ SuccessIsRecorded'
  BY <1>2, <1>3 DEF AdminInv, Begin, FileIsWhole, Loads, Documents, SuccessIsRecorded
<1>10. QED  BY <1>4, <1>7, <1>8, <1>9 DEF AdminInv

LEMMA OpenKeeps ==
    ASSUME AdminInv, NEW c \in Commands, Open(c)
    PROVE  AdminInv'
<1>1. Live(c) /\ UNCHANGED <<file, written, changed, audited>>  BY DEF Open, Live, Ended
<1>2. CASE tmp' = [tmp EXCEPT ![Pid(c)] = c] /\ Goto(c, "write") /\ tmp[Pid(c)] = NoFile
  <2>1. /\ command'[c].at = "write" /\ Pid(c) \in Pids
        /\ \A d \in Commands : Pid(d)' = Pid(d) /\ (Live(d)' => Live(d))
        /\ \A d \in Commands \ {c} : command'[d] = command[d]
        /\ \A d \in Commands \ {c} : command[d].at \in {"write", "rename"} => Pid(d) # Pid(c)
    BY <1>1, <1>2, Going DEF Ended
  <2>2. AdminTypeOK'  BY <1>1, <1>2, Going DEF AdminInv, AdminTypeOK, Documents
  <2>3. \A d \in Commands : Owns(d)' /\ Wrote(d)' /\ Made(d)'
    BY <1>1, <1>2, <2>1 DEF AdminInv, AdminTypeOK, Owns, Wrote, Made
  <2>4. FileIsWhole' /\ SuccessIsRecorded'
    BY <1>1, <2>1 DEF AdminInv, FileIsWhole, Loads, Documents, SuccessIsRecorded
  <2>5. QED  BY <1>1, <2>1, <2>2, <2>3, <2>4 DEF AdminInv
<1>3. CASE UNCHANGED tmp /\ Goto(c, "clean")
  BY <1>1, <1>3, Quiet
<1>4. QED  BY <1>2, <1>3 DEF Open

LEMMA WriteKeeps ==
    ASSUME AdminInv, NEW c \in Commands, WriteTmp(c)
    PROVE  AdminInv'
<1>1. Live(c) /\ command[c].at = "write" /\ UNCHANGED <<file, tmp, changed, audited>>
  BY DEF WriteTmp, Live, Ended
<1>2. CASE written' = written \cup {c} /\ Goto(c, "rename")
  <2>1. /\ command'[c].at = "rename"
        /\ \A d \in Commands : Pid(d)' = Pid(d) /\ (Live(d)' => Live(d))
        /\ \A d \in Commands \ {c} : command'[d] = command[d]
    BY <1>1, <1>2, Going DEF Ended
  <2>2. AdminTypeOK'  BY <1>1, <1>2, Going DEF AdminInv, AdminTypeOK, Documents
  <2>3. \A d \in Commands : Owns(d)' /\ Wrote(d)' /\ Made(d)'
    BY <1>1, <1>2, <2>1 DEF AdminInv, Owns, Wrote, Made
  <2>4. FileIsWhole' /\ SuccessIsRecorded'
    BY <1>1, <1>2, <2>1 DEF AdminInv, FileIsWhole, Loads, Documents, SuccessIsRecorded
  <2>5. QED  BY <2>1, <2>2, <2>3, <2>4 DEF AdminInv
<1>3. CASE UNCHANGED written /\ Goto(c, "clean")
  BY <1>1, <1>3, Quiet
<1>4. QED  BY <1>2, <1>3 DEF WriteTmp

\* What is renamed is what the command wrote, whole.
LEMMA RenameKeeps ==
    ASSUME AdminInv, NEW c \in Commands, Rename(c)
    PROVE  AdminInv'
<1>1. /\ Live(c) /\ command[c].at = "rename" /\ Goto(c, "sync")
      /\ UNCHANGED <<written, audited>> /\ changed' = changed \cup {c}
      /\ tmp' = [tmp EXCEPT ![Pid(c)] = NoFile]
  BY DEF Rename, Live, Ended
<1>2. file' = c /\ c \in written  BY <1>1 DEF Rename, AdminInv, Owns, Wrote
<1>3. /\ command'[c].at = "sync"
      /\ \A d \in Commands : Pid(d)' = Pid(d) /\ (Live(d)' => Live(d))
      /\ \A d \in Commands \ {c} : command'[d] = command[d]
      /\ \A d \in Commands \ {c} : command[d].at \in {"write", "rename"} => Pid(d) # Pid(c)
  BY <1>1, Going DEF Ended
<1>4. AdminTypeOK'  BY <1>1, <1>2, Going DEF AdminInv, AdminTypeOK, Documents, Ended
<1>5. \A d \in Commands : Owns(d)' /\ Wrote(d)' /\ Made(d)'
  BY <1>1, <1>3 DEF AdminInv, AdminTypeOK, Owns, Wrote, Made
<1>6. FileIsWhole' /\ SuccessIsRecorded'
  BY <1>1, <1>2, <1>3 DEF AdminInv, FileIsWhole, Loads, Documents, SuccessIsRecorded
<1>7. QED  BY <1>3, <1>4, <1>5, <1>6 DEF AdminInv

LEMMA CleanKeeps ==
    ASSUME AdminInv, NEW c \in Commands, Clean(c)
    PROVE  AdminInv'
<1> DEFINE l == IF command[c].at = "clean" THEN "exit_2" ELSE "log"
<1>1. /\ Live(c) /\ command[c].at \in {"clean", "clean_up"} /\ Goto(c, l)
      /\ UNCHANGED <<file, written, changed, audited>>
      /\ tmp' = [tmp EXCEPT ![Pid(c)] = NoFile]
  BY DEF Clean, Live, Ended
<1>2. /\ command'[c].at = l
      /\ \A d \in Commands : Pid(d)' = Pid(d) /\ (Live(d)' => Live(d))
      /\ \A d \in Commands \ {c} : command'[d] = command[d]
      /\ \A d \in Commands \ {c} : command[d].at \in {"write", "rename"} => Pid(d) # Pid(c)
  BY <1>1, Going DEF Ended
<1>3. AdminTypeOK'  BY <1>1, Going DEF AdminInv, AdminTypeOK, Documents, Ended
<1>4. \A d \in Commands : Owns(d)' /\ Wrote(d)' /\ Made(d)'
  BY <1>1, <1>2 DEF AdminInv, AdminTypeOK, Owns, Wrote, Made
<1>5. FileIsWhole' /\ SuccessIsRecorded'
  BY <1>1, <1>2 DEF AdminInv, FileIsWhole, Loads, Documents, SuccessIsRecorded
<1>6. QED  BY <1>2, <1>3, <1>4, <1>5 DEF AdminInv

LEMMA RenameAwayKeeps ==
    ASSUME AdminInv, NEW c \in Commands, RenameAway(c)
    PROVE  AdminInv'
<1>1. /\ Live(c) /\ command[c].at = "rename_away" /\ UNCHANGED <<tmp, written, audited>>
  BY DEF RenameAway, Live, Ended
<1>2. CASE Goto(c, "exit_2") /\ UNCHANGED <<file, changed>>
  BY <1>1, <1>2, Quiet DEF Ended
<1>3. CASE file' = NoFile /\ changed' = changed \cup {c} /\ (Goto(c, "log") \/ Goto(c, "exit_2"))
  <2>1. PICK l \in {"log", "exit_2"} : Goto(c, l)  BY <1>3
  <2>2. /\ command'[c].at = l
        /\ \A d \in Commands : Pid(d)' = Pid(d) /\ (Live(d)' => Live(d))
        /\ \A d \in Commands \ {c} : command'[d] = command[d]
    BY <1>1, <2>1, Going DEF Ended
  <2>3. AdminTypeOK'  BY <1>1, <1>3, <2>1, Going DEF AdminInv, AdminTypeOK, Documents, Ended
  <2>4. \A d \in Commands : Owns(d)' /\ Wrote(d)' /\ Made(d)'
    BY <1>1, <1>3, <2>2 DEF AdminInv, Owns, Wrote, Made
  <2>5. FileIsWhole'  BY <1>3, DocumentsAssumption DEF FileIsWhole, Loads, Documents
  <2>6. SuccessIsRecorded'  BY <1>1, <1>3, <2>1, <2>2 DEF AdminInv, SuccessIsRecorded
  <2>7. QED  BY <2>2, <2>3, <2>4, <2>5, <2>6 DEF AdminInv
<1>4. QED  BY <1>2, <1>3 DEF RenameAway

LEMMA LogKeeps ==
    ASSUME AdminInv, NEW c \in Commands, Log(c)
    PROVE  AdminInv'
<1>1. Live(c) /\ command[c].at = "log" /\ UNCHANGED <<file, tmp, written, changed>>
  BY DEF Log, Live, Ended
<1>2. CASE audited' = audited \cup {c} /\ Goto(c, "exit_0")
  <2>1. /\ command'[c].at = "exit_0"
        /\ \A d \in Commands : Pid(d)' = Pid(d) /\ (Live(d)' => Live(d))
        /\ \A d \in Commands \ {c} : command'[d] = command[d]
    BY <1>1, <1>2, Going DEF Ended
  <2>2. AdminTypeOK'  BY <1>1, <1>2, Going DEF AdminInv, AdminTypeOK, Documents, Ended
  <2>3. \A d \in Commands : Owns(d)' /\ Wrote(d)' /\ Made(d)'
    BY <1>1, <2>1 DEF AdminInv, Owns, Wrote, Made
  <2>4. FileIsWhole' /\ SuccessIsRecorded'
    BY <1>1, <1>2, <2>1 DEF AdminInv, Made, FileIsWhole, Loads, Documents, SuccessIsRecorded
  <2>5. QED  BY <2>1, <2>2, <2>3, <2>4 DEF AdminInv
<1>3. CASE UNCHANGED audited /\ Goto(c, "exit_1")
  BY <1>1, <1>3, Quiet DEF Ended
<1>4. QED  BY <1>2, <1>3 DEF Log

LEMMA AdminSteps == AdminInv /\ [AdminNext]_adminVars => AdminInv'
<1> SUFFICES ASSUME AdminInv, [AdminNext]_adminVars PROVE AdminInv'
  OBVIOUS
<1>1. CASE UNCHANGED adminVars
  BY <1>1 DEF adminVars, AdminInv, AdminTypeOK, Live, Pid, Owns, Wrote, Made, FileIsWhole, Loads,
              SuccessIsRecorded
<1>2. ASSUME NEW c \in Commands, Begin(c) \/ CommandStep(c) PROVE AdminInv'
  <2>1. CASE Check(c)
    <3>1. Live(c)  BY <2>1 DEF Check, Live, Ended
    <3>2. PICK l \in {"exit_1", "exit_2", "open"} : Goto(c, l)  BY <2>1 DEF Check
    <3>3. QED  BY <2>1, <3>1, <3>2, Quiet DEF Check, Ended
  <2>2. CASE Sync(c)
    <3>1. Live(c)  BY <2>2 DEF Sync, Live, Ended
    <3>2. PICK l \in {"clean_up", "clean"} : Goto(c, l)  BY <2>2 DEF Sync
    <3>3. QED  BY <2>2, <3>1, <3>2, Quiet DEF Sync
  <2>3. CASE Kill(c)
    BY <2>3, Quiet DEF Kill, Ended
  <2>4. QED
    BY <1>2, <2>1, <2>2, <2>3, BeginKeeps, OpenKeeps, WriteKeeps, RenameKeeps, CleanKeeps,
       RenameAwayKeeps, LogKeeps DEF CommandStep
<1>3. QED  BY <1>1, <1>2 DEF AdminNext

LEMMA AdminHolds == AdminSpec => []AdminInv
<1>1. QED  BY AdminBegins, AdminSteps, PTL DEF AdminSpec

-----------------------------------------------------------------------------
(* What follows for the file. *)

\* The names lead to documents, temporary files to what a command wrote, and every
\* command is at a label with a process id (credentials.py:102-134, admin.py:45-111).
THEOREM AdminTypeCorrect == AdminSpec => []AdminTypeOK
<1>1. AdminInv => AdminTypeOK  BY DEF AdminInv
<1>2. QED  BY <1>1, AdminHolds, PTL

\* Whoever reads auth.json finds a whole document, with any number of commands at once,
\* each of them killed anywhere (credentials.py:102-134).
THEOREM FileStaysWhole == AdminSpec => []FileIsWhole
<1>1. AdminInv => FileIsWhole  BY DEF AdminInv
<1>2. QED  BY <1>1, AdminHolds, PTL

\* A command that reports success has made its change and recorded it, and no event tells
\* of a change that was not made (admin.py:76-111, admin.py:227-239).
THEOREM SuccessWasRecorded == AdminSpec => []SuccessIsRecorded
<1>1. AdminInv => SuccessIsRecorded  BY DEF AdminInv
<1>2. QED  BY <1>1, AdminHolds, PTL
-----------------------------------------------------------------------------
(* The two together. *)

\* A step of the composition is a step of the service or of a command.
LEMMA ComposedSteps ==
    Inv /\ InTurn /\ AdminInv /\ [AccountsNext]_allVars => Inv' /\ InTurn' /\ AdminInv' /\ [Exact]_vars
<1> SUFFICES ASSUME Inv, InTurn, AdminInv, [AccountsNext]_allVars
             PROVE  Inv' /\ InTurn' /\ AdminInv' /\ [Exact]_vars
  OBVIOUS
<1>1. CASE Service /\ UNCHANGED <<adminVars, present>>
  <2>1. AdminInv'  BY <1>1, AdminSteps DEF adminVars
  <2>2. CASE \E appEnv \in {"dev", "prod"}, switch \in Switches : StartService(appEnv, switch)
    <3>1. \E loaded : Start(loaded)  BY <2>2 DEF StartService
    <3>2. UNCHANGED <<now, sessions, expired, seen, login, logout, loop, recorded>>
      BY <3>1 DEF Start, store
    <3>3. Inv'  BY <3>2 DEF Inv, Types, Lists, Session, Unspent, Created, Held, Owed
    <3>4. InTurn' /\ [Exact]_vars  BY <3>1, TurnSteps, LockoutSteps DEF ServiceStep
    <3>5. QED  BY <2>1, <3>3, <3>4
  <2>3. CASE ~\E appEnv \in {"dev", "prod"}, switch \in Switches : StartService(appEnv, switch)
    <3>1. Running  BY <1>1, <2>3 DEF Service, Running
    <3>2. Inv'  BY <3>1, Steps DEF Next
    <3>3. InTurn' /\ [Exact]_vars  BY <3>1, TurnSteps, LockoutSteps DEF ServiceStep
    <3>4. QED  BY <2>1, <3>2, <3>3
  <2>4. QED  BY <2>2, <2>3
<1>2. CASE Admin /\ UNCHANGED <<vars, present>>
  <2>1. AdminNext  BY <1>2 DEF Admin, AdminNext
  <2>2. AdminInv'  BY <2>1, AdminSteps
  <2>3. Inv' /\ InTurn' /\ [Exact]_vars  BY <1>2, Steps, TurnSteps
  <2>4. QED  BY <2>2, <2>3
<1>3. CASE UNCHANGED allVars
  BY <1>3, Steps, TurnSteps, AdminSteps DEF allVars
<1>4. QED  BY <1>1, <1>2, <1>3 DEF AccountsNext

\* With the service and the commands over one directory, every company of clients and
\* commands keeps what each promises alone: the steps of one leave the other's state alone,
\* and a service that starts on whatever the file holds starts with no sessions and no lock.
THEOREM TogetherAsAlone ==
    AccountsSpec => /\ [](/\ LogoutIsFinal /\ ExpiryIsEarned /\ RecordedAtMostTwice
                          /\ FileIsWhole /\ SuccessIsRecorded)
                    /\ LockoutIsExact
<1>1. AccountsInit => Inv /\ InTurn /\ AdminInv  BY Begins, TurnBegins, AdminBegins DEF AccountsInit
<1>2. Inv => LogoutIsFinal /\ ExpiryIsEarned /\ RecordedAtMostTwice
  BY Follows
<1>3. AdminInv => FileIsWhole /\ SuccessIsRecorded  BY DEF AdminInv
<1>4. QED  BY <1>1, <1>2, <1>3, ComposedSteps, PTL DEF AccountsSpec, LockoutIsExact, Exact
=============================================================================
