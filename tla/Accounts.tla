------------------------------ MODULE Accounts ------------------------------
(***************************************************************************)
(* The service and the admin commands over one data directory: the service *)
(* loads the credentials file when it starts, the commands change it while *)
(* the service runs.  A document of AdminCredentials is a credential of    *)
(* AuthSessions: whoever knows the password it was made from logs in.      *)
(***************************************************************************)
EXTENDS AuthSessions, AdminCredentials

CONSTANTS
    Env,            \* the credentials of the environment variables
    Companies       \* what may be there together: clients, commands, Env, and an
                    \* Unsafe file

ASSUME CompaniesAssumption == Companies \subseteq SUBSET (Clients \cup Commands \cup {Env, Unsafe})

VARIABLE present    \* the clients and commands of this behaviour, Env if it is set, and
                    \* Unsafe if the file may be unsafe at first

allVars == <<vars, adminVars, present>>

AccountsInit ==
    /\ Init /\ AdminInit
    /\ present \in Companies
    /\ file = Unsafe => Unsafe \in present

\* What the service finds in the file: in development a mode that is not 0600 is a
\* warning only, and what the file holds is read.
Found(appEnv) == {file} \cup (IF appEnv = "dev" /\ file = Unsafe THEN {Old} ELSE {})

\* load_auth_credentials looks at the file first: one that is not safe stops the
\* service even if the environment has credentials, and so does one that does not parse
\* if it has none.
StartService(appEnv, switch) ==
    LET env == IF Env \in present THEN Env ELSE Nothing
    IN  \E found \in Found(appEnv) :
          Start(IF found = Unsafe \/ (env = Nothing /\ found # NoFile /\ ~Loads(found)) THEN Down
                ELSE Loaded(IF found = NoFile THEN Nothing ELSE found, env, appEnv, switch))

\* The clock and the sweep matter to clients only.
Service ==
    \/ \E appEnv \in {"dev", "prod"}, switch \in Switches : StartService(appEnv, switch)
    \/ Stop
    \/ \E c \in present \cap Clients :
         ReceiveLogin(c) \/ LoginStep(c) \/ Revoke(c) \/ ArchiveLogout(c) \/ Lookup(c)
    \/ present \cap Clients # {} /\ (StartSweep \/ LoopStep \/ Tick)

Admin == \E c \in present \cap Commands : Begin(c) \/ CommandStep(c)

AccountsNext ==
    \/ Service /\ UNCHANGED <<adminVars, present>>
    \/ Admin /\ UNCHANGED <<vars, present>>

AccountsSpec == AccountsInit /\ [][AccountsNext]_allVars /\ Fairness

-----------------------------------------------------------------------------
(* Properties. *)

\* The design of the admin commands says that a password can be reset while the service
\* runs and that no restart is needed: once the command has succeeded the service goes
\* by the document that is in the file.
ResetTakesEffect ==
    \A c \in Commands :
        command[c].kind = "reset" /\ command[c].at = "exit_0" /\ file = c =>
            ~Serves \/ active \in {c, Env}
=============================================================================
