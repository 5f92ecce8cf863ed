----------------------------- MODULE MCAccounts -----------------------------
(* Small instances of Accounts for TLC. *)
EXTENDS Accounts, TLC

CONSTANTS l1, l2, k1, k2

\* One client alone, whose logins come one after the other; two whose requests and
\* logins overlap; two commands, and a service nobody logs in to that starts and stops
\* with and without credentials in the environment, on any file.
Mixes == {{l1}, {l1, l2}, {k1, k2, Unsafe}, {k1, k2, Env, Unsafe}}

OneCommand == {{k1, Unsafe}}

Everyone == Commands \cup {Old, Env}
=============================================================================
