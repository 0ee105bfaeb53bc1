------------------------------ MODULE Accounts ------------------------------
(***************************************************************************)
(* Login and the migration of accounts from plain to hashed passwords.     *)
(*                                                                         *)
(* Login is a plain `def` route: each login runs on a thread of its own,   *)
(* and the statements of two logins interleave.  users_data is the memory  *)
(* of the process, test_users.json what a restart reads back.  No other    *)
(* route that can be reached changes either: the body parameter of         *)
(* register has no type, so its request is refused before the handler.     *)
(***************************************************************************)
EXTENDS Naturals, Sequences

CONSTANTS
  MaxUser,    \* accounts: 1..MaxUser, in the order of the users file
  Logins,     \* threads that serve a login
  MaxFaults,  \* bound on failed file writes
  MaxCrashes  \* bound on restarts of the process

ASSUME AccountsAssumption ==
  MaxUser \in Nat \ {0} /\ MaxFaults \in Nat /\ MaxCrashes \in Nat

VARIABLES
  memory,   \* users_data: the credentials of each account
  file,     \* test_users.json
  login,    \* the logins
  faults,   \* failed writes so far
  crashes   \* restarts so far

vars == <<memory, file, login, faults, crashes>>

Users   == 1..MaxUser
Account == [hash : BOOLEAN, plain : BOOLEAN]
Legacy  == [hash |-> FALSE, plain |-> TRUE]
Hashed  == [hash |-> TRUE, plain |-> FALSE]

(* What is typed: the password, another one, or the right one under the      *)
(* wrong role.  `dump` is the part of the users file written so far.         *)
Login ==
  [at : {"idle", "hash", "plain", "set", "pop", "dump", "matched", "refused", "failed"},
   user : Users, typed : {"right", "wrong", "role"},
   dump : UNION {[1..n -> Account] : n \in 0..MaxUser}]
NoLogin == [at |-> "idle", user |-> 1, typed |-> "right", dump |-> <<>>]

\* load_users_data: files of earlier versions hold plain passwords.
Init ==
  /\ memory \in [Users -> {Legacy, Hashed}]
  /\ file = memory
  /\ login = [t \in Logins |-> NoLogin]
  /\ faults = 0 /\ crashes = 0

Goto(t, phase) == login' = [login EXCEPT ![t].at = phase]
Mine(t) == memory[login[t].user]

Receive(t) ==
  /\ login[t].at = "idle"
  /\ \E u \in Users, typed \in {"right", "wrong", "role"} :
       login' = [login EXCEPT ![t] = [at |-> "hash", user |-> u, typed |-> typed, dump |-> <<>>]]
  /\ UNCHANGED <<memory, file, faults, crashes>>

ReadHash(t) ==
  /\ login[t].at = "hash"
  /\ Goto(t, IF ~Mine(t).hash THEN "plain"
             ELSE IF login[t].typed # "wrong" THEN "matched" ELSE "refused")
  /\ UNCHANGED <<memory, file, faults, crashes>>

(* The plain password is read in a second statement: another login may have  *)
(* migrated the account in between, and the right password is then refused.  *)
(* Hashing it takes long, with the interpreter free for other threads.       *)
ReadPlain(t) ==
  /\ login[t].at = "plain"
  /\ Goto(t, IF Mine(t).plain /\ login[t].typed # "wrong" THEN "set" ELSE "refused")
  /\ UNCHANGED <<memory, file, faults, crashes>>

\* Mutant of SetHash: the plain password is removed in its place.
SetHashLate(t) ==
  /\ login[t].at = "set"
  /\ memory' = [memory EXCEPT ![login[t].user].plain = FALSE]
  /\ Goto(t, "pop")
  /\ UNCHANGED <<file, faults, crashes>>

SetHash(t) ==
  /\ login[t].at = "set"
  /\ memory' = [memory EXCEPT ![login[t].user].hash = TRUE]
  /\ Goto(t, "pop")
  /\ UNCHANGED <<file, faults, crashes>>

PopPlain(t) ==
  /\ login[t].at = "pop"
  /\ memory' = [memory EXCEPT ![login[t].user].plain = FALSE]
  /\ Goto(t, "dump")
  /\ UNCHANGED <<file, faults, crashes>>

\* save_users_data: json.dump walks the accounts in order while other logins
\* change them.
DumpAccount(t) ==
  /\ login[t].at = "dump" /\ Len(login[t].dump) < MaxUser
  /\ login' = [login EXCEPT ![t].dump = Append(@, memory[Len(@) + 1])]
  /\ UNCHANGED <<memory, file, faults, crashes>>

\* The temporary file replaces the users file once it is complete.
ReplaceFile(t) ==
  /\ login[t].at = "dump" /\ Len(login[t].dump) = MaxUser
  /\ file' = login[t].dump
  /\ login' = [login EXCEPT ![t].at = "matched", ![t].dump = <<>>]
  /\ UNCHANGED <<memory, faults, crashes>>

\* Mutant of SaveFails: the account goes back to its plain password.
SaveFailsAndReverts(t) ==
  /\ login[t].at = "dump"
  /\ \/ faults < MaxFaults /\ faults' = faults + 1
     \/ (\E o \in Logins \ {t} : login[o].at \in {"set", "pop", "matched"}) /\ UNCHANGED faults
  /\ memory' = [memory EXCEPT ![login[t].user] = Legacy]
  /\ login' = [login EXCEPT ![t].at = "failed", ![t].dump = <<>>]
  /\ UNCHANGED <<file, crashes>>

(* The disk refuses, or the dump meets a record that another login is giving *)
(* a key (hash, last_login) or taking one from ("dictionary changed size     *)
(* during iteration").                                                       *)
(* The temporary file is removed, the migrated memory stays.                 *)
SaveFails(t) ==
  /\ login[t].at = "dump"
  /\ \/ faults < MaxFaults /\ faults' = faults + 1
     \/ (\E o \in Logins \ {t} : login[o].at \in {"set", "pop", "matched"}) /\ UNCHANGED faults
  /\ login' = [login EXCEPT ![t].at = "failed", ![t].dump = <<>>]
  /\ UNCHANGED <<memory, file, crashes>>

\* 200 with a token, or 401 for a role that does not match ("matched"), 401
\* ("refused"), 500 ("failed").
Answer(t) ==
  /\ login[t].at \in {"matched", "refused", "failed"}
  /\ login' = [login EXCEPT ![t] = NoLogin]
  /\ UNCHANGED <<memory, file, faults, crashes>>

Crash ==
  /\ crashes < MaxCrashes /\ crashes' = crashes + 1
  /\ memory' = file
  /\ login' = [t \in Logins |-> NoLogin]
  /\ UNCHANGED <<file, faults>>

HandlerStep(t) ==
  \/ ReadHash(t) \/ ReadPlain(t) \/ SetHash(t) \/ PopPlain(t)
  \/ DumpAccount(t) \/ ReplaceFile(t) \/ SaveFails(t) \/ Answer(t)

Next == Crash \/ \E t \in Logins : Receive(t) \/ HandlerStep(t)

Spec == Init /\ [][Next]_vars
---------------------------------------------------------------------------
\* Types, and no account beyond the order of the file.
TypeOK ==
  /\ memory \in [Users -> Account] /\ file \in [Users -> Account]
  /\ login \in [Logins -> Login]
  /\ faults \in 0..MaxFaults /\ crashes \in 0..MaxCrashes

(* Nobody is locked out: at every moment, and after a restart at any moment, *)
(* each account has a credential its password opens (verify_and_migrate_     *)
(* password, save_users_data).                                               *)
CredentialKept == \A u \in Users : \A a \in {memory[u], file[u]} : a.hash \/ a.plain

(* The users file never says an account is migrated that the process holds   *)
(* as plain: a login never meets a memory older than the file.               *)
FileNotAhead == \A u \in Users :
  /\ file[u].hash => memory[u].hash
  /\ ~file[u].plain => ~memory[u].plain

(* The right password is refused only when another login has migrated the    *)
(* account in the middle of this one; trying again then succeeds.            *)
RefusedOnlyByRace == \A t \in Logins :
  login[t].at = "refused" /\ login[t].typed # "wrong" => Mine(t).hash

=============================================================================
