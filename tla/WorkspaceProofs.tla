--------------------------- MODULE WorkspaceProofs ---------------------------
(***************************************************************************)
(* The two components of a user's workspace outside the panel, for any     *)
(* number of accounts, logins, tabs, rows and pages.                       *)
(*                                                                         *)
(* Accounts.  No login locks anybody out.  IInv says of every copy of an   *)
(* account - in the file, and in the part of it that a login has dumped -  *)
(* that it keeps a credential and is not ahead of the memory.  It rests on *)
(* the memory only ever moving forward: a hash is never removed, a plain   *)
(* password never set, and the plain password goes only after the hash is  *)
(* there.                                                                  *)
(*                                                                         *)
(* UserActivity.  ActivityInv says of every history shown, and of every    *)
(* answer a tab has still to show, that it holds all visible rows from     *)
(* some row `lo` on, and that lo and the number of rows shown leave room   *)
(* for each other among the rows there are: the next page, which skips as  *)
(* many rows as are shown, then starts no later than where the last one    *)
(* ended.  HistoryGapless alone says nothing of what the next page skips.  *)
(* Downloads are counted together with the marks the server has not served *)
(* yet.                                                                    *)
(***************************************************************************)
EXTENDS Accounts, UserActivity, FiniteSetTheorems, TLAPS

(***************************************************************************)
(* Accounts                                                                *)
(***************************************************************************)

Phases == {"idle", "hash", "plain", "set", "pop", "dump", "matched", "refused", "failed"}

\* What the memory, the file and a login are; a dump is a part of the file.
Types ==
  /\ memory \in [Users -> Account] /\ file \in [Users -> Account]
  /\ login \in [Logins -> [at : Phases, user : Users, typed : {"right", "wrong", "role"},
                            dump : Seq(Account)]]
  /\ \A t \in Logins : Len(login[t].dump) <= MaxUser

Kept(account)         == account.hash \/ account.plain
NotAhead(copy, account) == (copy.hash => account.hash) /\ (~copy.plain => ~account.plain)

\* A copy of an account keeps a credential and is not ahead of the memory.
CopyOf(copy, account) == Kept(copy) /\ NotAhead(copy, account)

MemoryKept  == \A u \in Users : Kept(memory[u])
FileCopies  == \A u \in Users : CopyOf(file[u], memory[u])
DumpCopies  == \A t \in Logins : \A i \in 1..Len(login[t].dump) :
                 CopyOf(login[t].dump[i], memory[i])
HashedFirst == \A t \in Logins : login[t].at = "pop" => Mine(t).hash

IInv == Types /\ MemoryKept /\ FileCopies /\ DumpCopies /\ HashedFirst

\* The memory moves forward, or back to the file of a restart.
Forward == \A u \in Users : (memory[u].hash => memory'[u].hash)
                            /\ (~memory[u].plain => ~memory'[u].plain)

LEMMA EmptyDump == <<>> \in Seq(Account) /\ Len(<<>>) = 0 /\ 0 <= MaxUser /\ 1 \in Users
  BY AccountsAssumption DEF Users

LEMMA NoLoginType ==
  /\ NoLogin \in [at : Phases, user : Users, typed : {"right", "wrong", "role"}, dump : Seq(Account)]
  /\ NoLogin.dump = <<>> /\ NoLogin.at = "idle"
  BY EmptyDump DEF NoLogin, Phases

LEMMA InitIInv == Init => IInv
<1> SUFFICES ASSUME Init PROVE IInv
  OBVIOUS
<1> USE DEF Init
<1>1. \A a \in {Legacy, Hashed} : a \in Account /\ CopyOf(a, a)
  <2>1. Legacy \in Account /\ Hashed \in Account
    BY DEF Legacy, Hashed, Account
  <2>2. Legacy.plain = TRUE /\ Hashed.hash = TRUE
    BY DEF Legacy, Hashed
  <2>3. CopyOf(Legacy, Legacy) /\ CopyOf(Hashed, Hashed)
    BY <2>2 DEF CopyOf, Kept, NotAhead
  <2> QED BY <2>1, <2>3
<1>2. memory \in [Users -> Account] /\ file \in [Users -> Account]
  <2>1. memory \in [Users -> {Legacy, Hashed}] /\ file = memory
    OBVIOUS
  <2>2. {Legacy, Hashed} \subseteq Account
    BY <1>1
  <2> QED BY <2>1, <2>2
<1>3. Types
  BY <1>2, NoLoginType, EmptyDump DEF Types
<1>4. MemoryKept /\ FileCopies
  BY <1>1 DEF MemoryKept, FileCopies, CopyOf
<1>5. DumpCopies /\ HashedFirst
  BY NoLoginType, EmptyDump DEF DumpCopies, HashedFirst
<1> QED BY <1>3, <1>4, <1>5 DEF IInv

\* A step that changes no account and only the place of one login.
LEMMA MoveKeeps ==
  ASSUME IInv, NEW t \in Logins, NEW phase \in Phases \ {"pop"},
         login' = [login EXCEPT ![t].at = phase], UNCHANGED <<memory, file>>
  PROVE  IInv'
  BY DEF IInv, Types, MemoryKept, FileCopies, DumpCopies, HashedFirst, Mine

\* A step that empties the dump of one login.
LEMMA EndKeeps ==
  ASSUME IInv, Types', NEW t \in Logins, login'[t].at # "pop", login'[t].dump = <<>>,
         \A o \in Logins \ {t} : login'[o] = login[o], UNCHANGED <<memory, file>>
  PROVE  IInv'
<1>1. DumpCopies'
  BY DEF IInv, DumpCopies
<1> QED BY <1>1 DEF IInv, MemoryKept, FileCopies, HashedFirst, Mine

\* An account moves forward in the memory: copies stay copies.
LEMMA ForwardKeeps ==
  ASSUME IInv, Types', Forward, MemoryKept', UNCHANGED file,
         \A o \in Logins : login'[o].dump = login[o].dump /\ login'[o].user = login[o].user,
         \A o \in Logins : login'[o].at = "pop" => login[o].at = "pop" \/ memory'[login[o].user].hash
  PROVE  IInv'
<1>1. FileCopies'
  BY DEF IInv, FileCopies, CopyOf, Kept, NotAhead, Forward
<1>2. DumpCopies'
  <2> SUFFICES ASSUME NEW o \in Logins, NEW i \in 1..Len(login[o].dump)
               PROVE  CopyOf(login[o].dump[i], memory'[i])
    BY DEF DumpCopies
  <2>1. i \in Users
    BY AccountsAssumption DEF IInv, Types, Users
  <2> QED BY <2>1 DEF IInv, DumpCopies, CopyOf, Kept, NotAhead, Forward
<1>3. HashedFirst'
  BY DEF IInv, Types, HashedFirst, Forward, Mine
<1> QED BY <1>1, <1>2, <1>3 DEF IInv

LEMMA NextIInv == IInv /\ [Next]_vars => IInv'
<1> SUFFICES ASSUME IInv, [Next]_vars PROVE IInv'
  OBVIOUS
<1>1. ASSUME NEW t \in Logins, Receive(t) PROVE IInv'
  <2> USE <1>1 DEF Receive
  <2>1. Types'
    <3>1. PICK u \in Users, typed \in {"right", "wrong", "role"} :
            login' = [login EXCEPT ![t] = [at |-> "hash", user |-> u, typed |-> typed, dump |-> <<>>]]
      OBVIOUS
    <3>2. [at |-> "hash", user |-> u, typed |-> typed, dump |-> <<>>]
            \in [at : Phases, user : Users, typed : {"right", "wrong", "role"}, dump : Seq(Account)]
      BY EmptyDump DEF Phases
    <3> QED BY <3>1, <3>2, EmptyDump DEF IInv, Types
  <2>2. /\ login'[t].at = "hash" /\ login'[t].dump = <<>>
        /\ \A o \in Logins \ {t} : login'[o] = login[o]
    BY DEF IInv, Types
  <2> QED BY <2>1, <2>2, EndKeeps
<1>2. ASSUME NEW t \in Logins, ReadHash(t) PROVE IInv'
  BY <1>2, MoveKeeps DEF ReadHash, Goto, Phases
<1>3. ASSUME NEW t \in Logins, ReadPlain(t) PROVE IInv'
  BY <1>3, MoveKeeps DEF ReadPlain, Goto, Phases
<1>4. ASSUME NEW t \in Logins, SetHash(t) PROVE IInv'
  <2> USE <1>4 DEF SetHash, Goto
  <2>1. Types'
    BY DEF IInv, Types, Account, Phases
  <2>2. memory'[login[t].user].hash /\ Forward /\ MemoryKept'
    BY DEF IInv, Types, Account, Forward, MemoryKept, Kept
  <2>3. \A o \in Logins : /\ login'[o].dump = login[o].dump /\ login'[o].user = login[o].user
                          /\ login'[o].at = "pop" => login[o].at = "pop" \/ o = t
    BY DEF IInv, Types
  <2> QED BY <2>1, <2>2, <2>3, ForwardKeeps
<1>5. ASSUME NEW t \in Logins, PopPlain(t) PROVE IInv'
  <2> USE <1>5 DEF PopPlain, Goto
  <2>1. Types'
    BY DEF IInv, Types, Account, Phases
  <2>2. Mine(t).hash
    BY DEF IInv, HashedFirst
  <2>3. Forward /\ MemoryKept'
    BY <2>2 DEF IInv, Types, Account, Forward, MemoryKept, Kept, Mine
  <2>4. \A o \in Logins : /\ login'[o].dump = login[o].dump /\ login'[o].user = login[o].user
                          /\ login'[o].at = "pop" => login[o].at = "pop"
    BY DEF IInv, Types
  <2> QED BY <2>1, <2>3, <2>4, ForwardKeeps
<1>6. ASSUME NEW t \in Logins, DumpAccount(t) PROVE IInv'
  <2> DEFINE n == Len(login[t].dump)
  <2> USE <1>6 DEF DumpAccount
  <2>1. n \in Nat /\ n + 1 \in Users /\ memory[n + 1] \in Account
    BY AccountsAssumption DEF IInv, Types, Users
  <2>2. /\ login'[t].dump = Append(login[t].dump, memory[n + 1])
        /\ login'[t].at = login[t].at /\ login'[t].user = login[t].user
        /\ \A o \in Logins \ {t} : login'[o] = login[o]
    BY DEF IInv, Types
  <2>3. Types'
    <3>1. login[t].dump \in Seq(Account) /\ Len(login[t].dump) < MaxUser
      BY DEF IInv, Types
    <3>2. /\ login'[t].dump \in Seq(Account) /\ Len(login'[t].dump) = n + 1
          /\ n + 1 <= MaxUser
      BY <3>1, <2>1, <2>2, AccountsAssumption
    <3> QED BY <3>2, <2>2 DEF IInv, Types
  <2>4. DumpCopies'
    <3> SUFFICES ASSUME NEW o \in Logins, NEW i \in 1..Len(login'[o].dump)
                 PROVE  CopyOf(login'[o].dump[i], memory[i])
      BY DEF DumpCopies
    <3>1. CASE o # t
      BY <3>1, <2>2 DEF IInv, DumpCopies
    <3>2. CASE o = t /\ i <= n
      BY <3>2, <2>1, <2>2 DEF IInv, Types, DumpCopies
    <3>3. CASE o = t /\ i = n + 1
      BY <3>3, <2>1, <2>2 DEF IInv, Types, MemoryKept, CopyOf, NotAhead
    <3> QED BY <3>1, <3>2, <3>3, <2>1, <2>2 DEF IInv, Types
  <2> QED BY <2>2, <2>3, <2>4 DEF IInv, MemoryKept, FileCopies, HashedFirst, Mine
<1>7. ASSUME NEW t \in Logins, ReplaceFile(t) PROVE IInv'
  <2> USE <1>7 DEF ReplaceFile
  <2>1. login[t].dump \in [Users -> Account] /\ DOMAIN login[t].dump = 1..Len(login[t].dump)
    BY AccountsAssumption DEF IInv, Types, Users
  <2>2. Types'
    BY <2>1, AccountsAssumption DEF IInv, Types, Phases
  <2>3. FileCopies'
    BY <2>1, AccountsAssumption DEF IInv, FileCopies, DumpCopies, Types, Users
  <2>4. DumpCopies' /\ HashedFirst'
    BY DEF IInv, Types, DumpCopies, HashedFirst, Mine
  <2> QED BY <2>2, <2>3, <2>4 DEF IInv, MemoryKept
<1>8. ASSUME NEW t \in Logins, SaveFails(t) PROVE IInv'
  <2> USE <1>8 DEF SaveFails
  <2>1. Types'
    <3>1. [login[t] EXCEPT !.at = "failed", !.dump = <<>>]
            \in [at : Phases, user : Users, typed : {"right", "wrong", "role"}, dump : Seq(Account)]
      BY EmptyDump DEF IInv, Types, Phases
    <3>2. login' = [login EXCEPT ![t] = [login[t] EXCEPT !.at = "failed", !.dump = <<>>]]
      BY DEF IInv, Types
    <3> QED BY <3>1, <3>2, EmptyDump DEF IInv, Types
  <2>2. /\ login'[t].at = "failed" /\ login'[t].dump = <<>>
        /\ \A o \in Logins \ {t} : login'[o] = login[o]
    BY DEF IInv, Types
  <2> QED BY <2>1, <2>2, EndKeeps
<1>9. ASSUME NEW t \in Logins, Answer(t) PROVE IInv'
  <2> USE <1>9, NoLoginType DEF Answer
  <2>1. Types'
    <3>1. login' = [login EXCEPT ![t] = NoLogin] /\ UNCHANGED <<memory, file>>
      OBVIOUS
    <3> QED BY <3>1, NoLoginType, EmptyDump DEF IInv, Types
  <2>2. /\ login'[t].at = "idle" /\ login'[t].dump = <<>>
        /\ \A o \in Logins \ {t} : login'[o] = login[o]
    BY DEF IInv, Types
  <2> QED BY <2>1, <2>2, EndKeeps
<1>10. ASSUME Crash PROVE IInv'
  <2> USE <1>10, NoLoginType, EmptyDump DEF Crash
  <2>1. Types'
    BY DEF IInv, Types
  <2>2. MemoryKept' /\ FileCopies'
    BY DEF IInv, MemoryKept, FileCopies, CopyOf, NotAhead
  <2>3. DumpCopies' /\ HashedFirst'
    BY DEF DumpCopies, HashedFirst
  <2> QED BY <2>1, <2>2, <2>3 DEF IInv
<1>11. CASE UNCHANGED vars
  BY <1>11 DEF vars, IInv, Types, MemoryKept, FileCopies, DumpCopies, HashedFirst, Mine
<1> QED BY <1>1, <1>2, <1>3, <1>4, <1>5, <1>6, <1>7, <1>8, <1>9, <1>10, <1>11 DEF Next, HandlerStep

\* The invariant holds in every reachable state.
THEOREM Invariance == Spec => []IInv
<1> QED BY InitIInv, NextIInv, PTL DEF Spec

\* Every account keeps a credential its password opens, in the memory and in
\* the file, whatever logins run at once and wherever a write or the process
\* fails (verify_and_migrate_password, save_users_data).
THEOREM NobodyLockedOut == Spec => []CredentialKept
<1>1. IInv => CredentialKept
  BY DEF IInv, MemoryKept, FileCopies, CopyOf, Kept, CredentialKept
<1> QED BY <1>1, Invariance, PTL

\* The users file never says an account is migrated that the process holds as
\* plain (save_users_data).
THEOREM FileBehindMemory == Spec => []FileNotAhead
<1>1. IInv => FileNotAhead
  BY DEF IInv, FileCopies, CopyOf, NotAhead, FileNotAhead
<1> QED BY <1>1, Invariance, PTL

(***************************************************************************)
(* User activity                                                           *)
(***************************************************************************)

(* The rows shown are all visible ones from row lo on among those there were *)
(* when the first page was read; the next page starts at row lo - 1 or later *)
(* (above it when rows were written since), so that no page leaves a hole.   *)
PagedDownTo(lo, v) ==
  /\ \A i \in Visible : lo <= i /\ i <= v.known => i \in v.shown
  /\ \A i \in v.shown : lo <= i
  /\ lo + v.size <= Len(rows) + 1

Paged(v) ==
  /\ v.known <= Len(rows)
  /\ \E lo \in 1..v.known + 1 :
       PagedDownTo(lo, v) /\ (v.counted /\ ~v.more => lo = 1)

ViewInv == \A t \in Tabs : view[t].mysql => Paged(view[t])

LoadInv ==
  \A t \in Tabs :
    /\ load[t].at # "idle" /\ load[t].append => load[t].offset = view[t].size
    /\ load[t].at # "idle" /\ ~load[t].append => load[t].offset = 0
    /\ load[t].at = "answered" /\ Answered(t).mysql => Paged(Answered(t))

(* The marks the server has still to serve. *)
Pending == {t \in Tabs : mark[t] \in {"rating", "download"}}

MarkInv ==
  /\ IsFiniteSet(Pending) /\ IsFiniteSet(Downloads)
  /\ Cardinality(Downloads) + Cardinality(Pending) <= clicks + failures

ActivityInv == ActivityTypes /\ ViewInv /\ LoadInv /\ MarkInv

----------------------------------------------------------------------------
(* A page.                                                                   *)

LEMMA PageRows ==
  ASSUME rows \in Seq(Row), NEW offset \in Nat
  PROVE  \A i : i \in FetchPage(offset) <=>
           /\ i \in Visible /\ i \in 1..Len(rows) /\ i + offset <= Len(rows)
           /\ Len(rows) < i + offset + Page
<1>1. Len(rows) \in Nat /\ DOMAIN rows = 1..Len(rows)
  OBVIOUS
<1>2. \A i \in Visible : i \in 1..Len(rows)
  BY <1>1 DEF Visible
<1>3. \A i \in 1..Len(rows) :
        Len(rows) - i \in offset .. offset + Page - 1 <=>
          i + offset <= Len(rows) /\ Len(rows) < i + offset + Page
  BY <1>1, UserActivityAssumption
<1> QED BY <1>2, <1>3 DEF FetchPage

(* A page has at most `Page` rows, and no more than there are below it.      *)
LEMMA PageSize ==
  ASSUME rows \in Seq(Row), NEW offset \in Nat
  PROVE  /\ FetchPage(offset) \subseteq 1..Len(rows)
         /\ IsFiniteSet(FetchPage(offset)) /\ Cardinality(FetchPage(offset)) \in Nat
         /\ Cardinality(FetchPage(offset)) <= Page
         /\ offset <= Len(rows) => offset + Cardinality(FetchPage(offset)) <= Len(rows)
<1>1. Len(rows) \in Nat /\ Page \in Nat \ {0}
  BY UserActivityAssumption
<1> DEFINE L == Len(rows)
           page == FetchPage(offset)
           low == L - offset - Page + 1
           high == L - offset
<1>2. page \subseteq 1..L /\ page \subseteq 1..high /\ page \subseteq low..high
  BY <1>1, PageRows
<1>3. /\ IsFiniteSet(1..high) /\ Cardinality(1..high) = IF 1 > high THEN 0 ELSE high - 1 + 1
      /\ IsFiniteSet(low..high) /\ Cardinality(low..high) = IF low > high THEN 0 ELSE high - low + 1
  <2>1. 1 \in Int /\ high \in Int /\ low \in Int
    BY <1>1
  <2> HIDE DEF high, low
  <2> QED BY <2>1, FS_Interval
<1>4. /\ IsFiniteSet(page) /\ Cardinality(page) <= Cardinality(1..high)
      /\ Cardinality(page) <= Cardinality(low..high)
  <2> HIDE DEF page, low, high
  <2> QED BY <1>2, <1>3, FS_Subset
<1>5. Cardinality(page) \in Nat
  BY <1>4, FS_CardinalityType
<1>6. Cardinality(low..high) = Page
  BY <1>1, <1>3
<1>7. offset <= L => Cardinality(1..high) <= L - offset
  BY <1>1, <1>3
<1> HIDE DEF page, low, high
<1>8. Cardinality(page) <= Page
  BY <1>4, <1>6
<1>9. offset <= L => offset + Cardinality(page) <= L
  <2>1. Cardinality(1..high) \in Nat
    BY <1>3, FS_CardinalityType
  <2> QED BY <1>1, <1>4, <1>5, <1>7, <2>1
<1> QED BY <1>2, <1>4, <1>5, <1>8, <1>9 DEF page

(* Of L rows, `size` shown from row lo on: where they begin once the page of *)
(* `card` rows at offset `size` is added.                                    *)
BeginAt(new, lo, L, size, card) ==
  /\ new + size + card <= L + 1
  /\ new < lo => \A i \in Nat : new <= i => L < i + size + Page
  /\ new = 1 \/ \A i \in Nat : L < i + size + Page => new <= i

LEMMA PageBounds ==
  ASSUME NEW L \in Nat, NEW lo \in Nat, 1 <= lo, NEW size \in Nat, NEW card \in Nat,
         card <= Page, size + card <= L, lo + size <= L + 1
  PROVE  \E new \in 1..lo : BeginAt(new, lo, L, size, card)
<1>1. Page \in Nat \ {0}
  BY UserActivityAssumption
<1>2. CASE lo + size + Page <= L + 1
  <2>1. /\ lo \in 1..lo /\ lo + size + card <= L + 1
        /\ \A i \in Nat : L < i + size + Page => lo <= i
    BY <1>1, <1>2
  <2> QED BY <2>1 DEF BeginAt
<1>3. CASE size + Page >= L
  <2>1. 1 \in 1..lo /\ 1 + size + card <= L + 1 /\ \A i \in Nat : 1 <= i => L < i + size + Page
    BY <1>1, <1>3
  <2> QED BY <2>1 DEF BeginAt
<1>4. CASE ~(lo + size + Page <= L + 1) /\ size + Page < L
  <2> DEFINE new == L + 1 - size - Page
  <2>1. /\ new \in 1..lo /\ new + size + card <= L + 1
        /\ \A i \in Nat : new <= i <=> L < i + size + Page
    BY <1>1, <1>4
  <2> QED BY <2>1 DEF BeginAt
<1> QED BY <1>1, <1>2, <1>3, <1>4

(* The heart of the matter: the page at the offset of the rows shown goes on *)
(* where they end, however many rows were written or shown twice since.      *)
LEMMA PageExtends ==
  ASSUME rows \in Seq(Row), NEW v \in Views, NEW w \in Views, NEW lo \in 1..v.known + 1,
         v.known <= Len(rows), PagedDownTo(lo, v),
         w.shown = v.shown \cup FetchPage(v.size), w.known = v.known,
         w.size = v.size + Cardinality(FetchPage(v.size)),
         w.counted /\ ~w.more => w.size >= Len(rows)
  PROVE  Paged(w)
<1>1. Len(rows) \in Nat /\ Page \in Nat \ {0} /\ lo \in Nat /\ v.size \in Nat /\ w.size \in Nat
  BY UserActivityAssumption DEF Views
<1>2. v.known \in Nat /\ lo >= 1 /\ lo <= v.known + 1
  BY DEF Views
<1> DEFINE L == Len(rows)
           card == Cardinality(FetchPage(v.size))
<1>3. lo + v.size <= L + 1
  BY DEF PagedDownTo
<1>4. card \in Nat /\ card <= Page /\ v.size + card <= L
  <2>1. v.size <= L
    BY <1>1, <1>2, <1>3
  <2> QED BY <1>1, <2>1, PageSize
<1> HIDE DEF card
<1>5. w.size = v.size + card
  BY DEF card
<1>6. PICK new \in 1..lo : BeginAt(new, lo, L, v.size, card)
  <2>1. L \in Nat /\ lo \in Nat /\ 1 <= lo /\ v.size \in Nat
    BY <1>1, <1>2
  <2>2. card \in Nat /\ card <= Page /\ v.size + card <= L /\ lo + v.size <= L + 1
    BY <1>3, <1>4
  <2> HIDE DEF L
  <2> QED BY <2>1, <2>2, PageBounds
<1> HIDE DEF L
<1>7. /\ new \in Nat /\ 1 <= new /\ new <= lo
      /\ new < lo => \A i \in Nat : new <= i => L < i + v.size + Page
      /\ new = 1 \/ \A i \in Nat : L < i + v.size + Page => new <= i
  BY <1>1, <1>6 DEF BeginAt
<1>8. new + w.size <= L + 1 /\ L \in Nat /\ Len(rows) = L
  <2>1. new + v.size + card <= L + 1
    BY <1>6 DEF BeginAt
  <2>2. new + v.size + card = new + w.size
    BY <1>1, <1>4, <1>5, <1>7
  <2> QED BY <1>1, <2>1, <2>2 DEF L
<1>9. \A i \in Visible : new <= i /\ i <= w.known => i \in w.shown
  <2> SUFFICES ASSUME NEW i \in Visible, new <= i, i <= v.known PROVE i \in w.shown
    OBVIOUS
  <2>1. i \in Nat /\ i \in 1..Len(rows)
    BY <1>1 DEF Visible
  <2>2. CASE lo <= i
    BY <2>2 DEF PagedDownTo
  <2>3. CASE i < lo
    <3>1. i + v.size <= Len(rows)
      BY <1>1, <1>3, <2>1, <2>3 DEF L
    <3>2. Len(rows) < i + v.size + Page
      BY <1>1, <1>7, <1>8, <2>1, <2>3
    <3>3. i \in FetchPage(v.size)
      BY <1>1, <2>1, <3>1, <3>2, PageRows
    <3> QED BY <3>3
  <2> QED BY <1>1, <2>1, <2>2, <2>3
<1>10. \A i \in w.shown : new <= i
  <2>1. \A i \in v.shown : i \in Nat /\ lo <= i
    BY DEF PagedDownTo, Views
  <2>2. \A i \in FetchPage(v.size) : i \in Nat /\ 1 <= i /\ Len(rows) < i + v.size + Page
    BY <1>1, PageRows
  <2>3. \A i \in FetchPage(v.size) : new <= i
    BY <1>7, <1>8, <2>2
  <2> QED BY <1>1, <1>7, <2>1, <2>3
<1>11. w.counted /\ ~w.more => new = 1
  BY <1>1, <1>7, <1>8
<1>12. new \in 1..w.known + 1
  BY <1>1, <1>2, <1>7
<1> QED BY <1>9, <1>10, <1>11, <1>12, <1>8 DEF Paged, PagedDownTo

(* Rows are only added, and none becomes malformed or well-formed.           *)
LEMMA RowsGrow ==
  ASSUME rows \in Seq(Row), rows' \in Seq(Row), Len(rows) <= Len(rows'),
         \A i \in 1..Len(rows) : rows'[i].malformed = rows[i].malformed,
         NEW v \in Views, Paged(v)
  PROVE  Paged(v)'
<1>1. Len(rows) \in Nat /\ Len(rows') \in Nat /\ v.known \in Nat /\ v.size \in Nat
  BY DEF Views
<1>2. v.known <= Len(rows)
  BY DEF Paged
<1>3. PICK lo \in 1..v.known + 1 : PagedDownTo(lo, v) /\ (v.counted /\ ~v.more => lo = 1)
  BY DEF Paged
<1>4. \A i \in Visible' : i <= v.known => i \in Visible
  BY <1>1, <1>2 DEF Visible
<1>5. PagedDownTo(lo, v)'
  BY <1>1, <1>3, <1>4 DEF PagedDownTo
<1>6. v.known <= Len(rows')
  BY <1>1, <1>2
<1> QED BY <1>3, <1>5, <1>6 DEF Paged

----------------------------------------------------------------------------
(* Types of the values the handlers make.                                    *)

LEMMA NoLoadType == NoLoad \in Loads /\ NoLoad.at = "idle"
BY UserActivityAssumption DEF NoLoad, Loads

LEMMA NoViewType ==
  /\ NoView \in Views /\ NoView.shown = {} /\ NoView.size = 0 /\ NoView.known = 0
  /\ NoView.counted = TRUE /\ NoView.more = FALSE
BY UserActivityAssumption DEF NoView, Views

LEMMA AskType ==
  ASSUME ActivityTypes, NEW t \in Tabs, NEW append \in BOOLEAN
  PROVE  /\ Ask(t, append) \in Loads /\ Ask(t, append).at = "asked"
         /\ Ask(t, append).append = append
         /\ Ask(t, append).offset = IF append THEN view[t].size ELSE 0
<1>1. view[t].size \in Nat
  BY DEF ActivityTypes, Views
<1> DEFINE offset == IF append THEN view[t].size ELSE 0
<1>2. Ask(t, append) = [NoLoad EXCEPT !.at = "asked", !.append = append, !.offset = offset]
  BY DEF Ask
<1>3. offset \in Nat /\ 0 \in 0..MaxRow
  BY <1>1, UserActivityAssumption
<1> HIDE DEF offset
<1>4. Ask(t, append) = [at |-> "asked", append |-> append, offset |-> offset, rows |-> {},
                        more |-> FALSE, mysql |-> TRUE, counted |-> TRUE, known |-> 0]
  BY <1>2 DEF NoLoad
<1>5. Ask(t, append) \in Loads
  BY <1>3, <1>4 DEF Loads
<1> QED BY <1>4, <1>5 DEF offset

LEMMA AnsweredType ==
  ASSUME ActivityTypes, NEW t \in Tabs
  PROVE  Answered(t) \in Views
<1>1. load[t] \in Loads /\ view[t] \in Views
  BY DEF ActivityTypes
<1>2. load[t].rows \subseteq 1..MaxRow /\ Cardinality(load[t].rows) \in Nat
  <2>1. load[t].rows \subseteq 1..MaxRow
    BY <1>1 DEF Loads
  <2>2. IsFiniteSet(1..MaxRow)
    BY FS_Interval, UserActivityAssumption
  <2>3. IsFiniteSet(load[t].rows)
    BY <2>1, <2>2, FS_Subset
  <2> QED BY <2>1, <2>3, FS_CardinalityType
<1>3. Cardinality(load[t].rows) + (IF load[t].append THEN view[t].size ELSE 0) \in Nat
  BY <1>1, <1>2 DEF Views
<1>4. load[t].rows \cup (IF load[t].append THEN view[t].shown ELSE {}) \in SUBSET (1..MaxRow)
  BY <1>1, <1>2 DEF Views
<1>5. (IF load[t].append THEN view[t].known ELSE load[t].known) \in 0..MaxRow
  BY <1>1 DEF Views, Loads
<1>6. (load[t].mysql /\ (load[t].append => view[t].mysql)) \in BOOLEAN
  OBVIOUS
<1> QED BY <1>1, <1>3, <1>4, <1>5, <1>6 DEF Answered, Views, Loads

LEMMA AnsweredKept ==
  ASSUME NEW t \in Tabs, load'[t] = load[t], view'[t] = view[t]
  PROVE  Answered(t)' = Answered(t)
BY DEF Answered

LEMMA NewRowType ==
  \A prompt \in {"name", "type:name"} :
    /\ NewRow(prompt) \in Row /\ NewRow(prompt).downloads = 0 /\ NewRow(prompt).malformed = FALSE
BY DEF NewRow, Row

----------------------------------------------------------------------------
(* What the steps that read or show no page keep.                            *)

GrowsTo(new) ==
  /\ new \in Seq(Row) /\ Len(rows) <= Len(new)
  /\ \A i \in 1..Len(rows) : new[i].malformed = rows[i].malformed

LEMMA PagesKept ==
  ASSUME ActivityTypes, ActivityTypes', ViewInv, LoadInv, GrowsTo(rows'), view' = view,
         \A t \in Tabs : load'[t] \in {load[t], NoLoad, Ask(t, TRUE), Ask(t, FALSE)}
  PROVE  ViewInv' /\ LoadInv'
<1>1. rows \in Seq(Row) /\ \A v \in Views : Paged(v) => Paged(v)'
  BY RowsGrow DEF ActivityTypes, GrowsTo
<1>2. ViewInv'
  <2> SUFFICES ASSUME NEW t \in Tabs, view'[t].mysql PROVE Paged(view[t])'
    BY DEF ViewInv
  <2>1. PICK v \in Views : v = view[t]
    BY DEF ActivityTypes
  <2>2. Paged(v)'
    BY <1>1, <2>1 DEF ViewInv
  <2> QED BY <2>1, <2>2 DEF Paged, PagedDownTo
<1>3. LoadInv'
  <2> SUFFICES ASSUME NEW t \in Tabs
               PROVE  /\ load'[t].at # "idle" /\ load'[t].append => load'[t].offset = view'[t].size
                      /\ load'[t].at # "idle" /\ ~load'[t].append => load'[t].offset = 0
                      /\ load'[t].at = "answered" /\ Answered(t)'.mysql => Paged(Answered(t))'
    BY DEF LoadInv
  <2>1. CASE load'[t] = load[t]
    <3>1. Answered(t)' = Answered(t)
      BY <2>1, AnsweredKept
    <3>2. PICK v \in Views : v = Answered(t)
      BY AnsweredType
    <3>3. ASSUME load[t].at = "answered", v.mysql PROVE Paged(Answered(t))'
      <4>1. Paged(v)'
        BY <1>1, <3>2, <3>3 DEF LoadInv
      <4>2. Answered(t)' = v
        BY <3>1, <3>2
      <4> HIDE DEF Answered
      <4> QED BY <4>1, <4>2 DEF Paged, PagedDownTo
    <3> QED BY <2>1, <3>1, <3>2, <3>3 DEF LoadInv
  <2>2. CASE load'[t] = NoLoad
    BY <2>2, NoLoadType
  <2>3. CASE load'[t] \in {Ask(t, TRUE), Ask(t, FALSE)}
    <3>1. PICK append \in BOOLEAN : load'[t] = Ask(t, append)
      BY <2>3
    <3> QED BY <3>1, AskType
  <2> QED BY <2>1, <2>2, <2>3
<1> QED BY <1>2, <1>3

LEMMA MarksKept ==
  ASSUME MarkInv, ActivityTypes, ActivityTypes', Downloads' = Downloads, Pending' \subseteq Pending,
         clicks + failures <= clicks' + failures'
  PROVE  MarkInv'
<1>1. IsFiniteSet(Pending') /\ Cardinality(Pending') <= Cardinality(Pending)
  BY FS_Subset DEF MarkInv
<1>2. /\ Cardinality(Pending') \in Nat /\ Cardinality(Pending) \in Nat
      /\ Cardinality(Downloads) \in Nat /\ IsFiniteSet(Downloads)
  BY <1>1, FS_CardinalityType DEF MarkInv
<1>3. clicks \in Nat /\ failures \in Nat /\ clicks' \in Nat /\ failures' \in Nat
  BY DEF ActivityTypes
<1>4. Cardinality(Downloads) + Cardinality(Pending) <= clicks + failures
  BY DEF MarkInv
<1>5. Cardinality(Downloads) + Cardinality(Pending') <= clicks' + failures'
  <2> DEFINE d == Cardinality(Downloads)
             p == Cardinality(Pending)
             q == Cardinality(Pending')
  <2>1. d \in Nat /\ p \in Nat /\ q \in Nat /\ q <= p /\ d + p <= clicks + failures
    BY <1>1, <1>2, <1>4
  <2> HIDE DEF d, p, q
  <2>2. \A a, b, c, e \in Nat : d + p <= a + b /\ a + b <= c + e => d + q <= c + e
    BY <2>1
  <2>3. d + q <= clicks' + failures'
    BY <1>3, <2>1, <2>2, Zenon
  <2> QED BY <2>3 DEF d, q
<1> QED BY <1>1, <1>2, <1>5 DEF MarkInv

LEMMA RowAdded ==
  ASSUME ActivityTypes, rows' = Append(rows, NewRow("type:name"))
  PROVE  /\ GrowsTo(rows') /\ Len(rows') = Len(rows) + 1 /\ Downloads' = Downloads
<1>1. rows \in Seq(Row) /\ NewRow("type:name") \in Row /\ NewRow("type:name").downloads = 0
  BY NewRowType DEF ActivityTypes
<1>2. /\ rows' \in Seq(Row) /\ Len(rows') = Len(rows) + 1 /\ Len(rows) \in Nat
      /\ \A i \in 1..Len(rows) : rows'[i] = rows[i]
      /\ rows'[Len(rows) + 1] = NewRow("type:name")
      /\ DOMAIN rows = 1..Len(rows) /\ DOMAIN rows' = 1..Len(rows) + 1
  BY <1>1
<1>3. DOMAIN rows' = (DOMAIN rows) \cup {Len(rows) + 1}
  BY <1>2
<1>4. {Len(rows) + 1} \X (1..rows'[Len(rows) + 1].downloads) = {}
  BY <1>1, <1>2
<1>5. Downloads' = Downloads
  <2>1. \A i \in DOMAIN rows : {i} \X (1..rows'[i].downloads) = {i} \X (1..rows[i].downloads)
    BY <1>2
  <2> QED BY <1>3, <1>4, <2>1 DEF Downloads
<1> QED BY <1>2, <1>5 DEF GrowsTo

(* A step that shows no page, takes no mark and serves none but by dropping  *)
(* it.                                                                       *)
LEMMA QuietStep ==
  ASSUME ActivityInv, ActivityTypes', UNCHANGED <<view, clicks>>, failures' = failures,
         GrowsTo(rows') /\ Downloads' = Downloads, Pending' \subseteq Pending,
         \A t \in Tabs : load'[t] \in {load[t], NoLoad, Ask(t, TRUE), Ask(t, FALSE)}
  PROVE  ActivityInv'
<1>1. ActivityTypes /\ ViewInv /\ LoadInv /\ MarkInv
  BY DEF ActivityInv
<1>2. ViewInv' /\ LoadInv'
  BY <1>1, PagesKept
<1>3. MarkInv'
  <2>1. clicks + failures <= clicks' + failures'
    <3>1. clicks + failures <= clicks + failures
      BY <1>1 DEF ActivityTypes
    <3> QED BY <3>1
  <2> QED BY <1>1, <2>1, MarksKept
<1> QED BY <1>2, <1>3 DEF ActivityInv

LEMMA SameMarks ==
  ASSUME UNCHANGED mark
  PROVE  Pending' \subseteq Pending
BY DEF Pending

LEMMA SameDownloads ==
  ASSUME ActivityTypes, UNCHANGED rows
  PROVE  GrowsTo(rows') /\ Downloads' = Downloads
BY DEF Downloads, GrowsTo, ActivityTypes

LEMMA InitActivity == ActivityInit => ActivityInv
<1> SUFFICES ASSUME ActivityInit PROVE ActivityInv
  OBVIOUS
<1>1. PICK n \in 0..MaxOld :
        rows \in [1..n -> {[NewRow("name") EXCEPT !.malformed = m] : m \in BOOLEAN}]
  BY DEF ActivityInit
<1>2. /\ view = [t \in Tabs |-> NoView] /\ load = [t \in Tabs |-> NoLoad]
      /\ product = [t \in Tabs |-> NoProduct] /\ mark = [t \in Tabs |-> "none"]
      /\ clicks = 0 /\ failures = 0 /\ restarts = 0
  BY DEF ActivityInit
<1>3. \A i \in 1..n : rows[i] \in Row /\ rows[i].downloads = 0
  <2>1. \A m \in BOOLEAN : /\ [NewRow("name") EXCEPT !.malformed = m] \in Row
                           /\ [NewRow("name") EXCEPT !.malformed = m].downloads = 0
    BY DEF NewRow, Row
  <2> QED BY <1>1, <2>1
<1>4. rows \in Seq(Row) /\ Len(rows) = n /\ n \in Nat /\ n <= MaxRow /\ DOMAIN rows = 1..n
  <2>1. n \in Nat /\ n <= MaxRow
    BY UserActivityAssumption
  <2>2. rows \in [1..n -> Row] /\ DOMAIN rows = 1..n
    BY <1>1, <1>3
  <2> QED BY <2>1, <2>2
<1>5. ActivityTypes
  <2>1. NoProduct \in Products
    BY UserActivityAssumption DEF NoProduct, Products
  <2> QED BY <1>2, <1>4, <2>1, NoViewType, NoLoadType, UserActivityAssumption DEF ActivityTypes
<1>6. Paged(NoView)
  <2>1. 0 <= Len(rows) /\ 1 + 0 <= Len(rows) + 1 /\ 1 \in 1..0 + 1
    BY <1>4
  <2>2. \A i \in Visible : ~(1 <= i /\ i <= 0)
    BY <1>4 DEF Visible
  <2>3. PagedDownTo(1, NoView)
    BY <2>1, <2>2, NoViewType DEF PagedDownTo
  <2> QED BY <2>1, <2>3, NoViewType DEF Paged
<1>7. ViewInv /\ LoadInv
  BY <1>2, <1>6, NoLoadType DEF ViewInv, LoadInv
<1>8. MarkInv
  <2>1. Pending = {}
    BY <1>2 DEF Pending
  <2>2. Downloads = {}
    <3>1. \A i \in DOMAIN rows : {i} \X (1..rows[i].downloads) = {}
      BY <1>3, <1>4
    <3> QED BY <3>1 DEF Downloads
  <2>3. 0 + 0 <= 0 + 0
    OBVIOUS
  <2> QED BY <1>2, <2>1, <2>2, <2>3, FS_EmptySet DEF MarkInv
<1> QED BY <1>5, <1>7, <1>8 DEF ActivityInv

LEMMA LoadHistoryKeeps == \A t \in Tabs : ActivityInv /\ LoadHistory(t) => ActivityInv'
<1> SUFFICES ASSUME NEW t \in Tabs, ActivityInv, LoadHistory(t) PROVE ActivityInv'
  OBVIOUS
<1>1. ActivityTypes
  BY DEF ActivityInv
<1>2. PICK append \in BOOLEAN : load' = [load EXCEPT ![t] = Ask(t, append)]
  BY DEF LoadHistory
<1>3. UNCHANGED <<rows, view, product, mark, clicks, failures, restarts>>
  BY DEF LoadHistory
<1>4. ActivityTypes'
  BY <1>1, <1>2, <1>3, AskType DEF ActivityTypes
<1>5. \A u \in Tabs : load'[u] \in {load[u], NoLoad, Ask(u, TRUE), Ask(u, FALSE)}
  BY <1>1, <1>2 DEF ActivityTypes
<1> QED BY <1>1, <1>3, <1>4, <1>5, SameMarks, SameDownloads, QuietStep

LEMMA RefuseHistoryKeeps == \A t \in Tabs : ActivityInv /\ RefuseHistory(t) => ActivityInv'
<1> SUFFICES ASSUME NEW t \in Tabs, ActivityInv, RefuseHistory(t) PROVE ActivityInv'
  OBVIOUS
<1>1. ActivityTypes
  BY DEF ActivityInv
<1>2. /\ load' = [load EXCEPT ![t] = NoLoad]
      /\ UNCHANGED <<rows, view, product, mark, clicks, failures, restarts>>
  BY DEF RefuseHistory
<1>3. ActivityTypes'
  BY <1>1, <1>2, NoLoadType DEF ActivityTypes
<1>4. \A u \in Tabs : load'[u] \in {load[u], NoLoad, Ask(u, TRUE), Ask(u, FALSE)}
  BY <1>1, <1>2 DEF ActivityTypes
<1> QED BY <1>1, <1>2, <1>3, <1>4, SameMarks, SameDownloads, QuietStep

LEMMA ProductTypes ==
  ASSUME ActivityTypes, NEW t \in Tabs
  PROVE  /\ [product[t] EXCEPT !.at = "idle"] \in Products
         /\ \A n \in 0..MaxRow : [product[t] EXCEPT !.at = "answered", !.made = n] \in Products
         /\ [product[t] EXCEPT !.at = "idle", !.made = 0, !.result = product[t].made] \in Products
         /\ [product[t] EXCEPT !.rated = TRUE] \in Products
         /\ [NoProduct EXCEPT !.at = "asked"] \in Products
<1>1. product[t] \in Products /\ 0 \in 0..MaxRow
  BY UserActivityAssumption DEF ActivityTypes
<1> QED BY <1>1 DEF Products, NoProduct

LEMMA GenerateKeeps == \A t \in Tabs : ActivityInv /\ Generate(t) => ActivityInv'
<1> SUFFICES ASSUME NEW t \in Tabs, ActivityInv, Generate(t) PROVE ActivityInv'
  OBVIOUS
<1>1. ActivityTypes
  BY DEF ActivityInv
<1>2. /\ product' = [product EXCEPT ![t] = [NoProduct EXCEPT !.at = "asked"]]
      /\ UNCHANGED <<rows, view, load, mark, clicks, failures, restarts>>
  BY DEF Generate
<1>3. ActivityTypes'
  BY <1>1, <1>2, ProductTypes DEF ActivityTypes
<1> QED BY <1>1, <1>2, <1>3, SameMarks, SameDownloads, QuietStep

LEMMA ServeGenerateKeeps == \A t \in Tabs : ActivityInv /\ ServeGenerate(t) => ActivityInv'
<1> SUFFICES ASSUME NEW t \in Tabs, ActivityInv, ServeGenerate(t) PROVE ActivityInv'
  OBVIOUS
<1>1. ActivityTypes
  BY DEF ActivityInv
<1>2. UNCHANGED <<view, load, mark, clicks, failures, restarts>>
  BY DEF ServeGenerate
<1>3. CASE /\ Len(rows) < MaxRow /\ rows' = Append(rows, NewRow("type:name"))
           /\ product' = [product EXCEPT ![t].at = "answered", ![t].made = Len(rows) + 1]
  <2>1. Len(rows) \in Nat /\ Len(rows) + 1 \in 0..MaxRow /\ Len(rows) + 1 <= MaxRow
    BY <1>1, <1>3, UserActivityAssumption DEF ActivityTypes
  <2>2. product' \in [Tabs -> Products]
    BY <1>1, <1>3, <2>1, ProductTypes DEF ActivityTypes
  <2>3. GrowsTo(rows') /\ Len(rows') = Len(rows) + 1 /\ Downloads' = Downloads
    BY <1>1, <1>3, RowAdded
  <2>4. ActivityTypes'
    BY <1>1, <1>2, <2>1, <2>2, <2>3 DEF ActivityTypes, GrowsTo
  <2> QED BY <1>2, <2>3, <2>4, SameMarks, QuietStep
<1>4. CASE product' = [product EXCEPT ![t].at = "idle"] /\ UNCHANGED rows
  <2>1. product' \in [Tabs -> Products]
    BY <1>1, <1>4, ProductTypes DEF ActivityTypes
  <2>2. ActivityTypes'
    BY <1>1, <1>2, <1>4, <2>1 DEF ActivityTypes
  <2> QED BY <1>1, <1>2, <1>4, <2>2, SameMarks, SameDownloads, QuietStep
<1> QED BY <1>3, <1>4 DEF ServeGenerate

LEMMA WriteElsewhereKeeps == ActivityInv /\ WriteElsewhere => ActivityInv'
<1> SUFFICES ASSUME ActivityInv, WriteElsewhere PROVE ActivityInv'
  OBVIOUS
<1>1. ActivityTypes
  BY DEF ActivityInv
<1>2. /\ Len(rows) < MaxRow /\ rows' = Append(rows, NewRow("type:name"))
      /\ UNCHANGED <<view, load, product, mark, clicks, failures, restarts>>
  BY DEF WriteElsewhere
<1>3. Len(rows) + 1 <= MaxRow
  BY <1>1, <1>2, UserActivityAssumption DEF ActivityTypes
<1>4. GrowsTo(rows') /\ Len(rows') = Len(rows) + 1 /\ Downloads' = Downloads
  BY <1>1, <1>2, RowAdded
<1>5. ActivityTypes'
  BY <1>1, <1>2, <1>3, <1>4 DEF ActivityTypes, GrowsTo
<1> QED BY <1>2, <1>4, <1>5, SameMarks, QuietStep

LEMMA ShowResultKeeps == \A t \in Tabs : ActivityInv /\ ShowResult(t) => ActivityInv'
<1> SUFFICES ASSUME NEW t \in Tabs, ActivityInv, ShowResult(t) PROVE ActivityInv'
  OBVIOUS
<1>1. ActivityTypes
  BY DEF ActivityInv
<1>2. UNCHANGED <<rows, view, mark, clicks, failures, restarts>>
  BY DEF ShowResult
<1>3. product' \in [Tabs -> Products]
  BY <1>1, ProductTypes DEF ShowResult, ActivityTypes
<1>4. load' = [load EXCEPT ![t] = IF load[t].at = "idle" THEN Ask(t, FALSE) ELSE load[t]]
  BY <1>1 DEF ShowResult, ActivityTypes
<1>5. load' \in [Tabs -> Loads]
  BY <1>1, <1>4, AskType DEF ActivityTypes
<1>6. \A u \in Tabs : load'[u] \in {load[u], NoLoad, Ask(u, TRUE), Ask(u, FALSE)}
  BY <1>1, <1>4 DEF ActivityTypes
<1>7. ActivityTypes'
  BY <1>1, <1>2, <1>3, <1>5 DEF ActivityTypes
<1> QED BY <1>1, <1>2, <1>6, <1>7, SameMarks, SameDownloads, QuietStep

LEMMA RefuseMarkKeeps == \A t \in Tabs : ActivityInv /\ RefuseMark(t) => ActivityInv'
<1> SUFFICES ASSUME NEW t \in Tabs, ActivityInv, RefuseMark(t) PROVE ActivityInv'
  OBVIOUS
<1>1. ActivityTypes
  BY DEF ActivityInv
<1>2. /\ mark' = [mark EXCEPT ![t] = "none"]
      /\ UNCHANGED <<rows, view, load, product, clicks, failures, restarts>>
  BY DEF RefuseMark
<1>3. ActivityTypes' /\ Pending' \subseteq Pending
  BY <1>1, <1>2 DEF ActivityTypes, Pending
<1> QED BY <1>1, <1>2, <1>3, SameDownloads, QuietStep

LEMMA ShowRatingKeeps == \A t \in Tabs : ActivityInv /\ ShowRating(t) => ActivityInv'
<1> SUFFICES ASSUME NEW t \in Tabs, ActivityInv, ShowRating(t) PROVE ActivityInv'
  OBVIOUS
<1>1. ActivityTypes
  BY DEF ActivityInv
<1>2. /\ mark' = [mark EXCEPT ![t] = "none"] /\ product' = [product EXCEPT ![t].rated = TRUE]
      /\ UNCHANGED <<rows, view, load, clicks, failures, restarts>>
  BY DEF ShowRating
<1>3. product' \in [Tabs -> Products]
  BY <1>1, <1>2, ProductTypes DEF ActivityTypes
<1>4. ActivityTypes' /\ Pending' \subseteq Pending
  BY <1>1, <1>2, <1>3 DEF ActivityTypes, Pending
<1> QED BY <1>1, <1>2, <1>4, SameDownloads, QuietStep

LEMMA RestartKeeps == ActivityInv /\ Restart => ActivityInv'
<1> SUFFICES ASSUME ActivityInv, Restart PROVE ActivityInv'
  OBVIOUS
<1>1. ActivityTypes
  BY DEF ActivityInv
<1>2. UNCHANGED <<rows, view, clicks, failures>>
  BY DEF Restart
<1>3. /\ load' \in [Tabs -> Loads]
      /\ \A u \in Tabs : load'[u] \in {load[u], NoLoad, Ask(u, TRUE), Ask(u, FALSE)}
  BY <1>1, NoLoadType DEF Restart, ActivityTypes
<1>4. product' \in [Tabs -> Products]
  BY <1>1, ProductTypes DEF Restart, ActivityTypes
<1>5. mark' \in [Tabs -> {"none", "rating", "download", "rated"}] /\ Pending' \subseteq Pending
  BY <1>1 DEF Restart, ActivityTypes, Pending
<1>6. restarts' \in 0..MaxRestarts
  BY <1>1, UserActivityAssumption DEF Restart, ActivityTypes
<1>7. ActivityTypes'
  BY <1>1, <1>2, <1>3, <1>4, <1>5, <1>6 DEF ActivityTypes
<1> QED BY <1>1, <1>2, <1>3, <1>5, <1>7, SameDownloads, QuietStep

----------------------------------------------------------------------------
(* Pages served and shown.                                                   *)

(* An answer changes one load; what MySQL answered goes on from the rows     *)
(* shown.                                                                    *)
LEMMA AnswerStep ==
  ASSUME ActivityInv, NEW t \in Tabs, NEW answer \in Loads, load[t].at = "asked",
         load' = [load EXCEPT ![t] = answer], answer.at = "answered",
         answer.append = load[t].append, answer.offset = load[t].offset,
         UNCHANGED <<rows, view, product, mark, clicks, restarts>>,
         failures' \in 0..MaxFailures, failures' \in {failures, failures + 1},
         Answered(t)'.mysql => Paged(Answered(t)')
  PROVE  ActivityInv'
<1>1. ActivityTypes /\ ViewInv /\ LoadInv /\ MarkInv
  BY DEF ActivityInv
<1>2. ActivityTypes'
  BY <1>1 DEF ActivityTypes
<1>3. ViewInv'
  BY <1>1 DEF ViewInv, Paged, PagedDownTo, Visible
<1>4. LoadInv'
  <2> SUFFICES ASSUME NEW u \in Tabs
               PROVE  /\ load'[u].at # "idle" /\ load'[u].append => load'[u].offset = view'[u].size
                      /\ load'[u].at # "idle" /\ ~load'[u].append => load'[u].offset = 0
                      /\ load'[u].at = "answered" /\ Answered(u)'.mysql => Paged(Answered(u))'
    BY DEF LoadInv
  <2>1. CASE u = t
    <3>1. load'[t] = answer
      BY <1>1 DEF ActivityTypes
    <3>2. Paged(Answered(t))' = Paged(Answered(t)')
      <4> HIDE DEF Answered
      <4> QED BY DEF Paged, PagedDownTo, Visible
    <3> QED BY <1>1, <2>1, <3>1, <3>2 DEF LoadInv
  <2>2. CASE u # t
    <3>1. load'[u] = load[u] /\ view' = view
      BY <1>1, <2>2 DEF ActivityTypes
    <3>2. Answered(u)' = Answered(u)
      BY <3>1, AnsweredKept
    <3>3. Paged(Answered(u))' = Paged(Answered(u))
      <4> HIDE DEF Answered
      <4> QED BY <3>2 DEF Paged, PagedDownTo, Visible
    <3> QED BY <1>1, <3>1, <3>2, <3>3 DEF LoadInv
  <2> QED BY <2>1, <2>2
<1>5. MarkInv'
  <2>1. clicks + failures <= clicks' + failures'
    <3>1. \A c, f \in Nat : c + f <= c + f /\ c + f <= c + (f + 1)
      OBVIOUS
    <3>2. clicks \in Nat /\ failures \in Nat
      BY <1>1 DEF ActivityTypes
    <3> QED BY <3>1, <3>2
  <2> QED BY <1>1, <1>2, <2>1, MarksKept, SameMarks, SameDownloads
<1> QED BY <1>2, <1>3, <1>4, <1>5 DEF ActivityInv

LEMMA ServeFromHiveKeeps == \A t \in Tabs : ActivityInv /\ ServeFromHive(t) => ActivityInv'
<1> SUFFICES ASSUME NEW t \in Tabs, ActivityInv, ServeFromHive(t) PROVE ActivityInv'
  OBVIOUS
<1>1. ActivityTypes
  BY DEF ActivityInv
<1>2. PICK page \in {FetchPage(0), {}} :
        load' = [load EXCEPT ![t] = [@ EXCEPT !.at = "answered", !.rows = page, !.more = FALSE,
                                             !.mysql = FALSE]]
  BY DEF ServeFromHive
<1> DEFINE answer == [load[t] EXCEPT !.at = "answered", !.rows = page, !.more = FALSE,
                                     !.mysql = FALSE]
<1>3. page \subseteq 1..MaxRow
  <2>1. FetchPage(0) \subseteq 1..Len(rows) /\ Len(rows) <= MaxRow /\ rows \in Seq(Row)
    BY <1>1, PageSize DEF ActivityTypes
  <2>2. 1..Len(rows) \subseteq 1..MaxRow
    BY <2>1, UserActivityAssumption
  <2> QED BY <2>1, <2>2
<1>4. /\ answer \in Loads /\ answer.at = "answered" /\ answer.append = load[t].append
      /\ answer.offset = load[t].offset /\ answer.mysql = FALSE
  BY <1>1, <1>3 DEF ActivityTypes, Loads
<1>5. load' = [load EXCEPT ![t] = answer] /\ load'[t] = answer
  BY <1>1, <1>2 DEF ActivityTypes
<1>6. /\ load[t].at = "asked" /\ UNCHANGED <<rows, view, product, mark, clicks, restarts>>
      /\ failures' = failures + 1 /\ failures < MaxFailures
  BY DEF ServeFromHive
<1>7. failures' \in 0..MaxFailures
  BY <1>1, <1>6, UserActivityAssumption DEF ActivityTypes
<1> HIDE DEF answer
<1>8. ~Answered(t)'.mysql
  BY <1>4, <1>5 DEF Answered
<1> QED BY <1>4, <1>5, <1>6, <1>7, <1>8, AnswerStep

LEMMA ServeHistoryKeeps == \A t \in Tabs : ActivityInv /\ ServeHistory(t) => ActivityInv'
<1> SUFFICES ASSUME NEW t \in Tabs, ActivityInv, ServeHistory(t) PROVE ActivityInv'
  OBVIOUS
<1>1. ActivityTypes /\ ViewInv /\ LoadInv
  BY DEF ActivityInv
<1> DEFINE page == FetchPage(load[t].offset)
           end == load[t].offset + Cardinality(page)
<1>2. PICK counted \in BOOLEAN :
        /\ counted \/ failures < MaxFailures
        /\ failures' = IF counted THEN failures ELSE failures + 1
        /\ load' = [load EXCEPT ![t] = [@ EXCEPT !.at = "answered", !.rows = page,
                      !.more = counted /\ end < Len(rows), !.counted = counted,
                      !.known = Len(rows)]]
  BY DEF ServeHistory
<1>3. load[t].at = "asked" /\ UNCHANGED <<rows, view, product, mark, clicks, restarts>>
  BY DEF ServeHistory
<1>4. /\ load[t] \in Loads /\ view[t] \in Views /\ rows \in Seq(Row) /\ Len(rows) \in 0..MaxRow
      /\ load[t].offset \in Nat
  <2>1. rows \in Seq(Row) /\ Len(rows) <= MaxRow /\ Len(rows) \in Nat
    BY <1>1 DEF ActivityTypes
  <2>2. load[t] \in Loads /\ view[t] \in Views
    BY <1>1 DEF ActivityTypes
  <2> QED BY <2>1, <2>2, UserActivityAssumption DEF Loads
<1>5. page \subseteq 1..MaxRow /\ Cardinality(page) \in Nat /\ end \in Nat
  <2>1. page \subseteq 1..Len(rows) /\ Cardinality(page) \in Nat
    BY <1>4, PageSize
  <2>2. 1..Len(rows) \subseteq 1..MaxRow
    BY <1>4, UserActivityAssumption
  <2> HIDE DEF page
  <2> QED BY <1>4, <2>1, <2>2
<1> DEFINE more == counted /\ end < Len(rows)
           answer == [load[t] EXCEPT !.at = "answered", !.rows = page, !.more = more,
                                     !.counted = counted, !.known = Len(rows)]
<1>6. more \in BOOLEAN /\ (counted /\ ~more => end >= Len(rows))
  <2> HIDE DEF end
  <2> QED BY <1>4, <1>5
<1> HIDE DEF page, more
<1>7. /\ answer \in Loads /\ answer.at = "answered" /\ answer.append = load[t].append
      /\ answer.offset = load[t].offset /\ answer.rows = page /\ answer.more = more
      /\ answer.counted = counted /\ answer.known = Len(rows) /\ answer.mysql = load[t].mysql
  BY <1>4, <1>5, <1>6 DEF Loads
<1>8. load' = [load EXCEPT ![t] = answer] /\ load'[t] = answer /\ view'[t] = view[t]
  BY <1>1, <1>2, <1>3 DEF ActivityTypes, more
<1>9. failures' \in 0..MaxFailures /\ failures' \in {failures, failures + 1}
  <2>1. failures' = failures \/ (failures < MaxFailures /\ failures' = failures + 1)
    BY <1>2
  <2>2. failures \in 0..MaxFailures
    BY <1>1 DEF ActivityTypes
  <2> QED BY <2>1, <2>2, UserActivityAssumption
<1> HIDE DEF answer
<1> DEFINE w == Answered(t)'
<1>10. /\ w.shown = page \cup (IF load[t].append THEN view[t].shown ELSE {})
       /\ w.size = Cardinality(page) + (IF load[t].append THEN view[t].size ELSE 0)
       /\ w.more = more /\ w.counted = counted
       /\ w.mysql => (load[t].append => view[t].mysql)
       /\ w.known = IF load[t].append THEN view[t].known ELSE Len(rows)
  BY <1>7, <1>8 DEF Answered
<1>11. w \in Views
  <2>1. ActivityTypes'
    BY <1>1, <1>3, <1>7, <1>8, <1>9 DEF ActivityTypes
  <2>2. (ActivityTypes => Answered(t) \in Views)'
    BY AnsweredType, PTL
  <2>3. Views' = Views
    BY DEF Views
  <2> QED BY <2>1, <2>2, <2>3
<1> HIDE DEF w
<1>12. w.mysql => Paged(w)
  <2> SUFFICES ASSUME w.mysql PROVE Paged(w)
    OBVIOUS
  <2>1. CASE load[t].append
    <3>1. load[t].offset = view[t].size /\ Paged(view[t])
      BY <1>1, <1>3, <1>10, <2>1 DEF LoadInv, ViewInv
    <3>2. PICK lo \in 1..view[t].known + 1 : PagedDownTo(lo, view[t])
      BY <3>1 DEF Paged
    <3>3. view[t].known <= Len(rows)
      BY <3>1 DEF Paged
    <3>4. /\ w.shown = view[t].shown \cup FetchPage(view[t].size) /\ w.known = view[t].known
          /\ w.size = view[t].size + Cardinality(FetchPage(view[t].size))
      <4>1. view[t].size \in Nat
        BY <1>4 DEF Views
      <4>2. page = FetchPage(view[t].size)
        BY <3>1 DEF page
      <4> QED BY <1>5, <1>10, <2>1, <4>1, <4>2
    <3>5. w.counted /\ ~w.more => w.size >= Len(rows)
      BY <1>6, <1>10, <3>1, <3>4 DEF page, end
    <3> QED BY <1>4, <1>11, <3>2, <3>3, <3>4, <3>5, PageExtends
  <2>2. CASE ~load[t].append
    <3> DEFINE v == [NoView EXCEPT !.known = Len(rows)]
    <3>1. /\ v \in Views /\ v.shown = {} /\ v.size = 0 /\ v.known = Len(rows)
      BY <1>4, NoViewType DEF NoView, Views
    <3>2. load[t].offset = 0
      BY <1>1, <1>3, <2>2 DEF LoadInv
    <3> HIDE DEF v
    <3>3. Len(rows) + 1 \in 1..v.known + 1 /\ v.known <= Len(rows)
      BY <1>4, <3>1
    <3>4. PagedDownTo(Len(rows) + 1, v)
      BY <1>4, <3>1, UserActivityAssumption DEF PagedDownTo, Visible
    <3>5. /\ w.shown = v.shown \cup FetchPage(v.size) /\ w.known = v.known
          /\ w.size = v.size + Cardinality(FetchPage(v.size))
      <4>1. page = FetchPage(v.size)
        BY <3>1, <3>2 DEF page
      <4> QED BY <1>5, <1>10, <2>2, <3>1, <4>1
    <3>6. w.counted /\ ~w.more => w.size >= Len(rows)
      <4>1. end = w.size
        BY <1>5, <1>10, <2>2, <3>2
      <4> QED BY <1>6, <1>10, <4>1
    <3> QED BY <1>4, <1>11, <3>1, <3>3, <3>4, <3>5, <3>6, PageExtends
  <2> QED BY <2>1, <2>2
<1> QED BY <1>3, <1>7, <1>8, <1>9, <1>12, AnswerStep DEF w

LEMMA ShowHistoryKeeps == \A t \in Tabs : ActivityInv /\ ShowHistory(t) => ActivityInv'
<1> SUFFICES ASSUME NEW t \in Tabs, ActivityInv, ShowHistory(t) PROVE ActivityInv'
  OBVIOUS
<1>1. ActivityTypes /\ ViewInv /\ LoadInv /\ MarkInv
  BY DEF ActivityInv
<1>2. /\ view' = [view EXCEPT ![t] = Answered(t)] /\ load' = [load EXCEPT ![t] = NoLoad]
      /\ UNCHANGED <<rows, product, mark, clicks, failures, restarts>> /\ load[t].at = "answered"
  BY DEF ShowHistory
<1>3. ActivityTypes'
  BY <1>1, <1>2, AnsweredType, NoLoadType DEF ActivityTypes
<1>4. /\ view'[t] = Answered(t) /\ load'[t] = NoLoad
      /\ \A u \in Tabs : u # t => view'[u] = view[u] /\ load'[u] = load[u]
  BY <1>1, <1>2 DEF ActivityTypes
<1>5. ViewInv'
  <2> SUFFICES ASSUME NEW u \in Tabs, view'[u].mysql PROVE Paged(view[u])'
    BY DEF ViewInv
  <2>1. Paged(view'[u])
    <3>1. CASE u = t
      BY <1>1, <1>2, <1>4, <3>1 DEF LoadInv
    <3>2. CASE u # t
      BY <1>1, <1>4, <3>2 DEF ViewInv
    <3> QED BY <3>1, <3>2
  <2>2. rows' = rows
    BY <1>2
  <2> QED BY <2>1, <2>2 DEF Paged, PagedDownTo, Visible
<1>6. LoadInv'
  <2> SUFFICES ASSUME NEW u \in Tabs
               PROVE  /\ load'[u].at # "idle" /\ load'[u].append => load'[u].offset = view'[u].size
                      /\ load'[u].at # "idle" /\ ~load'[u].append => load'[u].offset = 0
                      /\ load'[u].at = "answered" /\ Answered(u)'.mysql => Paged(Answered(u))'
    BY DEF LoadInv
  <2>1. CASE u = t
    BY <1>4, <2>1, NoLoadType
  <2>2. CASE u # t
    <3>1. load'[u] = load[u] /\ view'[u] = view[u]
      BY <1>4, <2>2
    <3>2. Answered(u)' = Answered(u)
      BY <3>1, AnsweredKept
    <3>3. Paged(Answered(u)) => Paged(Answered(u))'
      <4> HIDE DEF Answered
      <4>1. rows' = rows
        BY <1>2
      <4> QED BY <3>2, <4>1 DEF Paged, PagedDownTo, Visible
    <3> QED BY <1>1, <3>1, <3>2, <3>3 DEF LoadInv
  <2> QED BY <2>1, <2>2
<1>7. MarkInv'
  <2>1. clicks + failures <= clicks' + failures'
    <3>1. clicks + failures <= clicks + failures
      BY <1>1 DEF ActivityTypes
    <3> QED BY <1>2, <3>1
  <2> QED BY <1>1, <1>2, <1>3, <2>1, MarksKept, SameMarks, SameDownloads
<1> QED BY <1>3, <1>5, <1>6, <1>7 DEF ActivityInv

----------------------------------------------------------------------------
(* Ratings and downloads.                                                    *)

LEMMA MarkKeeps == \A t \in Tabs : ActivityInv /\ Mark(t) => ActivityInv'
<1> SUFFICES ASSUME NEW t \in Tabs, ActivityInv, Mark(t) PROVE ActivityInv'
  OBVIOUS
<1>1. ActivityTypes /\ ViewInv /\ LoadInv /\ MarkInv
  BY DEF ActivityInv
<1>2. PICK kind \in {"rating", "download"} : mark' = [mark EXCEPT ![t] = kind]
  BY DEF Mark
<1>3. /\ mark[t] = "none" /\ clicks' = clicks + 1 /\ clicks < MaxClicks
      /\ UNCHANGED <<rows, view, load, product, failures, restarts>>
  BY DEF Mark
<1>4. clicks \in Nat /\ failures \in Nat /\ clicks' \in 0..MaxClicks
  BY <1>1, <1>3, UserActivityAssumption DEF ActivityTypes
<1>5. ActivityTypes'
  BY <1>1, <1>2, <1>3, <1>4 DEF ActivityTypes
<1>6. ViewInv' /\ LoadInv'
  <2>1. GrowsTo(rows')
    BY <1>1, <1>3, SameDownloads
  <2> QED BY <1>1, <1>3, <1>5, <2>1, PagesKept
<1>7. MarkInv'
  <2>1. Pending' = Pending \cup {t} /\ t \notin Pending
    BY <1>1, <1>2, <1>3 DEF Pending, ActivityTypes
  <2>2. IsFiniteSet(Pending') /\ Cardinality(Pending') = Cardinality(Pending) + 1
    BY <1>1, <2>1, FS_AddElement DEF MarkInv
  <2>3. Cardinality(Pending) \in Nat /\ Cardinality(Downloads) \in Nat
    BY <1>1, FS_CardinalityType DEF MarkInv
  <2>4. Downloads' = Downloads
    BY <1>1, <1>3, SameDownloads
  <2>5. \A d, p, c, f \in Nat : d + p <= c + f => d + (p + 1) <= (c + 1) + f
    OBVIOUS
  <2>6. Cardinality(Downloads) + (Cardinality(Pending) + 1) <= (clicks + 1) + failures
    BY <1>1, <1>4, <2>3, <2>5 DEF MarkInv
  <2> QED BY <1>1, <1>3, <2>2, <2>4, <2>6 DEF MarkInv
<1> QED BY <1>5, <1>6, <1>7 DEF ActivityInv

\* At most one row answers to a name.
LEMMA OneTarget ==
  ASSUME ActivityTypes
  PROVE  /\ Target \subseteq 1..Len(rows) /\ \A i, j \in Target : i = j
<1>1. Len(rows) \in Nat /\ Named \subseteq 1..Len(rows)
  <2>1. rows \in Seq(Row)
    BY DEF ActivityTypes
  <2> QED BY <2>1 DEF Named
<1>2. \A i \in Target : i \in Named /\ i \in Nat
  BY <1>1 DEF Target
<1>3. \A i, j \in Target : i <= j /\ j <= i
  BY <1>2 DEF Target
<1>4. \A i, j \in Nat : i <= j /\ j <= i => i = j
  OBVIOUS
<1>5. Target \subseteq 1..Len(rows)
  BY <1>1, <1>2
<1> QED BY <1>2, <1>3, <1>4, <1>5

LEMMA ExecutionsType ==
  ASSUME NEW failed \in Nat, NEW times \in Executions(failed)
  PROVE  times \in Nat /\ times <= failed + 1
<1>1. PICK ran \in 0..failed : times = ran + (IF failed <= Retries THEN 1 ELSE 0)
  BY DEF Executions
<1> QED BY <1>1, UserActivityAssumption

\* The rows after a mark, and how many downloads it counts at most.
LEMMA RowsUpdated ==
  ASSUME ActivityTypes, IsFiniteSet(Downloads), NEW kind \in {"rating", "download"},
         NEW times \in Nat, rows' = Updated(kind, Target, times)
  PROVE  /\ GrowsTo(rows') /\ Len(rows') = Len(rows)
         /\ IsFiniteSet(Downloads') /\ Cardinality(Downloads') <= Cardinality(Downloads) + times
<1>1. rows \in Seq(Row) /\ Len(rows) \in Nat /\ DOMAIN rows = 1..Len(rows)
  BY DEF ActivityTypes
<1> DEFINE new(i) == IF i \notin Target \/ times = 0 THEN rows[i]
                     ELSE IF kind = "rating" THEN [rows[i] EXCEPT !.rating = TRUE]
                     ELSE [rows[i] EXCEPT !.downloads = rows[i].downloads + times]
<1>2. rows' = [i \in 1..Len(rows) |-> new(i)]
  BY DEF Updated
<1>3. \A i \in 1..Len(rows) :
        /\ new(i) \in Row /\ new(i).malformed = rows[i].malformed
        /\ new(i).downloads \in {rows[i].downloads, rows[i].downloads + times}
        /\ i \notin Target => new(i).downloads = rows[i].downloads
        /\ rows[i].downloads \in Nat
  <2> SUFFICES ASSUME NEW i \in 1..Len(rows)
               PROVE  /\ new(i) \in Row /\ new(i).malformed = rows[i].malformed
                      /\ new(i).downloads \in {rows[i].downloads, rows[i].downloads + times}
                      /\ i \notin Target => new(i).downloads = rows[i].downloads
                      /\ rows[i].downloads \in Nat
    OBVIOUS
  <2>1. rows[i] \in Row
    BY <1>1
  <2>2. rows[i].downloads + times \in Nat
    BY <2>1 DEF Row
  <2> QED BY <2>1, <2>2 DEF Row
<1> HIDE DEF new
<1>4. /\ rows' \in Seq(Row) /\ Len(rows') = Len(rows) /\ DOMAIN rows' = 1..Len(rows)
      /\ \A i \in 1..Len(rows) : rows'[i] = new(i)
  BY <1>1, <1>2, <1>3
<1>5. GrowsTo(rows')
  BY <1>1, <1>3, <1>4 DEF GrowsTo
<1>6. CASE Target = {}
  <2>1. Downloads' = Downloads
    <3>1. \A i \in 1..Len(rows) : rows'[i].downloads = rows[i].downloads
      BY <1>3, <1>4, <1>6
    <3> QED BY <1>1, <1>4, <3>1 DEF Downloads
  <2>2. Cardinality(Downloads) \in Nat
    BY FS_CardinalityType
  <2>3. Cardinality(Downloads) <= Cardinality(Downloads) + times
    BY <2>2
  <2> QED BY <1>4, <1>5, <2>1, <2>3
<1>7. CASE Target # {}
  <2>1. PICK m \in 1..Len(rows) : Target = {m}
    BY <1>7, OneTarget
  <2> DEFINE n == rows[m].downloads
             More == {m} \X (n + 1 .. n + times)
  <2>2. n \in Nat
    BY <1>3
  <2> HIDE DEF n
  <2>3. IsFiniteSet(More) /\ Cardinality(More) = times
    <3> DEFINE a == n + 1
               b == n + times
    <3>1. IsFiniteSet(a..b) /\ Cardinality(a..b) = times
      <4>1. a \in Int /\ b \in Int /\ (IF a > b THEN 0 ELSE b - a + 1) = times
        BY <2>2
      <4> HIDE DEF a, b
      <4> QED BY <4>1, FS_Interval
    <3>2. IsFiniteSet({m}) /\ Cardinality({m}) = 1
      BY FS_Singleton
    <3>3. IsFiniteSet(More) /\ Cardinality(More) = Cardinality({m}) * Cardinality(a..b)
      BY <3>1, <3>2, FS_Product
    <3>4. 1 * times = times
      OBVIOUS
    <3> QED BY <3>1, <3>2, <3>3, <3>4
  <2>4. Downloads' \subseteq Downloads \cup More
    <3> SUFFICES ASSUME NEW i \in 1..Len(rows), NEW d \in {i} \X (1..rows'[i].downloads)
                 PROVE  d \in Downloads \cup More
      BY <1>4 DEF Downloads
    <3>1. PICK k \in 1..new(i).downloads : d = <<i, k>>
      BY <1>4
    <3>2. CASE k <= rows[i].downloads
      <4>1. d \in {i} \X (1..rows[i].downloads)
        BY <1>3, <3>1, <3>2
      <4> QED BY <1>1, <4>1 DEF Downloads
    <3>3. CASE ~(k <= rows[i].downloads)
      <4>1. i = m
        BY <1>3, <2>1, <3>1, <3>3
      <4>2. k \in n + 1 .. n + times
        BY <1>3, <2>2, <3>1, <3>3, <4>1 DEF n
      <4> QED BY <3>1, <4>1, <4>2
    <3> QED BY <3>2, <3>3
  <2> HIDE DEF More
  <2>5. /\ IsFiniteSet(Downloads \cup More)
        /\ Cardinality(Downloads \cup More) <= Cardinality(Downloads) + times
    <3>1. /\ IsFiniteSet(Downloads \cup More)
          /\ Cardinality(Downloads \cup More)
               = Cardinality(Downloads) + Cardinality(More) - Cardinality(Downloads \cap More)
      BY <2>3, FS_Union
    <3>2. IsFiniteSet(Downloads \cap More)
      BY <2>3, FS_Intersection
    <3>3. /\ Cardinality(Downloads \cap More) \in Nat /\ Cardinality(Downloads) \in Nat
          /\ Cardinality(Downloads \cup More) \in Nat
      BY <3>1, <3>2, FS_CardinalityType
    <3> QED BY <2>3, <3>1, <3>3
  <2>6. IsFiniteSet(Downloads') /\ Cardinality(Downloads') <= Cardinality(Downloads \cup More)
    BY <2>4, <2>5, FS_Subset
  <2>7. /\ Cardinality(Downloads') \in Nat /\ Cardinality(Downloads \cup More) \in Nat
        /\ Cardinality(Downloads) \in Nat
    BY <2>5, <2>6, FS_CardinalityType
  <2>8. \A a, b, c \in Nat : a <= b /\ b <= c + times => a <= c + times
    OBVIOUS
  <2>9. Cardinality(Downloads') <= Cardinality(Downloads) + times
    BY <2>5, <2>6, <2>7, <2>8
  <2> QED BY <1>4, <1>5, <2>6, <2>9
<1> QED BY <1>6, <1>7

LEMMA ServeMarkKeeps == \A t \in Tabs : ActivityInv /\ ServeMark(t) => ActivityInv'
<1> SUFFICES ASSUME NEW t \in Tabs, ActivityInv, ServeMark(t) PROVE ActivityInv'
  OBVIOUS
<1>1. ActivityTypes /\ ViewInv /\ LoadInv /\ MarkInv
  BY DEF ActivityInv
<1>2. /\ mark[t] \in {"rating", "download"} /\ UNCHANGED <<view, load, product, clicks, restarts>>
      /\ mark' = [mark EXCEPT ![t] = IF mark[t] = "rating" THEN "rated" ELSE "none"]
  BY <1>1 DEF ServeMark, ActivityTypes
<1>3. mark' \in [Tabs -> {"none", "rating", "download", "rated"}]
  BY <1>1, <1>2 DEF ActivityTypes
<1>4. PICK times \in Nat :
        /\ GrowsTo(rows') /\ Len(rows') = Len(rows) /\ IsFiniteSet(Downloads')
        /\ Cardinality(Downloads') <= Cardinality(Downloads) + times
        /\ failures' \in 0..MaxFailures /\ failures + times <= failures' + 1
  <2>1. failures \in 0..MaxFailures /\ failures \in Nat
    BY <1>1, UserActivityAssumption DEF ActivityTypes
  <2>2. CASE ConnectFails /\ UNCHANGED rows
    <3>1. GrowsTo(rows') /\ Downloads' = Downloads
      BY <1>1, <2>2, SameDownloads
    <3>2. Cardinality(Downloads) <= Cardinality(Downloads) + 0
      BY <1>1, FS_CardinalityType DEF MarkInv
    <3>3. failures' \in 0..MaxFailures /\ failures + 0 <= failures' + 1
      BY <2>1, <2>2, UserActivityAssumption DEF ConnectFails
    <3> QED BY <1>1, <2>2, <3>1, <3>2, <3>3 DEF MarkInv
  <2>3. ASSUME NEW failed \in 0..Retries + 1, failures + failed <= MaxFailures,
               failures' = failures + failed, NEW times \in Executions(failed),
               rows' = Updated(mark[t], Target, times)
        PROVE  /\ times \in Nat
               /\ GrowsTo(rows') /\ Len(rows') = Len(rows) /\ IsFiniteSet(Downloads')
               /\ Cardinality(Downloads') <= Cardinality(Downloads) + times
               /\ failures' \in 0..MaxFailures /\ failures + times <= failures' + 1
    <3>1. failed \in Nat
      BY <2>3, UserActivityAssumption
    <3>2. times \in Nat /\ times <= failed + 1
      BY <3>1, ExecutionsType
    <3>3. failures + failed \in 0..MaxFailures /\ failures + times <= (failures + failed) + 1
      BY <2>1, <2>3, <3>1, <3>2, UserActivityAssumption
    <3>4. /\ GrowsTo(rows') /\ Len(rows') = Len(rows)
          /\ IsFiniteSet(Downloads') /\ Cardinality(Downloads') <= Cardinality(Downloads) + times
      BY <1>1, <1>2, <2>3, <3>2, RowsUpdated DEF MarkInv
    <3> QED BY <2>3, <3>2, <3>3, <3>4
  <2> QED BY <2>2, <2>3, <1>2 DEF ServeMark
<1>5. ActivityTypes'
  BY <1>1, <1>2, <1>3, <1>4 DEF ActivityTypes, GrowsTo
<1>6. ViewInv' /\ LoadInv'
  BY <1>1, <1>2, <1>4, <1>5, PagesKept
<1>7. MarkInv'
  <2>1. Pending' = Pending \ {t} /\ t \in Pending
    BY <1>1, <1>2 DEF Pending, ActivityTypes
  <2>2. IsFiniteSet(Pending') /\ Cardinality(Pending') = Cardinality(Pending) - 1
    BY <1>1, <2>1, FS_RemoveElement DEF MarkInv
  <2>3. /\ Cardinality(Pending) \in Nat /\ Cardinality(Downloads) \in Nat
        /\ Cardinality(Downloads') \in Nat
    BY <1>1, <1>4, FS_CardinalityType DEF MarkInv
  <2>4. clicks \in Nat /\ failures \in Nat /\ failures' \in Nat
    BY <1>1, <1>4, UserActivityAssumption DEF ActivityTypes
  <2>5. \A d, e, p, c, f, g \in Nat :
          d + p <= c + f /\ e <= d + times /\ f + times <= g + 1 => e + (p - 1) <= c + g
    OBVIOUS
  <2>6. Cardinality(Downloads') + (Cardinality(Pending) - 1) <= clicks + failures'
    BY <1>1, <1>4, <2>3, <2>4, <2>5 DEF MarkInv
  <2> QED BY <1>2, <1>4, <2>2, <2>6 DEF MarkInv
<1> QED BY <1>5, <1>6, <1>7 DEF ActivityInv

----------------------------------------------------------------------------
(* Every step.                                                               *)

LEMMA NextActivity == ActivityInv /\ [ActivityNext]_activityVars => ActivityInv'
<1> SUFFICES ASSUME ActivityInv, [ActivityNext]_activityVars PROVE ActivityInv'
  OBVIOUS
<1>1. CASE Restart
  BY <1>1, RestartKeeps
<1>2. CASE WriteElsewhere
  BY <1>2, WriteElsewhereKeeps
<1>3. ASSUME NEW t \in Tabs, ServerStep(t) PROVE ActivityInv'
  BY <1>3, ServeHistoryKeeps, ServeFromHiveKeeps, RefuseHistoryKeeps, ServeGenerateKeeps,
     ServeMarkKeeps, RefuseMarkKeeps DEF ServerStep
<1>4. ASSUME NEW t \in Tabs, AnswerShown(t) PROVE ActivityInv'
  BY <1>4, ShowHistoryKeeps, ShowResultKeeps, ShowRatingKeeps DEF AnswerShown
<1>5. ASSUME NEW t \in Tabs, LoadHistory(t) \/ Generate(t) \/ Mark(t) PROVE ActivityInv'
  BY <1>5, LoadHistoryKeeps, GenerateKeeps, MarkKeeps
<1>6. CASE UNCHANGED activityVars
  <2>1. ActivityTypes /\ UNCHANGED <<rows, view, load, product, mark, clicks, failures, restarts>>
    BY <1>6 DEF ActivityInv, activityVars
  <2>2. ActivityTypes'
    BY <2>1 DEF ActivityTypes
  <2> QED BY <2>1, <2>2, SameMarks, SameDownloads, QuietStep
<1> QED BY <1>1, <1>2, <1>3, <1>4, <1>5, <1>6 DEF ActivityNext

(* The inductive invariant of pages, loads and marks, whatever the tabs, the *)
(* server and other writers do in between.                                   *)
THEOREM ActivityInvariance == ActivitySpec => []ActivityInv
<1> QED BY InitActivity, NextActivity, PTL DEF ActivitySpec

(* The values the handlers of api.py and the client of App.vue leave have    *)
(* their types, and the bounds hold.                                         *)
THEOREM ActivityTypesHold == ActivitySpec => []ActivityTypes
<1>1. ActivityInv => ActivityTypes
  BY DEF ActivityInv
<1> QED BY <1>1, ActivityInvariance, PTL

(* loadHistory pages by the number of rows shown, get_user_history counts    *)
(* offsets from the newest row: for all pages and all rows, none of the rows *)
(* there were when the first page was read is passed over.                   *)
THEOREM HistoryHasNoHoles == ActivitySpec => []HistoryGapless
<1>1. ActivityInv => HistoryGapless
  <2> SUFFICES ASSUME ActivityInv, NEW t \in Tabs, view[t].mysql,
                      NEW i \in Visible \cap (1..view[t].known),
                      NoMore(t) \/ \E j \in view[t].shown : j < i
               PROVE  i \in view[t].shown
    BY DEF HistoryGapless
  <2>1. view[t] \in Views /\ Paged(view[t])
    BY DEF ActivityInv, ActivityTypes, ViewInv
  <2>2. PICK lo \in 1..view[t].known + 1 :
          PagedDownTo(lo, view[t]) /\ (view[t].counted /\ ~view[t].more => lo = 1)
    BY <2>1 DEF Paged
  <2>3. view[t].known \in Nat /\ \A j \in view[t].shown : j \in Nat /\ lo <= j
    BY <2>1, <2>2, UserActivityAssumption DEF Views, PagedDownTo
  <2>4. lo <= i /\ i <= view[t].known
    BY <2>2, <2>3 DEF NoMore
  <2> QED BY <2>2, <2>4 DEF PagedDownTo
<1> QED BY <1>1, ActivityInvariance, PTL

(* record_download answers success in every case and execute_query retries   *)
(* what may have run: a download is counted more than once only where a      *)
(* statement failed.                                                         *)
THEOREM DownloadsBounded == ActivitySpec => []DownloadsCounted
<1>1. ActivityInv => DownloadsCounted
  <2> SUFFICES ASSUME ActivityInv PROVE DownloadsCounted
    OBVIOUS
  <2>1. ActivityTypes /\ MarkInv
    BY DEF ActivityInv
  <2>2. Cardinality(Pending) \in Nat /\ Cardinality(Downloads) \in Nat
    BY <2>1, FS_CardinalityType DEF MarkInv
  <2>3. clicks \in Nat /\ failures \in Nat
    BY <2>1 DEF ActivityTypes
  <2>4. \A d, p, c, f \in Nat : d + p <= c + f => d <= c + f
    OBVIOUS
  <2> QED BY <2>1, <2>2, <2>3, <2>4 DEF MarkInv, DownloadsCounted
<1> QED BY <1>1, ActivityInvariance, PTL

==============================================================================
