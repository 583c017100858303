---------------------------- MODULE BuyerProfiles ----------------------------
(***************************************************************************)
(* The accounts of buyers: registration and changes of the profile         *)
(* (routes/users.js).  A change reads the row, checks the phone and the    *)
(* password, hashes for a while, and then writes all columns back, the     *)
(* password hash it read included: statements that commit by themselves.   *)
(* That a phone is unique is a constraint of the "Users" table, which the  *)
(* repository does not create; both routes answer its violation.           *)
(***************************************************************************)
EXTENDS Integers, FiniteSets

CONSTANTS
  Accounts,      \* user_id values
  Phones,
  Secrets,       \* passwords
  AccountLimit,  \* buyer.accounts.max
  Changes,       \* bound: changes under way
  Blank          \* no row; no change; no new password

Profiles == [phone : Phones, secret : Secrets]

ASSUME ProfilesAssumption ==
  /\ Blank \notin Secrets \cup Profiles \cup Accounts
  /\ AccountLimit \in Nat

VARIABLES
  profile,  \* the "Users" rows
  change,   \* per change under way: what it read and what it will write
  chosen,   \* history: the password each buyer chose last
  raced     \* history: buyers of whom a change was written during another one

profileVars == <<profile, change, chosen, raced>>

NoChange == [of |-> Blank]
Registered == {u \in Accounts : profile[u] # Blank}
Taken(phone, u) == \E other \in Registered \ {u} : profile[other].phone = phone

ProfilesInit ==
  /\ profile = [u \in Accounts |-> Blank]
  /\ change = [j \in Changes |-> NoChange]
  /\ chosen = [u \in Accounts |-> Blank]
  /\ raced = {}

\* users/register: a quota under the lock of the instance, then the INSERT.
Register(u, phone, secret) ==
  /\ u \notin Registered /\ ~Taken(phone, u)
  /\ Cardinality(Registered) + 1 <= AccountLimit
  /\ profile' = [profile EXCEPT ![u] = [phone |-> phone, secret |-> secret]]
  /\ chosen' = [chosen EXCEPT ![u] = secret]
  /\ UNCHANGED <<change, raced>>

\* Seeded fault: the session is proof enough.
FaultTrustsTheSession(u, original) == TRUE
Knows(u, original) == profile[u].secret = original

\* users/profile/update up to the hash.
ReadProfile(j, u, phone, original, new) ==
  /\ change[j] = NoChange
  /\ u \in Registered
  /\ phone # profile[u].phone => ~Taken(phone, u)
  /\ new # Blank => Knows(u, original)
  /\ change' = [change EXCEPT ![j] =
       [of |-> u, phone |-> phone, original |-> original, new |-> new,
        read |-> profile[u].secret]]
  /\ UNCHANGED <<profile, chosen, raced>>

\* Seeded fault: the hash is left out of the columns that are written.
FaultKeepsTheHash(w) == w.read
SecretToWrite(w) == IF w.new = Blank THEN w.read ELSE w.new

WriteProfile(j) ==
  LET w == change[j]
      others == {k \in Changes \ {j} : change[k].of = w.of}
  IN /\ w # NoChange
     /\ IF Taken(w.phone, w.of)
        THEN UNCHANGED <<profile, chosen, raced>>
        ELSE /\ profile' = [profile EXCEPT ![w.of] =
                  [phone |-> w.phone, secret |-> SecretToWrite(w)]]
             /\ chosen' = [chosen EXCEPT ![w.of] = IF w.new = Blank THEN @ ELSE w.new]
             /\ raced' = IF others = {} THEN raced ELSE raced \cup {w.of}
     /\ change' = [change EXCEPT ![j] = NoChange]

ProfilesNext ==
  \/ \E u \in Accounts, phone \in Phones, secret \in Secrets : Register(u, phone, secret)
  \/ \E j \in Changes :
       \/ WriteProfile(j)
       \/ \E u \in Accounts, phone \in Phones, original \in Secrets,
             new \in Secrets \cup {Blank} :
            ReadProfile(j, u, phone, original, new)

ProfilesSpec == ProfilesInit /\ [][ProfilesNext]_profileVars
-----------------------------------------------------------------------------
(* Properties                                                              *)

\* A password stays the one its owner chose last, unless another change of the
\* profile was under way when one was written: that one writes back the hash
\* it had read.
PasswordChangesStick ==
  \A u \in Registered \ raced : profile[u].secret = chosen[u]

\* Only who knows the password in force replaces it, with the same proviso: a
\* change that was read before another was written knows the one before.
OwnersChangePasswords ==
  \A u \in Registered \ raced :
    profile'[u].secret # profile[u].secret =>
      \E j \in Changes : change[j].of = u /\ change[j].original = profile[u].secret

\* Both: a password is what its owner chose, and only its owner chooses.
PasswordsStayTheirOwners ==
  [][PasswordChangesStick' /\ OwnersChangePasswords]_profileVars
=============================================================================
