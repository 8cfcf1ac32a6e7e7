------------------------------ MODULE Sessions ------------------------------
(***************************************************************************)
(* Accounts and tokens of src/backend/auth.py: register, login, refresh    *)
(* and the check every protected endpoint makes.  A token carries its type *)
(* and its expiry and nothing on the server remembers it, so a session     *)
(* ends only because tokens do.  Of a user's tokens of a type the one that *)
(* expires last stands for all, by the time it has left; `age' is the time *)
(* since the user last showed a password.                                  *)
(*                                                                         *)
(* A definition marked `Slip:' is a mistake the code could have made where *)
(* the next definition is right; nothing uses it.                          *)
(***************************************************************************)
EXTENDS Naturals

CONSTANTS
  Users,
  AccessLife,   \* ACCESS_EXPIRE_MIN, 60 minutes in the code
  RefreshLife   \* REFRESH_EXPIRE_DAYS, 30 days in the code

ASSUME LivesAssumption == AccessLife \in Nat \ {0} /\ RefreshLife \in Nat \ {0}

VARIABLES
  registered,   \* users with a row
  access,       \* time left of each user's access tokens, 0 if there is none
  refresh,      \* and of the refresh tokens
  age           \* history: time since the last password check

sessionVars == <<registered, access, refresh, age>>

SessionLimit == RefreshLife + AccessLife

SessionTypeOK ==
  /\ registered \subseteq Users
  /\ access \in [Users -> 0..AccessLife]
  /\ refresh \in [Users -> 0..RefreshLife]
  /\ age \in [Users -> 0..SessionLimit]

SessionInit ==
  /\ registered = {}
  /\ access = [u \in Users |-> 0] /\ refresh = [u \in Users |-> 0]
  /\ age = [u \in Users |-> 0]

\* get_current_user() finds an access token that has not expired.
Authorised(u) == access[u] > 0

GivePair(u) ==
  /\ access' = [access EXCEPT ![u] = AccessLife]
  /\ refresh' = [refresh EXCEPT ![u] = RefreshLife]
  /\ age' = [age EXCEPT ![u] = 0]

RegisterSession(u) ==
  /\ u \notin registered
  /\ registered' = registered \cup {u}
  /\ GivePair(u)

Login(u) == u \in registered /\ GivePair(u) /\ UNCHANGED registered

\* Slip: any token that can be decoded is taken for a refresh token.
TakesAnyToken(u) == refresh[u] > 0 \/ access[u] > 0
TakesRefreshToken(u) == refresh[u] > 0

\* /auth/refresh: a new access token; the refresh token stays as it is.
Refresh(u) ==
  /\ TakesRefreshToken(u)
  /\ access' = [access EXCEPT ![u] = AccessLife]
  /\ UNCHANGED <<registered, refresh, age>>

Less(n) == IF n > 0 THEN n - 1 ELSE 0

TimePasses ==
  /\ access' = [u \in Users |-> Less(access[u])]
  /\ refresh' = [u \in Users |-> Less(refresh[u])]
  /\ age' = [u \in Users |-> IF age[u] < SessionLimit THEN age[u] + 1 ELSE age[u]]
  /\ UNCHANGED registered

(***************************************************************************)
(* Whoever got in with a password is out again once a refresh token and    *)
(* one access token have run out, whatever was renewed in between.         *)
(***************************************************************************)
SessionsEnd == \A u \in Users : Authorised(u) => age[u] < SessionLimit
=============================================================================
