--------------------------- MODULE LoginThrottle ---------------------------
(***************************************************************************)
(* The lockouts of local sign-in, src/lib/login-throttle.ts: rows of       *)
(* login_throttles that attempts to sign in (authorize in src/lib/auth.ts) *)
(* read before the password is compared and count afterwards.              *)
(*                                                                         *)
(* An attempt for an account from a source concerns three rows, or, when   *)
(* the source is unknown, only that of the account.  Time is counted in    *)
(* units of the first lockout, and each step reads the clock anew.         *)
(***************************************************************************)
EXTENDS Integers, FiniteSets

CONSTANTS
  Emails, Sources,
  UnknownSource,  \* no address that may be trusted
  Attempts,       \* attempts in flight
  NoAttempt,      \* a free slot, no row, no date
  AccountLimit, SourceLimit, PairLimit,  \* 8, 20 and 5 failures
  MaxDoublings,   \* 6: the longest lockout is 2^6 units
  MaxLockout,     \* 96 units, 24 hours
  RecordTtl,      \* 96 units
  MaxTime         \* bound: the clock

ASSUME ThrottleAssumption ==
  /\ UnknownSource \in Sources
  /\ {AccountLimit, SourceLimit, PairLimit} \subseteq Nat \ {0}
  /\ MaxDoublings \in Nat
  /\ MaxLockout \in Nat \ {0}
  /\ RecordTtl \in Nat /\ RecordTtl >= MaxLockout
  /\ MaxTime \in Nat
  /\ IsFiniteSet(Attempts) /\ Attempts # {}

VARIABLES
  throttle,   \* throttle[k]: the row of key k, or NoAttempt
  attempting, \* attempting[a]: the attempt in slot a, or NoAttempt
  time,
  overrun     \* history: failures counted for k since its lockout began

throttleVars == <<throttle, attempting, time, overrun>>

(* The keys: scope and value.                                              *)
AccountKey(e) == [scope |-> "account", email |-> e, source |-> UnknownSource]
SourceKey(s) == [scope |-> "source", email |-> NoAttempt, source |-> s]
PairKey(e, s) == [scope |-> "account_source", email |-> e, source |-> s]

KnownSources == Sources \ {UnknownSource}
Keys ==
  {AccountKey(e) : e \in Emails} \cup {SourceKey(s) : s \in KnownSources}
    \cup {PairKey(e, s) : e \in Emails, s \in KnownSources}

Descriptors(e, s) ==
  IF s = UnknownSource THEN {AccountKey(e)}
  ELSE {AccountKey(e), SourceKey(s), PairKey(e, s)}

ScopeLimit(k) ==
  CASE k.scope = "account" -> AccountLimit
    [] k.scope = "source" -> SourceLimit
    [] OTHER -> PairLimit

SmallerOf(a, b) == IF a < b THEN a ELSE b
LargerOf(a, b) == IF a < b THEN b ELSE a

(* How long the failureCount-th failure locks key k, 0 when it does not.   *)
Lockout(k, failureCount) ==
  IF failureCount < ScopeLimit(k) THEN 0
  ELSE SmallerOf(MaxLockout,
    2 ^ SmallerOf(MaxDoublings, (failureCount - ScopeLimit(k)) \div ScopeLimit(k)))

(* blockedUntil 0 stands for null: a lockout ends after time 0.            *)
ThrottleRow ==
  [failureCount : Nat \ {0}, blockedUntil : Nat, expiresAt : Nat]

(* An attempt whose password is being compared.                            *)
Attempt == [email : Emails, source : Sources]

ThrottleTypeOK ==
  /\ throttle \in [Keys -> ThrottleRow \cup {NoAttempt}]
  /\ attempting \in [Attempts -> Attempt \cup {NoAttempt}]
  /\ time \in 0..MaxTime
  /\ overrun \in [Keys -> Nat]

ThrottleInit ==
  /\ throttle = [k \in Keys |-> NoAttempt]
  /\ attempting = [a \in Attempts |-> NoAttempt]
  /\ time = 0
  /\ overrun = [k \in Keys |-> 0]

HasRow(k) == throttle[k] # NoAttempt
BlockedUntil(k) == IF HasRow(k) THEN throttle[k].blockedUntil ELSE 0
Blocked(k) == BlockedUntil(k) > time

Comparing(a) == attempting[a] # NoAttempt
KeysOf(a) == Descriptors(attempting[a].email, attempting[a].source)

-----------------------------------------------------------------------------
(* checkLoginThrottle removes the expired rows of every key ...            *)
Swept == [k \in Keys |->
  IF HasRow(k) /\ throttle[k].expiresAt < time THEN NoAttempt ELSE throttle[k]]

IsAccountBlocked(e, s) == Blocked(AccountKey(e))  \* mutant: the account's row alone
IsBlocked(e, s) == \E k \in Descriptors(e, s) : Blocked(k)

(* ... and lets the attempt on to the password unless a row blocks it.     *)
CheckLoginThrottle(a, e, s) ==
  /\ ~Comparing(a)
  /\ throttle' = Swept
  /\ attempting' = [attempting EXCEPT ![a] =
       IF IsBlocked(e, s) THEN NoAttempt ELSE [email |-> e, source |-> s]]
  /\ UNCHANGED <<time, overrun>>

(* recordLoginFailure for one key: the count goes on, a lockout is never   *)
(* shortened, and the row lives a day longer than it.                      *)
Failed(k) ==
  LET count == IF HasRow(k) THEN throttle[k].failureCount + 1 ELSE 1
      lock == Lockout(k, count)
      proposed == IF lock = 0 THEN 0 ELSE time + lock
  IN [failureCount |-> count,
      blockedUntil |-> LargerOf(BlockedUntil(k), proposed),
      expiresAt |-> IF proposed > BlockedUntil(k) THEN proposed + RecordTtl
                    ELSE time + RecordTtl]

RecordLoginFailure(a) ==
  /\ Comparing(a)
  /\ throttle' = [k \in Keys |-> IF k \in KeysOf(a) THEN Failed(k) ELSE throttle[k]]
  /\ overrun' = [k \in Keys |->
       IF k \notin KeysOf(a) THEN overrun[k]
       ELSE IF Blocked(k) THEN overrun[k] + 1 ELSE 0]
  /\ attempting' = [attempting EXCEPT ![a] = NoAttempt]
  /\ UNCHANGED time

Clearable(keys) == {k \in keys : k.scope # "source"}
ResetInPlace(keys) ==  \* mutant: rows are reset and not deleted
  [k \in Keys |-> IF k \in Clearable(keys) /\ HasRow(k)
                  THEN [throttle[k] EXCEPT !.failureCount = 0] ELSE throttle[k]]
Cleared(keys) ==
  [k \in Keys |-> IF k \in Clearable(keys) THEN NoAttempt ELSE throttle[k]]

(* The password was right: clearLoginFailures(email, sourceIp).            *)
SucceedLogin(a) ==
  /\ Comparing(a)
  /\ throttle' = Cleared(KeysOf(a))
  /\ attempting' = [attempting EXCEPT ![a] = NoAttempt]
  /\ UNCHANGED <<time, overrun>>

(* An administrator sets a new password: clearLoginFailures(e, 'unknown'). *)
ResetPassword(e) ==
  /\ throttle' = Cleared(Descriptors(e, UnknownSource))
  /\ throttle' # throttle
  /\ UNCHANGED <<attempting, time, overrun>>

PassTime ==
  /\ time < MaxTime
  /\ time' = time + 1
  /\ UNCHANGED <<throttle, attempting, overrun>>

ThrottleNext ==
  \/ \E a \in Attempts, e \in Emails, s \in Sources : CheckLoginThrottle(a, e, s)
  \/ \E a \in Attempts : RecordLoginFailure(a) \/ SucceedLogin(a)
  \/ \E e \in Emails : ResetPassword(e)
  \/ PassTime

ThrottleSpec == ThrottleInit /\ [][ThrottleNext]_throttleVars

-----------------------------------------------------------------------------
(* The check comes before the comparison and the count after it, so some   *)
(* attempts are compared during a lockout: only those that had passed the  *)
(* check before it began, one less than the attempts in flight.            *)
LockoutsHold == \A k \in Keys : overrun[k] < Cardinality(Attempts)
=============================================================================
