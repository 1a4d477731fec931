---------------------------- MODULE LoginThrottle ----------------------------
(***************************************************************************)
(* The login throttle: attempts per address and minute, and the lockout of *)
(* an account after repeated failures. Each entry has a mutex and is one   *)
(* step; the maps have none, so a step that found an entry may still use   *)
(* it after EvictStale took it out of the map. Time is in ticks of one     *)
(* minute window.                                                          *)
(***************************************************************************)
EXTENDS Naturals

CONSTANTS
    Attempts,  \* concurrent login requests
    Accounts, IPs,
    loginMaxAttemptsPerIPPerMinute,
    loginLockoutThreshold,
    loginLockoutDuration,
    loginAccountIdleEviction,
    MaxTime    \* bound of the clock

VARIABLES
    now,
    ip,       \* ipCounters: [windowStart, count], NoIP when the map has no entry
    account,  \* accounts: entries by email, NoAccount when the map has none
    pc,       \* per attempt: idle, trying, failing
    email,    \* per attempt: the account it tries
    held,     \* per attempt: it found the entry before that left the map
    evicting, \* what EvictStale decided to delete and has not yet deleted
    earned,   \* history: failures of an account in a row, and the lockout they earn
    admitted, \* history: attempts admitted per address in the current minute
    raced     \* history: EvictStale deleted, or a failure went to, a changed entry

throttleVars == <<now, ip, account, pc, email, held, evicting, earned, admitted, raced>>

\* The limits and durations are counts.
ThrottleParameters ==
    /\ loginMaxAttemptsPerIPPerMinute \in Nat /\ loginLockoutThreshold \in Nat
    /\ loginLockoutDuration \in Nat /\ loginAccountIdleEviction \in Nat

NoIP == [windowStart |-> 0, count |-> 0]
NoAccount == [failures |-> 0, lockedUntil |-> 0, lastFailure |-> 0, there |-> FALSE]

NoStreak == [failures |-> 0, last |-> 0, until |-> 0]

ThrottleInit ==
    /\ now = 1
    /\ ip = [a \in IPs |-> NoIP]
    /\ account = [e \in Accounts |-> NoAccount]
    /\ pc = [p \in Attempts |-> "idle"]
    /\ email \in [Attempts -> Accounts]
    /\ held = [p \in Attempts |-> FALSE]
    /\ evicting = {}
    /\ earned = [e \in Accounts |-> NoStreak]
    /\ admitted = [a \in IPs |-> 0]
    /\ raced = FALSE

Tick ==
    /\ now < MaxTime /\ now' = now + 1
    /\ admitted' = [a \in IPs |-> 0]
    /\ earned' = [e \in Accounts |->
          IF \/ earned[e].until # 0 /\ earned[e].until <= now'
             \/ now' - earned[e].last > loginAccountIdleEviction
          THEN NoStreak ELSE earned[e]]
    /\ UNCHANGED <<ip, account, pc, email, held, evicting, raced>>

(* The count of the address is charged whether or not the attempt passes. *)
Charge(a) ==
    IF ip[a].windowStart # now THEN [windowStart |-> now, count |-> 1]
                               ELSE [ip[a] EXCEPT !.count = @ + 1]

(* An expired lockout is cleared; loadOrCreateAccount put the entry there. *)
Checked(e) ==
    IF account[e].lockedUntil # 0 /\ now >= account[e].lockedUntil
    THEN [account[e] EXCEPT !.lockedUntil = 0, !.failures = 0, !.there = TRUE]
    ELSE [account[e] EXCEPT !.there = TRUE]

Locked(e) == account[e].lockedUntil # 0 /\ now < account[e].lockedUntil

Allow(p, a, e) ==
    /\ pc[p] = "idle"
    /\ ip[a].windowStart = now => ip[a].count <= loginMaxAttemptsPerIPPerMinute \* bound
    /\ ip' = [ip EXCEPT ![a] = Charge(a)]
    /\ IF Charge(a).count > loginMaxAttemptsPerIPPerMinute
       THEN UNCHANGED <<account, pc, email, admitted, earned>>
       ELSE /\ account' = [account EXCEPT ![e] = Checked(e)]
            /\ earned' = IF account[e].lockedUntil # 0 /\ ~Locked(e)
                         THEN [earned EXCEPT ![e] = NoStreak] ELSE earned
            /\ admitted' = [admitted EXCEPT ![a] = @ + 1]
            /\ IF Locked(e) THEN UNCHANGED <<pc, email>>
               ELSE pc' = [pc EXCEPT ![p] = "trying"] /\ email' = [email EXCEPT ![p] = e]
    /\ UNCHANGED <<now, held, evicting, raced>>

(* The password is wrong: loadOrCreateAccount, before the entry's lock. *)
loadOrCreateAccount(p) ==
    /\ pc[p] = "trying"
    /\ pc' = [pc EXCEPT ![p] = "failing"]
    /\ account' = [account EXCEPT ![email[p]].there = TRUE]
    /\ held' = [held EXCEPT ![p] = TRUE]
    /\ UNCHANGED <<now, ip, email, evicting, earned, admitted, raced>>

Failed(entry) ==
    [entry EXCEPT !.failures = @ + 1, !.lastFailure = now,
                  !.lockedUntil = IF entry.failures + 1 >= loginLockoutThreshold
                                  THEN now + loginLockoutDuration ELSE @]

RecordFailure(p) ==
    LET e == email[p] IN
    /\ pc[p] = "failing"
    /\ pc' = [pc EXCEPT ![p] = "idle"]
    /\ held' = [held EXCEPT ![p] = FALSE]
    /\ IF held[p]
       THEN account' = [account EXCEPT ![e] = Failed(@)] /\ UNCHANGED raced
       ELSE raced' = TRUE /\ UNCHANGED account
    /\ earned' = [earned EXCEPT ![e] =
          [failures |-> @.failures + 1, last |-> now,
           until |-> IF @.failures + 1 >= loginLockoutThreshold THEN now + loginLockoutDuration
                                                                ELSE 0]]
    /\ UNCHANGED <<now, ip, email, evicting, admitted>>

RecordSuccess(p) ==
    /\ pc[p] = "trying"
    /\ pc' = [pc EXCEPT ![p] = "idle"]
    /\ account' = [account EXCEPT ![email[p]].failures = 0, ![email[p]].lockedUntil = 0,
                                  ![email[p]].there = TRUE]
    /\ earned' = [earned EXCEPT ![email[p]] = NoStreak]
    /\ UNCHANGED <<now, ip, email, held, evicting, admitted, raced>>

(***************************************************************************)
(* EvictStale decides under the entry's lock and deletes after it.         *)
(***************************************************************************)
StaleIP(a) == ip[a].count # 0 /\ ip[a].windowStart < now

\* Mutant: an entry with failures is deleted before it is idle.
StaleAccountTooEarly(e) == account[e].there /\ (account[e].lockedUntil = 0 \/ now > account[e].lockedUntil)

StaleAccount(e) ==
    LET x == account[e] IN
    /\ x.there
    /\ x.lockedUntil = 0 \/ now > x.lockedUntil
    /\ x.failures = 0 \/ (x.lastFailure # 0 /\ now - x.lastFailure > loginAccountIdleEviction)

Decide ==
    /\ evicting = {}
    /\ \/ \E a \in IPs : StaleIP(a) /\ evicting' = {<<"ip", a, ip[a]>>}
       \/ \E e \in Accounts : StaleAccount(e) /\ evicting' = {<<"account", e, account[e]>>}
    /\ UNCHANGED <<now, ip, account, pc, email, held, earned, admitted, raced>>

Delete ==
    \E d \in evicting :
        /\ evicting' = {}
        /\ IF d[1] = "ip"
           THEN /\ ip' = [ip EXCEPT ![d[2]] = NoIP]
                /\ raced' = (raced \/ ip[d[2]] # d[3])
                /\ UNCHANGED <<account, held>>
           ELSE /\ account' = [account EXCEPT ![d[2]] = NoAccount]
                /\ held' = [p \in Attempts |-> held[p] /\ email[p] # d[2]]
                /\ raced' = (raced \/ account[d[2]] # d[3])
                /\ UNCHANGED ip
        /\ UNCHANGED <<now, pc, email, earned, admitted>>

ThrottleNext ==
    \/ Tick \/ Decide \/ Delete
    \/ \E p \in Attempts : loadOrCreateAccount(p) \/ RecordFailure(p) \/ RecordSuccess(p)
    \/ \E p \in Attempts, a \in IPs, e \in Accounts : Allow(p, a, e)

ThrottleSpec == ThrottleInit /\ [][ThrottleNext]_throttleVars

\* What a step may let through.
Admits ==
    ~raced =>
        /\ \A p \in Attempts : pc[p] = "idle" /\ pc'[p] = "trying" => now >= earned[email'[p]].until
        /\ \A a \in IPs : admitted'[a] <= loginMaxAttemptsPerIPPerMinute

(* While a lockout the failures of an account earned is running, no        *)
(* attempt on the account is admitted, whatever EvictStale removes, except *)
(* through the one race the code has: an entry that changed between the    *)
(* decision to delete it and its deletion. An address passes no more than  *)
(* its attempts of a minute, with the same exception.                      *)
ThrottleHolds == [][Admits]_throttleVars
=============================================================================
