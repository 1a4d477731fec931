----------------------------- MODULE RateLimiter -----------------------------
(***************************************************************************)
(* ratelimit.RateLimiter: the in-memory request limiter.  CheckRate passes *)
(* through one counter per limited scope and window kind; tryIncrement     *)
(* works on a counter with atomic loads and a compare-and-swap, and takes  *)
(* the entry's mutex only to roll the window over; EvictStale deletes      *)
(* counters concurrently.  Every atomic operation of the code is a step of *)
(* its own, except that Lock, the second load and windowStart.Store are    *)
(* one: only the holder of the mutex writes windowStart.                   *)
(***************************************************************************)
EXTENDS Integers, Sequences

CONSTANTS
    Procs,         \* goroutines calling CheckRate
    KeyScopes,     \* the Scopes of the keys in use: [key, user, team, org], "" if empty
    Limit,         \* Limit[<<scope, id, kind>>], with the org for a user: requests per minute or day, 0 if unlimited
    MinutesPerDay, \* windows: a day is this many minutes
    MaxMinutes,    \* bound: minutes the clock advances
    MaxCalls,      \* bound: calls of CheckRate
    MaxEntries     \* bound: entries allocated for one counter

Counters == DOMAIN Limit

VARIABLES
    clock,     \* the clock, in minutes
    table,     \* minuteCounters and dayCounters: the entry a counter maps to, 0 if none
    gen,       \* entries allocated per counter
    heap,      \* the entries: count, windowStart, and who holds mu
    proc,      \* what each goroutine is doing
    evictor,   \* what EvictStale is doing
    calls,     \* calls made so far
    granted,   \* history: requests an entry let through since its count was last stored
    allowed,   \* history: requests let through per counter and window
    unjust     \* history: some request was refused by a counter that was not used up

rateVars == <<clock, table, gen, heap, proc, evictor, calls, granted, allowed, unjust>>

\* Limits are counts, a day has its minutes, and there is room for an entry.
RateParameters ==
    /\ Limit \in [Counters -> Nat] /\ MinutesPerDay \in Nat \ {0}
    /\ MaxMinutes \in Nat \ {0} /\ MaxEntries \in Nat \ {0}

Free == "free"

Entries == Counters \X (1..MaxEntries)

newEntry == [count |-> 0, windowStart |-> 0, mu |-> Free]

NoCall == [pc |-> "idle"]

Asleep == [pc |-> "asleep"]

\* now.Truncate(time.Minute), or the start of the day.  Windows start at 1: a
\* new entry's windowStart of 0 is no window.
WindowAt(c, t) == IF c[3] = "minute" THEN t ELSE 1 + ((t - 1) \div MinutesPerDay)

\* The counters CheckRate may consult, in its order: key, user, team, org, the
\* minute before the day.  A user's counters are per organisation.
checks(s) == << <<"key", s.key, "minute">>, <<"key", s.key, "day">>,
                <<"user", s.user, "minute", s.org>>, <<"user", s.user, "day", s.org>>,
                <<"team", s.team, "minute">>, <<"team", s.team, "day">>,
                <<"org", s.org, "minute">>, <<"org", s.org, "day">> >>

\* Those after the i-th it does consult: not the empty scopes, nor the unlimited.
After(s, i) ==
    {j \in (i + 1)..8 : checks(s)[j][2] # "" /\ checks(s)[j] \in Counters /\ Limit[checks(s)[j]] > 0}

First(S) == CHOOSE i \in S : \A j \in S : i <= j

Counter(p) == checks(proc[p].s)[proc[p].i]

Entry(p) == <<Counter(p), proc[p].e>>

Window(p) == WindowAt(Counter(p), proc[p].t)

RateInit ==
    /\ clock = 1
    /\ table = [c \in Counters |-> 0]
    /\ gen = [c \in Counters |-> 0]
    /\ heap = [e \in Entries |-> newEntry]
    /\ proc = [p \in Procs |-> NoCall]
    /\ evictor = Asleep
    /\ calls = 0
    /\ granted = [e \in Entries |-> 0]
    /\ allowed = [c \in Counters |-> [w \in 1..MaxMinutes |-> 0]]
    /\ unjust = FALSE

-----------------------------------------------------------------------------
(* CheckRate and tryIncrement.                                             *)

\* CheckRate takes its scopes and the time, once for all its checks.
CallCheckRate(p) ==
    /\ proc[p] = NoCall
    /\ calls < MaxCalls
    /\ \E s \in KeyScopes :
           /\ After(s, 0) # {}
           /\ proc' = [proc EXCEPT ![p] =
                 [pc |-> "lookup", s |-> s, t |-> clock, i |-> First(After(s, 0)), e |-> 0, cur |-> 0]]
    /\ calls' = calls + 1
    /\ UNCHANGED <<clock, table, gen, heap, evictor, granted, allowed, unjust>>

\* Load, or LoadOrStore of a fresh entry.
loadOrCreate(p) ==
    LET c == Counter(p)
        e == IF table[c] = 0 THEN gen[c] + 1 ELSE table[c]
    IN  /\ proc[p].pc = "lookup"
        /\ table' = [table EXCEPT ![c] = e]
        /\ gen' = [gen EXCEPT ![c] = IF table[c] = 0 THEN e ELSE @]
        /\ proc' = [proc EXCEPT ![p].pc = "window", ![p].e = e]
        /\ UNCHANGED <<clock, heap, evictor, calls, granted, allowed, unjust>>

ReadWindow(p) ==
    /\ proc[p].pc = "window"
    /\ proc' = [proc EXCEPT ![p].pc =
                    IF heap[Entry(p)].windowStart = Window(p) THEN "count" ELSE "lock"]
    /\ UNCHANGED <<clock, table, gen, heap, evictor, calls, granted, allowed, unjust>>

\* The call goes on to its next counter, or returns nil.
Passed(p) ==
    LET left == After(proc[p].s, proc[p].i)
    IN  IF left = {} THEN NoCall
        ELSE [proc[p] EXCEPT !.pc = "lookup", !.i = First(left), !.e = 0, !.cur = 0]

NoteAdmitted(p) == allowed' = [allowed EXCEPT ![Counter(p)][Window(p)] = @ + 1]

\* count.Load with the limit check, ErrRateLimitExceeded included.
ReadCount(p) ==
    LET cur == heap[Entry(p)].count
        full == cur >= Limit[Counter(p)]
    IN  /\ proc[p].pc = "count"
        /\ proc' = [proc EXCEPT ![p] =
                        IF full THEN NoCall ELSE [@ EXCEPT !.pc = "swap", !.cur = cur]]
        /\ unjust' = (unjust \/ (full /\ allowed[Counter(p)][Window(p)] < Limit[Counter(p)]))
        /\ UNCHANGED <<clock, table, gen, heap, evictor, calls, granted, allowed>>

\* Mutant: a plain store instead of the compare-and-swap.
CompareAndSwapBlind(p) ==
    /\ proc[p].pc = "swap"
    /\ heap' = [heap EXCEPT ![Entry(p)].count = proc[p].cur + 1]
    /\ granted' = [granted EXCEPT ![Entry(p)] = @ + 1]
    /\ NoteAdmitted(p)
    /\ proc' = [proc EXCEPT ![p] = Passed(p)]
    /\ UNCHANGED <<clock, table, gen, evictor, calls, unjust>>

CompareAndSwap(p) ==
    /\ proc[p].pc = "swap"
    /\ \/ /\ heap[Entry(p)].count = proc[p].cur
          /\ heap' = [heap EXCEPT ![Entry(p)].count = @ + 1]
          /\ granted' = [granted EXCEPT ![Entry(p)] = @ + 1]
          /\ NoteAdmitted(p)
          /\ proc' = [proc EXCEPT ![p] = Passed(p)]
       \/ /\ heap[Entry(p)].count # proc[p].cur
          /\ proc' = [proc EXCEPT ![p].pc = "window", ![p].cur = 0]
          /\ UNCHANGED <<heap, granted, allowed>>
    /\ UNCHANGED <<clock, table, gen, evictor, calls, unjust>>

\* mu.Lock and the second look at the window: either this goroutine stores the
\* new window, keeping the mutex, or another one did and it starts over.
Lock(p) ==
    /\ proc[p].pc = "lock"
    /\ heap[Entry(p)].mu = Free
    /\ \/ /\ heap[Entry(p)].windowStart # Window(p)
          /\ heap' = [heap EXCEPT ![Entry(p)].mu = p, ![Entry(p)].windowStart = Window(p)]
          /\ proc' = [proc EXCEPT ![p].pc = "reset"]
       \/ /\ heap[Entry(p)].windowStart = Window(p)
          /\ proc' = [proc EXCEPT ![p].pc = "window"]
          /\ UNCHANGED heap
    /\ UNCHANGED <<clock, table, gen, evictor, calls, granted, allowed, unjust>>

\* count.Store(1), Unlock, true.
StoreCount(p) ==
    /\ proc[p].pc = "reset"
    /\ heap' = [heap EXCEPT ![Entry(p)].count = 1, ![Entry(p)].mu = Free]
    /\ granted' = [granted EXCEPT ![Entry(p)] = 1]
    /\ NoteAdmitted(p)
    /\ proc' = [proc EXCEPT ![p] = Passed(p)]
    /\ UNCHANGED <<clock, table, gen, evictor, calls, unjust>>

-----------------------------------------------------------------------------
(* EvictStale, and time.                                                   *)

\* Range visits the counters present; the time is taken once.
EvictBegins ==
    /\ evictor = Asleep
    /\ evictor' = [pc |-> "range", t |-> clock, todo |-> {c \in Counters : table[c] # 0}, doomed |-> {}]
    /\ UNCHANGED <<clock, table, gen, heap, proc, calls, granted, allowed, unjust>>

Stale(c) == heap[<<c, table[c]>>].windowStart < WindowAt(c, evictor.t)

\* One visited entry: windowStart.Load, and the decision to delete.  The bound
\* on entries is a bound on deletions.
EvictLooks(c) ==
    LET doomed == IF Stale(c) /\ gen[c] < MaxEntries THEN {c} ELSE {}
    IN  /\ evictor.pc = "range" /\ c \in evictor.todo /\ evictor.doomed = {}
        /\ evictor' = [evictor EXCEPT !.todo = @ \ {c}, !.doomed = doomed]
        /\ UNCHANGED <<clock, table, gen, heap, proc, calls, granted, allowed, unjust>>

\* Delete, a step later.
EvictDeletes ==
    /\ evictor.pc = "range" /\ evictor.doomed # {}
    /\ table' = [c \in Counters |-> IF c \in evictor.doomed THEN 0 ELSE table[c]]
    /\ evictor' = [evictor EXCEPT !.doomed = {}]
    /\ UNCHANGED <<clock, gen, heap, proc, calls, granted, allowed, unjust>>

EvictEnds ==
    /\ evictor.pc = "range" /\ evictor.todo = {} /\ evictor.doomed = {}
    /\ evictor' = Asleep
    /\ UNCHANGED <<clock, table, gen, heap, proc, calls, granted, allowed, unjust>>

NextMinute ==
    /\ clock < MaxMinutes
    /\ clock' = clock + 1
    /\ UNCHANGED <<table, gen, heap, proc, evictor, calls, granted, allowed, unjust>>

Step(p) ==
    loadOrCreate(p) \/ ReadWindow(p) \/ ReadCount(p) \/ CompareAndSwap(p) \/ Lock(p) \/ StoreCount(p)

RateNext ==
    \/ \E p \in Procs : CallCheckRate(p) \/ Step(p)
    \/ EvictBegins \/ (\E c \in Counters : EvictLooks(c)) \/ EvictDeletes \/ EvictEnds
    \/ NextMinute

RateSpec == RateInit /\ [][RateNext]_rateVars

\* The Go scheduler runs every goroutine, and a mutex that is free is granted.
FairSpec == RateSpec /\ \A p \in Procs : WF_rateVars(Step(p))

-----------------------------------------------------------------------------
\* windowStart is 0 (a new entry) or a window of the clock, a mutex has one
\* holder, and a straggler's window is one that has begun.
RateTypeOK ==
    /\ clock \in 1..MaxMinutes
    /\ table \in [Counters -> 0..MaxEntries]
    /\ gen \in [Counters -> 0..MaxEntries]
    /\ heap \in [Entries -> [count : Nat, windowStart : 0..MaxMinutes, mu : Procs \cup {Free}]]
    /\ \A p \in Procs :
           \/ proc[p] = NoCall
           \/ proc[p] \in [pc : {"lookup", "window", "count", "swap", "lock", "reset"},
                          s : KeyScopes, t : 1..MaxMinutes, i : 1..8, e : 0..MaxEntries, cur : Nat]
    /\ evictor.pc \in {"asleep", "range"}
    /\ calls \in 0..MaxCalls
    /\ granted \in [Entries -> Nat]
    /\ allowed \in [Counters -> [1..MaxMinutes -> Nat]]
    /\ unjust \in BOOLEAN

\* The compare-and-swap loses no update, whatever goroutines, stragglers of an
\* earlier window and rollovers interleave: an entry's count is the number of
\* requests it let through since its last reset, and so never above the limit.
CountIsExact ==
    \A e \in Entries : heap[e].count = granted[e] /\ granted[e] <= Limit[e[1]]

\* No call of CheckRate spins or blocks for ever, although tryIncrement loops:
\* a lost swap or a lost rollover means that another call got through.
CallsReturn == \A p \in Procs : proc[p] # NoCall ~> proc[p] = NoCall

-----------------------------------------------------------------------------
(* What is written about the code and does not hold (see README.md).       *)

\* "Verifies that exactly 50 succeed": a window lets through no more requests
\* than the limit.
LimitHolds ==
    \A c \in Counters : \A w \in 1..MaxMinutes : Limit[c] > 0 => allowed[c][w] <= Limit[c]

\* "windowStart and the reset count are updated as a single visible
\* transition": no request is refused for the count of another window.
RefusedOnlyWhenSpent == ~unjust
=============================================================================
