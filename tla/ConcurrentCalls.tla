-------------------------- MODULE ConcurrentCalls --------------------------
(***************************************************************************)
(* MCPGovernanceServer.handle_tool_call (mcp_server/governance_server.py)  *)
(* on several threads: the class takes no lock, so that the verification,  *)
(* the membership test, the purge, the eviction and the insertion of one   *)
(* call come between those of another.  One operation on the dictionary is *)
(* atomic in Python.  The tokens have been issued before; none is revoked  *)
(* here, for the replay cache does not depend on it.                       *)
(***************************************************************************)
EXTENDS Integers, FiniteSets, Sequences, Functions

CONSTANTS
    Threads,
    Tokens,           \* the tokens issued
    Expiry,           \* token -> expires_at
    MaxCacheSize,     \* max_replay_cache_size
    MaxRuns,          \* bound: runs after which no call begins
    LastTick          \* bound: the clock stops here

ASSUME CallsAssumption ==
    /\ Threads # {} /\ IsFiniteSet(Threads)
    /\ Expiry \in [Tokens -> Nat]
    /\ MaxCacheSize \in Nat \ {0}
    /\ MaxRuns \in Nat /\ LastTick \in Nat

VARIABLES
    time,
    used,             \* _used_token_ids: the ids recorded, and for each the
                      \* number of the run that put it last in the order
    call,             \* thread -> its call, see below
    runs,             \* history: the queries run, in order
    forgotten         \* history: the tokens evicted at capacity since they ran

callsVars == <<time, used, call, runs, forgotten>>

NoCall == [pc |-> "idle"]

At(t, pc) == call[t].pc = pc

Go(t, c) == call' = [call EXCEPT ![t] = c]
GoTo(t, pc) == Go(t, [call[t] EXCEPT !.pc = pc])

\* The call is refused, or an exception leaves handle_tool_call.
Leave(t) == Go(t, NoCall)

----------------------------------------------------------------------------
(* _execute_governed before _record_proof_use                              *)

\* verify_token returns.
Verify(t, token) ==
    /\ At(t, "idle")
    /\ Len(runs) < MaxRuns
    /\ time < Expiry[token]
    /\ Go(t, [pc |-> "test", token |-> token])
    /\ UNCHANGED <<time, used, runs, forgotten>>

RunsOf(token) == {n \in DOMAIN runs : runs[n].token = token}

\* seen and excused are history: the runs of the token before the test, and
\* what else may have kept it from the cache.
TestMembership(t) ==
    /\ At(t, "test")
    /\ IF call[t].token \in DOMAIN used
       THEN Leave(t)
       ELSE Go(t, [pc      |-> "clock",
                   token   |-> call[t].token,
                   now     |-> 0,
                   seen    |-> RunsOf(call[t].token),
                   excused |-> \/ time >= Expiry[call[t].token]
                               \/ call[t].token \in forgotten,
                   victims |-> {},
                   excess  |-> 0])
    /\ UNCHANGED <<time, used, runs, forgotten>>

----------------------------------------------------------------------------
(* _record_proof_use                                                       *)

\* now is read once, and time goes on.
ReadClock(t) ==
    /\ At(t, "clock")
    /\ Go(t, [call[t] EXCEPT !.pc = "purge", !.now = time])
    /\ UNCHANGED <<time, used, runs, forgotten>>

\* Mutant: a token expires one tick early in the cache.
ExpiresEarly(token, now) == Expiry[token] <= now + 1

Expired(token, now) == Expiry[token] <= now

\* The comprehension over items().
CollectExpired(t) ==
    /\ At(t, "purge")
    /\ Go(t, [call[t] EXCEPT
                !.pc = "purging", !.now = 0,
                !.victims = {id \in DOMAIN used : Expired(id, call[t].now)}])
    /\ UNCHANGED <<time, used, runs, forgotten>>

\* The next step of a thread changes the size of the dictionary.
Resizing(t) ==
    \/ call[t].pc \in {"purging", "evicting"} /\ call[t].victims # {}
    \/ At(t, "insert")

\* It raises when the size of the dictionary changes meanwhile.
CollectRaises(t) ==
    /\ At(t, "purge")
    /\ DOMAIN used # {}
    /\ \E other \in Threads \ {t} : Resizing(other)
    /\ Leave(t)
    /\ UNCHANGED <<time, used, runs, forgotten>>

\* Mutant: dict.popitem in place of del, which removes the entry put there last.
WithoutLast(victim) ==
    Restrict(used, {id \in DOMAIN used : \E o \in DOMAIN used : used[o] > used[id]})

Without(victim) == Restrict(used, DOMAIN used \ {victim})

\* del, one by one.  The victim may be gone, which is a KeyError.  The order in
\* which they are removed is left open.
Delete(t, victim, lost) ==
    /\ IF victim \in DOMAIN used
       THEN /\ used' = Without(victim)
            /\ forgotten' = forgotten \cup lost
            /\ Go(t, [call[t] EXCEPT !.victims = @ \ {victim}])
       ELSE Leave(t) /\ UNCHANGED <<used, forgotten>>
    /\ UNCHANGED <<time, runs>>

Purge(t) ==
    /\ At(t, "purging")
    /\ \E victim \in call[t].victims : Delete(t, victim, {})

Size == Cardinality(DOMAIN used)

CheckCapacity(t) ==
    /\ At(t, "purging")
    /\ call[t].victims = {}
    /\ GoTo(t, IF Size >= MaxCacheSize THEN "measure" ELSE "insert")
    /\ UNCHANGED <<time, used, runs, forgotten>>

\* Mutant: one entry too few is removed.
OneShort(size) == size - MaxCacheSize

\* to_remove.
Excess(size) == size - MaxCacheSize + 1

Measure(t) ==
    /\ At(t, "measure")
    /\ Go(t, [call[t] EXCEPT !.pc = "choose", !.excess = Excess(Size)])
    /\ UNCHANGED <<time, used, runs, forgotten>>

\* The n entries inserted first.
Oldest(n) ==
    {id \in DOMAIN used :
        Cardinality({o \in DOMAIN used : used[o] < used[id]}) < n}

\* keys[:n], where a negative n counts from the end.
UpTo(n) == Oldest(IF n < 0 THEN Size + n ELSE n)

ChooseVictims(t) ==
    /\ At(t, "choose")
    /\ Go(t, [call[t] EXCEPT !.pc = "evicting", !.excess = 0,
                             !.victims = UpTo(call[t].excess)])
    /\ UNCHANGED <<time, used, runs, forgotten>>

Evict(t) ==
    /\ At(t, "evicting")
    /\ \E victim \in call[t].victims : Delete(t, victim, {victim})

EvictionDone(t) ==
    /\ At(t, "evicting")
    /\ call[t].victims = {}
    /\ GoTo(t, "insert")
    /\ UNCHANGED <<time, used, runs, forgotten>>

\* A key that is there keeps its place.
Inserted(token) ==
    [id \in DOMAIN used \cup {token} |->
        IF id \in DOMAIN used THEN used[id] ELSE Len(runs) + 1]

\* Nothing stands between the insertion and the query any more.
InsertAndRun(t) ==
    LET c == call[t] IN
    /\ At(t, "insert")
    /\ used' = Inserted(c.token)
    /\ forgotten' = forgotten \ {c.token}
    /\ runs' = Append(runs, [token |-> c.token, seen |-> c.seen,
                             excused |-> c.excused])
    /\ Leave(t)
    /\ UNCHANGED time

----------------------------------------------------------------------------

CallsInit ==
    /\ time = 0
    /\ used = [id \in {} |-> 0]
    /\ call = [t \in Threads |-> NoCall]
    /\ runs = <<>>
    /\ forgotten = {}

PassTime ==
    /\ time < LastTick
    /\ time' = time + 1
    /\ UNCHANGED <<used, call, runs, forgotten>>

CallStep(t) ==
    \/ \E token \in Tokens : Verify(t, token)
    \/ TestMembership(t)
    \/ ReadClock(t) \/ CollectExpired(t) \/ CollectRaises(t)
    \/ Purge(t) \/ CheckCapacity(t)
    \/ Measure(t) \/ ChooseVictims(t)
    \/ Evict(t) \/ EvictionDone(t)
    \/ InsertAndRun(t)

CallsNext == PassTime \/ \E t \in Threads : CallStep(t)

CallsSpec == CallsInit /\ [][CallsNext]_callsVars

----------------------------------------------------------------------------
(* Properties                                                              *)

Ran == {runs[n].token : n \in DOMAIN runs}

\* Type invariant: the cache holds tokens that ran, each at the place of a run
\* of that token, and none that was evicted and did not run again; what a thread
\* is about to remove has run.
CallsTypeOK ==
    /\ time \in Nat
    /\ used \in [DOMAIN used -> DOMAIN runs]
    /\ \A id \in DOMAIN used : id \in Tokens /\ runs[used[id]].token = id
    /\ forgotten \subseteq Tokens \ DOMAIN used
    /\ \A t \in Threads :
          call[t].pc \in {"purging", "evicting"} =>
              call[t].victims \subseteq Ran

\* The cache overruns its capacity by no more than the threads that were
\* between the check and the insertion together: what one call leaves too
\* much the next removes (_record_proof_use computes the excess anew).
OverrunBounded == Size <= MaxCacheSize + Cardinality(Threads) - 1

\* A token runs again only in a race: if a later run of a token tested the
\* cache after the earlier one, then the entry had been evicted at capacity,
\* or the token expired after its verification and was purged.
ReplayNeedsARace ==
    \A m, n \in DOMAIN runs :
        m < n /\ runs[m].token = runs[n].token =>
            m \notin runs[n].seen \/ runs[n].excused

=============================================================================
