---------------------------- MODULE RateLimiter ----------------------------
(***************************************************************************)
(* The crawler's per-domain pacing: Limiter.Wait, called by the workers of *)
(* all replicas before a page is requested, over one key per domain in     *)
(* Redis that a script reads and sets atomically.                          *)
(*                                                                         *)
(* A call takes the time of its own host before it sends the script, so    *)
(* scripts may run in another order than their times, and with clocks that *)
(* are ahead or behind.  Time is explicit: it does not pass over a timer   *)
(* that is due, nor over the end of a call to Redis.                       *)
(***************************************************************************)
EXTENDS Integers

CONSTANTS
    Workers,     \* the goroutines of all replicas
    Domains,
    Gaps,        \* what 1000 / rate may be: the Crawl-delay, or a second
    Offset,      \* [Workers -> Int]: a host's clock less the time
    MaxWait,     \* the safety valve, 30 s
    MaxSleep,    \* the longest sleep between two attempts, 1 s
    MaxCall,     \* the client's timeouts: how long a call to Redis may take
    NoKey,
    MaxTime,     \* bound: no call begins later
    MaxUpsets    \* bound: failing calls, cancellations and evictions together

Key == [stamp : Int, until : Nat]
Grants == [by : Workers, stamp : Int, at : Nat, gap : Gaps]

ASSUME RateLimiterAssumption ==
    /\ Gaps \subseteq Nat \ {0}
    /\ Offset \in [Workers -> Int]
    /\ NoKey \notin Key \cup Grants
    /\ MaxWait \in Nat /\ MaxSleep \in Nat \ {0} /\ MaxCall \in Nat
    /\ MaxTime \in Nat /\ MaxUpsets \in Nat

VARIABLES
    now,      \* the time
    last,     \* RATELIMIT:{domain}: [stamp, until], or NoKey
    call,     \* [Workers -> Call]
    latest,   \* history: [Domains -> Grants \cup {NoKey}]: the latest recorded grant
    evicted,  \* history: domains whose key Redis dropped to free memory
    upsets

vars == <<now, last, call, latest, evicted, upsets>>

-----------------------------------------------------------------------------
Idle == [pc |-> "idle"]
At(w, pc) == call[w].pc = pc
Go(w, c) == call' = [call EXCEPT ![w] = c]
Looking(d, gap, deadline) == [pc |-> "look", d |-> d, gap |-> gap, deadline |-> deadline]
Asking(c) ==
    [pc |-> "script", d |-> c.d, gap |-> c.gap, deadline |-> c.deadline, sent |-> now]
Asleep(c, until) ==
    [pc |-> "sleep", d |-> c.d, gap |-> c.gap, deadline |-> c.deadline, until |-> until]
Shortest(a, b) == IF a <= b THEN a ELSE b

Upset == /\ upsets < MaxUpsets
         /\ upsets' = upsets + 1
CallSucceeds == UNCHANGED upsets

\* The time a call passes to the script, and what the script decides.
Stamp(w) == call[w].sent + Offset[w]
Present(d) == last[d] # NoKey
Elapsed(w) == Stamp(w) - last[call[w].d].stamp

\* Mutant of Allowed: the comparison is off by one.
AllowedEarly(w) == Present(call[w].d) => Elapsed(w) + 1 >= call[w].gap

Allowed(w) == Present(call[w].d) => Elapsed(w) >= call[w].gap

\* Mutant of Grant: the key lives for one gap only.
GrantShort(w) ==
    LET c == call[w] IN
    /\ last' = [last EXCEPT ![c.d] = [stamp |-> Stamp(w), until |-> now + c.gap]]
    /\ latest' = [latest EXCEPT ![c.d] =
                    [by |-> w, stamp |-> Stamp(w), at |-> now, gap |-> c.gap]]

\* SET key now PX gap * 2
Grant(w) ==
    LET c == call[w] IN
    /\ last' = [last EXCEPT ![c.d] = [stamp |-> Stamp(w), until |-> now + 2 * c.gap]]
    /\ latest' = [latest EXCEPT ![c.d] =
                    [by |-> w, stamp |-> Stamp(w), at |-> now, gap |-> c.gap]]

-----------------------------------------------------------------------------
Init ==
    /\ now = 0
    /\ last = [d \in Domains |-> NoKey]
    /\ call = [w \in Workers |-> Idle]
    /\ latest = [d \in Domains |-> NoKey]
    /\ evicted = {}
    /\ upsets = 0

\* HTTPFetcher.Fetch calls Wait with the rate that robots.txt asks for.
Wait(w, d, gap) ==
    /\ At(w, "idle") /\ now <= MaxTime
    /\ Go(w, Looking(d, gap, now + MaxWait))
    /\ UNCHANGED <<now, last, latest, evicted, upsets>>

\* Mutant of Look: there is no safety valve.
LookForever(w) ==
    /\ At(w, "look")
    /\ Go(w, Asking(call[w]))
    /\ UNCHANGED <<now, last, latest, evicted, upsets>>

\* The head of the loop: the safety valve lets the call pass unrecorded, or the
\* time is taken for the next attempt.
Look(w) ==
    /\ At(w, "look")
    /\ Go(w, IF now > call[w].deadline THEN Idle ELSE Asking(call[w]))
    /\ UNCHANGED <<now, last, latest, evicted, upsets>>

\* The script.  An error, of a call that did not run or whose answer is lost,
\* lets the caller pass; who is refused sleeps for what is left of the gap.
TryAcquire(w) ==
    LET c == call[w] IN
    /\ At(w, "script")
    /\ \/ Allowed(w) /\ CallSucceeds /\ Grant(w) /\ Go(w, Idle)
       \/ /\ ~Allowed(w) /\ CallSucceeds
          /\ Go(w, Asleep(c, now + Shortest(c.gap - Elapsed(w), MaxSleep)))
          /\ UNCHANGED <<last, latest>>
       \/ /\ Upset /\ Go(w, Idle)
          /\ (Allowed(w) /\ Grant(w)) \/ UNCHANGED <<last, latest>>
    /\ UNCHANGED <<now, evicted>>

\* time.After fires.
Wake(w) ==
    LET c == call[w] IN
    /\ At(w, "sleep") /\ now >= c.until
    /\ Go(w, Looking(c.d, c.gap, c.deadline))
    /\ UNCHANGED <<now, last, latest, evicted, upsets>>

\* The context is cancelled: at the head of the loop and in the sleep.
Cancel(w) ==
    /\ At(w, "look") \/ At(w, "sleep")
    /\ Upset /\ Go(w, Idle)
    /\ UNCHANGED <<now, last, latest, evicted>>

\* PX runs out.
Expire(d) ==
    /\ Present(d) /\ now >= last[d].until
    /\ last' = [last EXCEPT ![d] = NoKey]
    /\ UNCHANGED <<now, call, latest, evicted, upsets>>

\* maxmemory-policy allkeys-lru.
Evict(d) ==
    /\ Present(d) /\ Upset
    /\ last' = [last EXCEPT ![d] = NoKey]
    /\ evicted' = evicted \cup {d}
    /\ UNCHANGED <<now, call, latest>>

\* Time passes while goroutines wait: for Redis, for a timer, for work.  The
\* bound lets every call that has begun come to its end.
Tick ==
    /\ now <= MaxTime \/ \E w \in Workers : ~At(w, "idle")
    /\ \A d \in Domains : Present(d) => now < last[d].until
    /\ \A w \in Workers : /\ ~At(w, "look")
                          /\ At(w, "script") => now < call[w].sent + MaxCall
                          /\ At(w, "sleep") => now < call[w].until
    /\ now' = now + 1
    /\ UNCHANGED <<last, call, latest, evicted, upsets>>

Next ==
    \/ \E w \in Workers : \/ \E d \in Domains, gap \in Gaps : Wait(w, d, gap)
                          \/ Look(w) \/ TryAcquire(w) \/ Wake(w) \/ Cancel(w)
    \/ \E d \in Domains : Expire(d) \/ Evict(d)
    \/ Tick

Spec == Init /\ [][Next]_vars

-----------------------------------------------------------------------------
Call ==
    [pc : {"idle"}]
      \cup [pc : {"look"}, d : Domains, gap : Gaps, deadline : Nat]
      \cup [pc : {"script"}, d : Domains, gap : Gaps, deadline : Nat, sent : Nat]
      \cup [pc : {"sleep"}, d : Domains, gap : Gaps, deadline : Nat, until : Nat]

\* The values the state ranges over.
TypeOK ==
    /\ now \in Nat
    /\ last \in [Domains -> Key \cup {NoKey}]
    /\ call \in [Workers -> Call]
    /\ latest \in [Domains -> Grants \cup {NoKey}]
    /\ evicted \subseteq Domains
    /\ upsets \in 0..MaxUpsets

\* A recorded grant is not followed by another for its domain until the gap the
\* second asks for has passed since the first took its time, by their clocks, or
\* twice the first one's gap since it was given: whatever replicas, differing
\* Crawl-delays, slow calls and reordered scripts are involved.  (Calls that
\* the valve or an error let pass are not recorded.)
GrantsSpaced ==
    [][\A d \in Domains \ evicted :
          (latest'[d] # latest[d] /\ latest[d] # NoKey) =>
              \/ latest'[d].at + Offset[latest'[d].by] >= latest[d].stamp + latest'[d].gap
              \/ latest'[d].at >= latest[d].at + 2 * latest[d].gap]_vars

\* "Safety valve": a call is over MaxWait after it began, and at most one call
\* to Redis and one sleep later, however many others take the turns it waits
\* for.
WaitIsBounded ==
    \A w \in Workers : ~At(w, "idle") => now <= call[w].deadline + MaxCall + MaxSleep
=============================================================================
