------------------------- MODULE RateLimiterProofs -------------------------
(***************************************************************************)
(* Proofs about RateLimiter: the type invariant, the spacing of recorded   *)
(* grants and the bound on a call of Wait, for any workers, domains, gaps, *)
(* clocks and time limits.                                                 *)
(***************************************************************************)
EXTENDS RateLimiter, TLAPS

\* The key shows the latest grant as long as it lives, and it lives for twice
\* the gap unless it is evicted.
KeyShowsLatest ==
    \A d \in Domains :
        /\ Present(d) => /\ latest[d] # NoKey
                         /\ last[d].stamp = latest[d].stamp
                         /\ last[d].until = latest[d].at + 2 * latest[d].gap
        /\ (~Present(d) /\ latest[d] # NoKey /\ d \notin evicted)
              => now >= latest[d].at + 2 * latest[d].gap

\* How far the time may have come at each place of the loop.
OnTime(w) ==
    /\ At(w, "look") => now <= call[w].deadline + MaxCall + MaxSleep
    /\ At(w, "script") => /\ call[w].sent <= now /\ now <= call[w].sent + MaxCall
                          /\ call[w].sent <= call[w].deadline
    /\ At(w, "sleep") => /\ now <= call[w].until
                         /\ call[w].until <= call[w].deadline + MaxCall + MaxSleep

\* The inductive invariant.
RateInv == TypeOK /\ KeyShowsLatest /\ \A w \in Workers : OnTime(w)

-----------------------------------------------------------------------------
\* The time a call sends and its gap are numbers.
LEMMA StampType ==
    ASSUME TypeOK, NEW w \in Workers, At(w, "script")
    PROVE  Stamp(w) \in Int /\ call[w].gap \in Nat
<1>1. call[w] \in [pc : {"script"}, d : Domains, gap : Gaps, deadline : Nat, sent : Nat]
  BY DEF TypeOK, Call, At
<1>2. call[w].sent \in Nat /\ call[w].gap \in Gaps /\ Gaps \subseteq Nat
  BY <1>1, RateLimiterAssumption
<1>3. Offset[w] \in Int
  BY RateLimiterAssumption
<1>4. call[w].sent + Offset[w] \in Int
  BY <1>2, <1>3
<1> QED
  BY <1>2, <1>4 DEF Stamp

\* Who is refused sleeps for a while, but not for longer than MaxSleep.
LEMMA PauseBound ==
    ASSUME NEW gap \in Nat, NEW elapsed \in Int, elapsed < gap
    PROVE  Shortest(gap - elapsed, MaxSleep) \in 0..MaxSleep
<1>1. MaxSleep \in Nat
  BY RateLimiterAssumption
<1> QED
  BY <1>1 DEF Shortest

\* A grant's record and the key it sets have their types.
LEMMA GrantTypes ==
    ASSUME TypeOK, NEW w \in Workers, At(w, "script"), Grant(w)
    PROVE  /\ last' \in [Domains -> Key \cup {NoKey}]
           /\ latest' \in [Domains -> Grants \cup {NoKey}]
<1> DEFINE c == call[w]
<1>1. c \in [pc : {"script"}, d : Domains, gap : Gaps, deadline : Nat, sent : Nat]
  BY DEF TypeOK, Call, At
<1>2. c.gap \in Nat /\ Stamp(w) \in Int /\ now \in Nat
  BY <1>1, StampType DEF TypeOK
<1>3. [stamp |-> Stamp(w), until |-> now + 2 * c.gap] \in Key
  BY <1>2 DEF Key
<1>4. [by |-> w, stamp |-> Stamp(w), at |-> now, gap |-> c.gap] \in Grants
  BY <1>1, <1>2 DEF Grants
<1> QED
  BY <1>3, <1>4 DEF TypeOK, Grant

\* Every step keeps the values of the state in their types.
LEMMA TypeStep ==
    ASSUME TypeOK, [Next]_vars
    PROVE  TypeOK'
<1> USE DEF TypeOK
<1>1. ASSUME NEW w \in Workers, NEW d \in Domains, NEW gap \in Gaps, Wait(w, d, gap)
      PROVE  TypeOK'
  BY <1>1, RateLimiterAssumption DEF Wait, Go, Looking, Call
<1>2. ASSUME NEW w \in Workers, Look(w)
      PROVE  TypeOK'
  <2>1. call[w] \in [pc : {"look"}, d : Domains, gap : Gaps, deadline : Nat]
    BY <1>2 DEF Look, At, Call
  <2>2. Asking(call[w]) \in Call /\ Idle \in Call
    BY <2>1 DEF Asking, Idle, Call
  <2> QED
    BY <1>2, <2>2 DEF Look, Go
<1>3. ASSUME NEW w \in Workers, TryAcquire(w)
      PROVE  TypeOK'
  <2> DEFINE c == call[w]
             pause == now + Shortest(c.gap - Elapsed(w), MaxSleep)
  <2>1. At(w, "script")
    BY <1>3 DEF TryAcquire
  <2>2. c \in [pc : {"script"}, d : Domains, gap : Gaps, deadline : Nat, sent : Nat]
    BY <2>1 DEF At, Call
  <2>3. ASSUME ~Allowed(w)
        PROVE  Asleep(c, pause) \in Call
    <3>1. last[c.d] \in Key
      BY <2>2, <2>3 DEF Allowed, Present
    <3>2. Elapsed(w) \in Int /\ Elapsed(w) < c.gap /\ c.gap \in Nat
      BY <2>1, <2>3, <3>1, StampType DEF Allowed, Elapsed, Key
    <3>3. Shortest(c.gap - Elapsed(w), MaxSleep) \in 0..MaxSleep
      BY <3>2, PauseBound
    <3>4. pause \in Nat
      BY <3>3, RateLimiterAssumption
    <3> QED
      BY <2>2, <3>4 DEF Asleep, Call
  <2>4. Grant(w) => /\ last' \in [Domains -> Key \cup {NoKey}]
                    /\ latest' \in [Domains -> Grants \cup {NoKey}]
    BY <2>1, GrantTypes
  <2>5. Idle \in Call
    BY DEF Idle, Call
  <2>6. now' = now /\ evicted' = evicted /\ upsets' \in 0..MaxUpsets
    BY <1>3, RateLimiterAssumption DEF TryAcquire, Upset, CallSucceeds
  <2>7. call' \in [Workers -> Call]
    BY <1>3, <2>3, <2>5 DEF TryAcquire, Go
  <2>8. /\ last' \in [Domains -> Key \cup {NoKey}]
        /\ latest' \in [Domains -> Grants \cup {NoKey}]
    BY <1>3, <2>4 DEF TryAcquire
  <2> QED
    BY <2>6, <2>7, <2>8
<1>4. ASSUME NEW w \in Workers, Wake(w)
      PROVE  TypeOK'
  BY <1>4 DEF Wake, Go, Looking, At, Call
<1>5. ASSUME NEW w \in Workers, Cancel(w)
      PROVE  TypeOK'
  BY <1>5, RateLimiterAssumption DEF Cancel, Go, Idle, Call, Upset
<1>6. ASSUME NEW d \in Domains, Expire(d) \/ Evict(d)
      PROVE  TypeOK'
  BY <1>6, RateLimiterAssumption DEF Expire, Evict, Upset
<1>7. CASE Tick
  BY <1>7 DEF Tick
<1>8. CASE UNCHANGED vars
  BY <1>8 DEF vars
<1> QED
  BY <1>1, <1>2, <1>3, <1>4, <1>5, <1>6, <1>7, <1>8 DEF Next

-----------------------------------------------------------------------------
\* No step lets the time pass a call's due moment.
LEMMA OnTimeStep ==
    ASSUME RateInv, [Next]_vars, NEW v \in Workers
    PROVE  OnTime(v)'
<1> USE DEF RateInv, TypeOK, OnTime, At
<1>0. now \in Nat /\ call[v] \in Call /\ OnTime(v)
  OBVIOUS
<1>1. ASSUME NEW w \in Workers, NEW d \in Domains, NEW gap \in Gaps, Wait(w, d, gap)
      PROVE  OnTime(v)'
  BY <1>0, <1>1, RateLimiterAssumption DEF Wait, Go, Looking, Call
<1>2. ASSUME NEW w \in Workers, Look(w)
      PROVE  OnTime(v)'
  BY <1>0, <1>2, RateLimiterAssumption DEF Look, Go, Asking, Idle, Call
<1>3. ASSUME NEW w \in Workers, TryAcquire(w)
      PROVE  OnTime(v)'
  <2>1. CASE v # w
    BY <1>0, <1>3, <2>1 DEF TryAcquire, Go
  <2>2. CASE v = w /\ call'[v] = Idle
    BY <2>2 DEF Idle
  <2>3. CASE v = w /\ call'[v] # Idle
    <3> DEFINE pause == Shortest(call[w].gap - Elapsed(w), MaxSleep)
    <3>1. /\ ~Allowed(w) /\ now' = now
          /\ call' = [call EXCEPT ![w] = Asleep(call[w], now + pause)]
      BY <1>3, <2>3 DEF TryAcquire, Go
    <3>2. call[w] \in [pc : {"script"}, d : Domains, gap : Gaps, deadline : Nat, sent : Nat]
      BY <1>3 DEF TryAcquire, Call
    <3>3. last[call[w].d] \in Key
      BY <3>1, <3>2 DEF Allowed, Present
    <3>4. Elapsed(w) \in Int /\ Elapsed(w) < call[w].gap
      BY <1>3, <3>1, <3>3, StampType DEF TryAcquire, Allowed, Elapsed, Key
    <3>5. pause \in Nat /\ pause <= MaxSleep
      BY <1>3, <3>4, StampType, PauseBound DEF TryAcquire
    <3>6. now <= call[w].sent + MaxCall /\ call[w].sent <= call[w].deadline
      BY <1>3 DEF TryAcquire
    <3>7. call'[v] = [pc |-> "sleep", d |-> call[w].d, gap |-> call[w].gap,
                      deadline |-> call[w].deadline, until |-> now + pause]
      BY <2>3, <3>1 DEF Asleep
    <3> QED
      BY <1>0, <3>1, <3>2, <3>5, <3>6, <3>7, RateLimiterAssumption
  <2> QED
    BY <2>1, <2>2, <2>3
<1>4. ASSUME NEW w \in Workers, Wake(w)
      PROVE  OnTime(v)'
  BY <1>0, <1>4, RateLimiterAssumption DEF Wake, Go, Looking, Call
<1>5. ASSUME NEW w \in Workers, Cancel(w)
      PROVE  OnTime(v)'
  BY <1>0, <1>5 DEF Cancel, Go, Idle
<1>6. ASSUME NEW d \in Domains, Expire(d) \/ Evict(d)
      PROVE  OnTime(v)'
  BY <1>0, <1>6 DEF Expire, Evict
<1>7. CASE Tick
  BY <1>0, <1>7, RateLimiterAssumption DEF Tick, Call
<1>8. CASE UNCHANGED vars
  BY <1>0, <1>8 DEF vars
<1> QED
  BY <1>1, <1>2, <1>3, <1>4, <1>5, <1>6, <1>7, <1>8 DEF Next

\* Every step keeps the key and the latest grant together.
LEMMA KeyStep ==
    ASSUME RateInv, [Next]_vars
    PROVE  KeyShowsLatest'
<1> USE DEF RateInv
<1>1. ASSUME NEW w \in Workers, At(w, "script"), Grant(w), now' = now, evicted' = evicted
      PROVE  KeyShowsLatest'
  <2> DEFINE c == call[w]
             key == [stamp |-> Stamp(w), until |-> now + 2 * c.gap]
             grant == [by |-> w, stamp |-> Stamp(w), at |-> now, gap |-> c.gap]
  <2>1. c \in [pc : {"script"}, d : Domains, gap : Gaps, deadline : Nat, sent : Nat]
    BY <1>1 DEF TypeOK, Call, At
  <2>2. c.gap \in Nat /\ Stamp(w) \in Int /\ now \in Nat
    BY <1>1, <2>1, StampType DEF TypeOK
  <2>3. key \in Key /\ grant \in Grants
    BY <2>1, <2>2 DEF Key, Grants
  <2>4. key # NoKey /\ grant # NoKey
    BY <2>3, RateLimiterAssumption
  <2>5. last' = [last EXCEPT ![c.d] = key] /\ latest' = [latest EXCEPT ![c.d] = grant]
    BY <1>1 DEF Grant
  <2>6. SUFFICES ASSUME NEW d \in Domains
                 PROVE  /\ Present(d)' => /\ latest'[d] # NoKey
                                          /\ last'[d].stamp = latest'[d].stamp
                                          /\ last'[d].until = latest'[d].at + 2 * latest'[d].gap
                        /\ (~Present(d)' /\ latest'[d] # NoKey /\ d \notin evicted')
                              => now' >= latest'[d].at + 2 * latest'[d].gap
    BY DEF KeyShowsLatest
  <2>7. CASE d = c.d
    <3>1. last'[d] = key /\ latest'[d] = grant
      BY <2>1, <2>5, <2>7 DEF TypeOK
    <3> QED
      BY <2>4, <3>1 DEF Present
  <2>8. CASE d # c.d
    <3>1. last'[d] = last[d] /\ latest'[d] = latest[d]
      BY <2>5, <2>8 DEF TypeOK
    <3> QED
      BY <1>1, <3>1 DEF KeyShowsLatest, Present
  <2> QED
    BY <2>7, <2>8
<1>2. ASSUME UNCHANGED <<now, last, latest, evicted>>
      PROVE  KeyShowsLatest'
  BY <1>2 DEF KeyShowsLatest, Present
<1>3. ASSUME NEW w \in Workers, TryAcquire(w)
      PROVE  KeyShowsLatest'
  <2>1. At(w, "script") /\ now' = now /\ evicted' = evicted
    BY <1>3 DEF TryAcquire
  <2>2. Grant(w) \/ UNCHANGED <<last, latest>>
    BY <1>3 DEF TryAcquire
  <2> QED
    BY <1>1, <1>2, <2>1, <2>2
<1>4. ASSUME NEW e \in Domains, Expire(e)
      PROVE  KeyShowsLatest'
  <2>1. /\ Present(e) /\ now >= last[e].until /\ last' = [last EXCEPT ![e] = NoKey]
        /\ now' = now /\ latest' = latest /\ evicted' = evicted
    BY <1>4 DEF Expire
  <2> QED
    BY <2>1 DEF KeyShowsLatest, Present, TypeOK
<1>5. ASSUME NEW e \in Domains, Evict(e)
      PROVE  KeyShowsLatest'
  <2>1. /\ last' = [last EXCEPT ![e] = NoKey]
        /\ now' = now /\ latest' = latest /\ evicted' = evicted \cup {e}
    BY <1>5 DEF Evict
  <2> QED
    BY <2>1 DEF KeyShowsLatest, Present, TypeOK
<1>6. CASE Tick
  <2>1. now \in Nat /\ now' = now + 1 /\ last' = last /\ latest' = latest /\ evicted' = evicted
    BY <1>6 DEF Tick, TypeOK
  <2>2. SUFFICES ASSUME NEW d \in Domains, ~Present(d), latest[d] # NoKey, d \notin evicted
                 PROVE  now' >= latest[d].at + 2 * latest[d].gap
    BY <2>1 DEF KeyShowsLatest, Present
  <2>3. latest[d].at \in Nat /\ latest[d].gap \in Nat
    BY <2>2, RateLimiterAssumption DEF TypeOK, Grants
  <2>4. now >= latest[d].at + 2 * latest[d].gap
    BY <2>2 DEF KeyShowsLatest
  <2> QED
    BY <2>1, <2>3, <2>4
<1>7. ASSUME NEW w \in Workers,
             (\E d \in Domains, gap \in Gaps : Wait(w, d, gap)) \/ Look(w) \/ Wake(w) \/ Cancel(w)
      PROVE  KeyShowsLatest'
  BY <1>2, <1>7 DEF Wait, Look, Wake, Cancel
<1>8. CASE UNCHANGED vars
  BY <1>2, <1>8 DEF vars
<1> QED
  BY <1>3, <1>4, <1>5, <1>6, <1>7, <1>8 DEF Next

\* The invariant holds at the start and after every step.
LEMMA RateInvariant == Spec => []RateInv
<1>1. Init => RateInv
  BY RateLimiterAssumption
     DEF Init, RateInv, TypeOK, KeyShowsLatest, Present, OnTime, At, Idle, Call
<1>2. RateInv /\ [Next]_vars => RateInv'
  <2>1. SUFFICES ASSUME RateInv, [Next]_vars PROVE RateInv'
    OBVIOUS
  <2>2. TypeOK'
    BY <2>1, TypeStep DEF RateInv
  <2>3. KeyShowsLatest'
    BY <2>1, KeyStep
  <2>4. \A w \in Workers : OnTime(w)'
    BY <2>1, OnTimeStep
  <2> QED
    BY <2>2, <2>3, <2>4 DEF RateInv
<1> QED
  BY <1>1, <1>2, PTL DEF Spec

-----------------------------------------------------------------------------
\* The state of the rate limiter is always well typed.
THEOREM RateLimiterTypes == Spec => []TypeOK
<1>1. RateInv => TypeOK
  BY DEF RateInv
<1> QED
  BY <1>1, RateInvariant, PTL

\* A call of Wait is over in time, whatever the other callers do.
THEOREM WaitEnds == Spec => []WaitIsBounded
<1>1. RateInv => WaitIsBounded
  <2>1. SUFFICES ASSUME RateInv, NEW w \in Workers, ~At(w, "idle")
                 PROVE  now <= call[w].deadline + MaxCall + MaxSleep
    BY DEF WaitIsBounded
  <2>2. now \in Nat /\ call[w] \in Call /\ OnTime(w)
    BY <2>1 DEF RateInv, TypeOK
  <2> QED
    BY <2>1, <2>2, RateLimiterAssumption DEF OnTime, At, Call
<1> QED
  BY <1>1, RateInvariant, PTL

\* A step that records a grant leaves the gap to the grant before it.
LEMMA GrantIsSpaced ==
    ASSUME RateInv, NEW w \in Workers, At(w, "script"), Allowed(w), Grant(w),
           NEW d \in Domains, d \notin evicted, latest'[d] # latest[d], latest[d] # NoKey
    PROVE  \/ latest'[d].at + Offset[latest'[d].by] >= latest[d].stamp + latest'[d].gap
           \/ latest'[d].at >= latest[d].at + 2 * latest[d].gap
<1> DEFINE c == call[w]
<1>1. c \in [pc : {"script"}, d : Domains, gap : Gaps, deadline : Nat, sent : Nat]
  BY DEF RateInv, TypeOK, Call, At
<1>2. d = c.d
  BY <1>1 DEF Grant, RateInv, TypeOK
<1>3. latest'[d] = [by |-> w, stamp |-> Stamp(w), at |-> now, gap |-> c.gap]
  BY <1>2 DEF Grant, RateInv, TypeOK
<1>4. /\ now \in Nat /\ c.gap \in Nat /\ c.sent \in Nat /\ Offset[w] \in Int
      /\ latest[d].stamp \in Int
  BY <1>1, RateLimiterAssumption DEF RateInv, TypeOK, Grants
<1>5. CASE Present(d)
  <2>1. last[d].stamp = latest[d].stamp
    BY <1>5 DEF RateInv, KeyShowsLatest
  <2>2. Stamp(w) - latest[d].stamp >= c.gap
    BY <1>2, <1>5, <2>1 DEF Allowed, Elapsed
  <2>3. c.sent <= now
    BY DEF RateInv, OnTime
  <2>4. now + Offset[w] >= latest[d].stamp + c.gap
    BY <1>4, <2>2, <2>3 DEF Stamp
  <2> QED
    BY <1>3, <2>4
<1>6. CASE ~Present(d)
  BY <1>3, <1>6 DEF RateInv, KeyShowsLatest
<1> QED
  BY <1>5, <1>6

\* Recorded grants for a domain are spaced by its gap.
THEOREM Politeness == Spec => GrantsSpaced
<1> DEFINE A(d) == (latest'[d] # latest[d] /\ latest[d] # NoKey) =>
              \/ latest'[d].at + Offset[latest'[d].by] >= latest[d].stamp + latest'[d].gap
              \/ latest'[d].at >= latest[d].at + 2 * latest[d].gap
<1>1. ASSUME RateInv, [Next]_vars, NEW d \in Domains \ evicted, latest' # latest
      PROVE  A(d)
  <2>1. PICK w \in Workers : TryAcquire(w)
    BY <1>1 DEF Next, vars, Wait, Look, Wake, Cancel, Expire, Evict, Tick
  <2>2. At(w, "script") /\ Allowed(w) /\ Grant(w)
    BY <1>1, <2>1 DEF TryAcquire
  <2> QED
    BY <1>1, <2>2, GrantIsSpaced
<1>2. RateInv /\ [Next]_vars => [\A d \in Domains \ evicted : A(d)]_vars
  BY <1>1
<1> QED
  BY <1>2, RateInvariant, PTL DEF Spec, GrantsSpaced
=============================================================================
