------------------------ MODULE JobSchedulerProofs -------------------------
(***************************************************************************)
(* Proofs about JobScheduler, for every finite set of schedules and of     *)
(* tickers and every interval.                                             *)
(*                                                                         *)
(* A tick commits the move of a schedule with the job of the next one, so  *)
(* its session holds back one move at a time.  With one ticker a schedule  *)
(* is due an interval after the tick of its last job, but for a move held  *)
(* back or lost; with any number of them each job is matched by its move,  *)
(* but for the one each session holds and the one each abort has lost.     *)
(***************************************************************************)
EXTENDS JobScheduler, FiniteSetTheorems, TLAPS

SingleTicker == \A t, u \in Tickers : t = u

(* A ticker in its loop: it visits schedules that were due at its time,    *)
(* and the one whose move it holds got its job from this tick.             *)
TickerInv(k) ==
  /\ k.pc = "idle" => k.due = {} /\ k.dirty = None
  /\ k.now <= now
  /\ k.dirty \notin k.due
  /\ \A s \in k.due : nextRun[s] # None /\ nextRun[s] <= k.now
  /\ k.dirty # None => nextRun[k.dirty] # None /\ lastTick[k.dirty] = k.now

(* The next run of a schedule is an interval after its last job, but for   *)
(* the moves that were lost or are not committed yet.                      *)
Spaced(s) ==
  IF nextRun[s] = None THEN lastTick[s] = -Interval[s]
  ELSE \/ nextRun[s] >= lastTick[s] + Interval[s]
       \/ s \in torn
       \/ \E t \in Tickers : tk[t].dirty = s

SpacedInv ==
  /\ \A t \in Tickers : TickerInv(tk[t])
  /\ \A s \in Schedules : Spaced(s)

LEMMA SchedulerTypeInit == Init => TypeOK
BY IntervalAssumption DEF Init, TypeOK, Ticker, Idle

(* What a commit of ticker t does to the tables.                           *)
LEMMA CommitTypes ==
  ASSUME TypeOK, NEW t \in Tickers, Commit(t)
  PROVE  /\ nextRun' \in [Schedules -> Nat \cup {None}]
         /\ advances' \in [Schedules -> Nat]
         /\ torn' \subseteq Schedules
         /\ \A s \in Schedules : nextRun[s] # None => nextRun'[s] # None
<1>1. PICK k : k = tk[t] /\ k \in Ticker
  BY DEF TypeOK
<1>2. CASE k.dirty = None
  BY <1>1, <1>2 DEF Commit, TypeOK
<1>3. CASE k.dirty # None
  <2>1. /\ k.dirty \in Schedules /\ k.now \in Nat /\ Interval[k.dirty] \in Nat
    BY <1>1, <1>3, IntervalAssumption DEF Ticker
  <2>2. /\ nextRun' = [nextRun EXCEPT ![k.dirty] = k.now + Interval[k.dirty]]
        /\ advances' = [advances EXCEPT ![k.dirty] = @ + 1]
        /\ torn' = torn \ {k.dirty}
    BY <1>1, <1>3 DEF Commit
  <2>3. k.now + Interval[k.dirty] \in Nat /\ k.now + Interval[k.dirty] # None
    BY <2>1, NoneAssumption
  <2> QED BY <2>1, <2>2, <2>3 DEF TypeOK
<1> QED BY <1>2, <1>3

(* The form of every step: at most one ticker becomes k. *)
LEMMA TickerBecomes ==
  ASSUME TypeOK, NEW t \in Tickers, NEW k \in Ticker, tk' = [tk EXCEPT ![t] = k]
  PROVE  /\ tk' \in [Tickers -> Ticker] /\ tk'[t] = k
         /\ \A u \in Tickers : u # t => tk'[u] = tk[u]
BY DEF TypeOK

LEMMA SchedulerTypeNext == TypeOK /\ [Next]_vars => TypeOK'
<1> SUFFICES ASSUME TypeOK, [Next]_vars PROVE TypeOK'
  OBVIOUS
<1>1. CASE UNCHANGED vars
  BY <1>1 DEF vars, TypeOK
<1>2. ASSUME NEW s \in Schedules, CreateSchedule(s) PROVE TypeOK'
  <2>1. now \in Nat /\ now # None
    BY NoneAssumption DEF TypeOK
  <2> QED BY <1>2, <2>1 DEF CreateSchedule, TypeOK
<1>3. CASE Clock
  BY <1>3 DEF Clock, TypeOK
<1>4. ASSUME NEW t \in Tickers, NEW k \in Ticker, tk' = [tk EXCEPT ![t] = k],
             k.due \subseteq {s \in Schedules : nextRun'[s] # None},
             \A s \in Schedules : nextRun[s] # None => nextRun'[s] # None
      PROVE  /\ tk' \in [Tickers -> Ticker]
             /\ \A u \in Tickers : tk'[u].due \subseteq {s \in Schedules : nextRun'[s] # None}
  <2>1. \A u \in Tickers : tk[u].due \subseteq {s \in Schedules : nextRun[s] # None}
    BY DEF TypeOK
  <2> QED BY <1>4, <2>1, TickerBecomes
<1>5. ASSUME NEW t \in Tickers, TickBegin(t) PROVE TypeOK'
  <2>1. PICK k : k = [pc |-> "loop", now |-> now, dirty |-> None,
                      due |-> {s \in Schedules : Due(s)}]
    OBVIOUS
  <2>2. k \in Ticker /\ k.due \subseteq {s \in Schedules : nextRun[s] # None}
    BY <2>1 DEF Ticker, TypeOK, Due
  <2>3. tk' = [tk EXCEPT ![t] = k] /\ UNCHANGED <<now, nextRun, jobs, advances, lastTick, torn, aborts>>
    BY <1>5, <2>1 DEF TickBegin
  <2>4. /\ tk' \in [Tickers -> Ticker]
        /\ \A u \in Tickers : tk'[u].due \subseteq {s \in Schedules : nextRun'[s] # None}
    BY <1>4, <2>2, <2>3
  <2> QED BY <2>3, <2>4 DEF TypeOK
<1>6. ASSUME NEW t \in Tickers, NEW s \in Schedules, TickEnqueue(t, s) PROVE TypeOK'
  <2>1. PICK k : k = [tk[t] EXCEPT !.due = @ \ {s}, !.dirty = s]
    OBVIOUS
  <2>2. k \in Ticker /\ k.due \subseteq tk[t].due /\ tk[t].now \in Nat
    <3>1. tk[t] \in Ticker
      BY DEF TypeOK
    <3> QED BY <2>1, <3>1 DEF Ticker
  <2>3. /\ tk' = [tk EXCEPT ![t] = k] /\ UNCHANGED <<now, aborts>> /\ Commit(t)
        /\ jobs' = [jobs EXCEPT ![s] = @ + 1]
        /\ lastTick' = [lastTick EXCEPT ![s] = tk[t].now]
    BY <1>6, <2>1 DEF TickEnqueue, TypeOK
  <2>4. /\ nextRun' \in [Schedules -> Nat \cup {None}]
        /\ advances' \in [Schedules -> Nat]
        /\ torn' \subseteq Schedules
        /\ \A x \in Schedules : nextRun[x] # None => nextRun'[x] # None
    BY <2>3, CommitTypes
  <2>5. k.due \subseteq {x \in Schedules : nextRun'[x] # None}
    BY <2>2, <2>4 DEF TypeOK
  <2>6. /\ tk' \in [Tickers -> Ticker]
        /\ \A u \in Tickers : tk'[u].due \subseteq {x \in Schedules : nextRun'[x] # None}
    BY <1>4, <2>2, <2>3, <2>4, <2>5
  <2>7. jobs' \in [Schedules -> Nat] /\ lastTick' \in [Schedules -> Int]
    BY <2>2, <2>3 DEF TypeOK
  <2> QED BY <2>3, <2>4, <2>6, <2>7 DEF TypeOK
<1>7. Idle \in Ticker /\ Idle.due = {}
  BY DEF Idle, Ticker
<1>8. ASSUME NEW t \in Tickers, TickEnd(t) PROVE TypeOK'
  <2>1. /\ nextRun' \in [Schedules -> Nat \cup {None}]
        /\ advances' \in [Schedules -> Nat]
        /\ torn' \subseteq Schedules
        /\ \A x \in Schedules : nextRun[x] # None => nextRun'[x] # None
    BY <1>8, CommitTypes DEF TickEnd
  <2>2. /\ tk' \in [Tickers -> Ticker]
        /\ \A u \in Tickers : tk'[u].due \subseteq {x \in Schedules : nextRun'[x] # None}
    BY <1>4, <1>7, <1>8, <2>1 DEF TickEnd
  <2> QED BY <1>8, <2>1, <2>2 DEF TickEnd, TypeOK
<1>9. ASSUME NEW t \in Tickers, TickAbort(t) PROVE TypeOK'
  <2>1. /\ tk' \in [Tickers -> Ticker]
        /\ \A u \in Tickers : tk'[u].due \subseteq {x \in Schedules : nextRun'[x] # None}
    BY <1>4, <1>7, <1>9 DEF TickAbort
  <2>2. torn' \subseteq Schedules
    BY <1>9 DEF TickAbort, TypeOK, Ticker
  <2> QED BY <1>9, <2>1, <2>2 DEF TickAbort, TypeOK
<1> QED BY <1>1, <1>2, <1>3, <1>5, <1>6, <1>8, <1>9 DEF Next, TickStep

(* The schedules, the history and what a ticker holds keep their types: a  *)
(* schedule a tick visits has been created.                                *)
THEOREM SchedulerTyped == Spec => []TypeOK
BY SchedulerTypeInit, SchedulerTypeNext, PTL DEF Spec

LEMMA SpacedInit == Init => SpacedInv
BY DEF Init, SpacedInv, TickerInv, Spaced, Idle

(* With one ticker, its session's commit leaves the schedules it visits    *)
(* alone and spaces the one it moves.                                      *)
LEMMA CommitSpaces ==
  ASSUME TypeOK, SpacedInv, NEW t \in Tickers, Commit(t)
  PROVE  /\ \A s \in Schedules : s # tk[t].dirty =>
              nextRun'[s] = nextRun[s] /\ (s \in torn' <=> s \in torn)
         /\ \A s \in Schedules : s = tk[t].dirty =>
              nextRun'[s] = lastTick[s] + Interval[s] /\ nextRun'[s] # None
<1>1. PICK k : k = tk[t] /\ k \in Ticker /\ TickerInv(k)
  BY DEF TypeOK, SpacedInv
<1>2. CASE k.dirty = None
  BY <1>1, <1>2, NoneAssumption DEF Commit
<1>3. CASE k.dirty # None
  <2>1. /\ k.dirty \in Schedules /\ k.now \in Nat /\ Interval[k.dirty] \in Nat
        /\ lastTick[k.dirty] = k.now
    BY <1>1, <1>3, IntervalAssumption DEF Ticker, TickerInv
  <2>2. /\ nextRun' = [nextRun EXCEPT ![k.dirty] = k.now + Interval[k.dirty]]
        /\ torn' = torn \ {k.dirty}
    BY <1>1, <1>3 DEF Commit
  <2>3. k.now + Interval[k.dirty] # None
    BY <2>1, NoneAssumption
  <2> QED BY <1>1, <2>1, <2>2, <2>3 DEF TypeOK
<1> QED BY <1>2, <1>3

LEMMA SpacedNext ==
  ASSUME SingleTicker, TypeOK, TypeOK', SpacedInv, [Next]_vars
  PROVE  SpacedInv'
<1>1. /\ now \in Nat /\ now # None
      /\ nextRun \in [Schedules -> Nat \cup {None}]
      /\ tk \in [Tickers -> Ticker]
      /\ lastTick \in [Schedules -> Int]
      /\ \A s \in Schedules : Interval[s] \in Nat
      /\ \A t \in Tickers : TickerInv(tk[t])
      /\ \A s \in Schedules : Spaced(s)
  BY NoneAssumption, IntervalAssumption DEF TypeOK, SpacedInv
<1>2. CASE UNCHANGED vars
  BY <1>2 DEF vars, SpacedInv, TickerInv, Spaced
<1>3. ASSUME NEW x \in Schedules, CreateSchedule(x) PROVE SpacedInv'
  <2>1. /\ nextRun[x] = None /\ nextRun' = [nextRun EXCEPT ![x] = now]
        /\ UNCHANGED <<now, tk, lastTick, torn>>
    BY <1>3 DEF CreateSchedule
  <2>2. /\ nextRun'[x] = now
        /\ \A s \in Schedules : s # x => nextRun'[s] = nextRun[s]
    BY <1>1, <2>1
  <2>3. ASSUME NEW t \in Tickers PROVE TickerInv(tk[t])'
    <3>1. PICK k : k = tk[t] /\ k = tk'[t] /\ TickerInv(k) /\ k \in Ticker
      BY <1>1, <2>1
    <3>2. x \notin k.due /\ x # k.dirty
      BY <2>1, <3>1, NoneAssumption DEF TickerInv
    <3>3. \A s \in k.due : s \in Schedules
      BY <3>1 DEF Ticker
    <3>4. k.dirty # None => k.dirty \in Schedules
      BY <3>1 DEF Ticker
    <3>5. TickerInv(k)'
      BY <2>1, <2>2, <3>1, <3>2, <3>3, <3>4 DEF TickerInv
    <3> QED BY <3>1, <3>5 DEF TickerInv
  <2>4. ASSUME NEW s \in Schedules PROVE Spaced(s)'
    BY <1>1, <2>1, <2>2 DEF Spaced
  <2> QED BY <2>3, <2>4 DEF SpacedInv
<1>4. CASE Clock
  <2>1. now' = now + 1 /\ UNCHANGED <<nextRun, tk, lastTick, torn>>
    BY <1>4 DEF Clock
  <2>2. ASSUME NEW t \in Tickers PROVE TickerInv(tk[t])'
    <3>1. tk[t].now \in Nat /\ TickerInv(tk[t])
      BY <1>1 DEF Ticker
    <3> QED BY <1>1, <2>1, <3>1 DEF TickerInv
  <2>3. ASSUME NEW s \in Schedules PROVE Spaced(s)'
    BY <1>1, <2>1 DEF Spaced
  <2> QED BY <2>2, <2>3 DEF SpacedInv
<1>5. ASSUME NEW t \in Tickers, TickBegin(t) PROVE SpacedInv'
  <2>1. PICK k : /\ k = [pc |-> "loop", now |-> now, dirty |-> None,
                         due |-> {s \in Schedules : Due(s)}]
                 /\ tk' = [tk EXCEPT ![t] = k]
    BY <1>5 DEF TickBegin
  <2>2. /\ tk[t].pc = "idle" /\ UNCHANGED <<now, nextRun, lastTick, torn>>
        /\ tk'[t] = k /\ \A u \in Tickers : u = t
    BY <1>1, <1>5, <2>1 DEF TickBegin, SingleTicker
  <2>3. TickerInv(k)'
    BY <1>1, <2>1, <2>2, NoneAssumption DEF TickerInv, Due
  <2>4. ASSUME NEW s \in Schedules PROVE Spaced(s)'
    <3>1. tk[t].dirty # s
      BY <1>1, <2>2, NoneAssumption DEF TickerInv
    <3> QED BY <1>1, <2>2, <3>1 DEF Spaced
  <2>5. ASSUME NEW u \in Tickers PROVE TickerInv(tk[u])'
    BY <2>2, <2>3 DEF TickerInv
  <2> QED BY <2>4, <2>5 DEF SpacedInv
<1>6. ASSUME NEW t \in Tickers, NEW x \in Schedules, TickEnqueue(t, x) PROVE SpacedInv'
  <2>1. PICK k, m : /\ m = tk[t] /\ m \in Ticker /\ TickerInv(m)
                    /\ k = [m EXCEPT !.due = @ \ {x}, !.dirty = x]
                    /\ tk' = [tk EXCEPT ![t] = k]
    BY <1>1, <1>6 DEF TickEnqueue
  <2>2. /\ k.now = m.now /\ k.pc = "loop" /\ k.due = m.due \ {x} /\ k.dirty = x
        /\ tk'[t] = k /\ \A u \in Tickers : u = t
    BY <1>1, <1>6, <2>1 DEF TickEnqueue, Ticker, SingleTicker
  <2>3. /\ x \in m.due /\ now' = now /\ Commit(t)
        /\ lastTick' = [lastTick EXCEPT ![x] = m.now]
    BY <1>6, <2>1 DEF TickEnqueue
  <2>4. /\ \A s \in Schedules : s # m.dirty =>
              nextRun'[s] = nextRun[s] /\ (s \in torn' <=> s \in torn)
        /\ \A s \in Schedules : s = m.dirty =>
              nextRun'[s] = lastTick[s] + Interval[s] /\ nextRun'[s] # None
    BY <2>1, <2>3, CommitSpaces
  <2>5. /\ lastTick'[x] = m.now
        /\ \A s \in Schedules : s # x => lastTick'[s] = lastTick[s]
    BY <1>1, <2>3
  <2>6. x # m.dirty /\ nextRun'[x] # None
    BY <2>1, <2>3, <2>4 DEF TickerInv
  <2>7. TickerInv(k)'
    <3>1. \A s \in m.due : s \in Schedules /\ s # m.dirty
      BY <2>1 DEF Ticker, TickerInv
    <3> QED BY <2>1, <2>2, <2>3, <2>4, <2>5, <2>6, <3>1 DEF TickerInv
  <2>8. ASSUME NEW s \in Schedules PROVE Spaced(s)'
    <3>1. CASE s = x
      BY <2>2, <2>6, <3>1 DEF Spaced
    <3>2. CASE s # x /\ s = m.dirty
      <4>1. nextRun'[s] = lastTick'[s] + Interval[s]
        BY <2>4, <2>5, <3>2
      <4>2. lastTick'[s] + Interval[s] \in Int
        BY <1>1, <2>5, <3>2
      <4> QED BY <2>4, <3>2, <4>1, <4>2 DEF Spaced
    <3>3. CASE s # x /\ s # m.dirty
      <4>1. \A u \in Tickers : tk[u].dirty # s
        BY <2>1, <2>2, <3>3
      <4>2. nextRun'[s] = nextRun[s] /\ lastTick'[s] = lastTick[s] /\ (s \in torn => s \in torn')
        BY <2>4, <2>5, <3>3
      <4>3. Spaced(s)
        BY <1>1
      <4> QED BY <4>1, <4>2, <4>3 DEF Spaced
    <3> QED BY <3>1, <3>2, <3>3
  <2>9. ASSUME NEW u \in Tickers PROVE TickerInv(tk[u])'
    BY <2>2, <2>7 DEF TickerInv
  <2> QED BY <2>8, <2>9 DEF SpacedInv
<1>7. ASSUME NEW t \in Tickers, TickEnd(t) \/ TickAbort(t) PROVE SpacedInv'
  <2>1. /\ tk' = [tk EXCEPT ![t] = Idle] /\ UNCHANGED <<now, lastTick>>
        /\ tk'[t] = Idle /\ \A u \in Tickers : u = t
    BY <1>1, <1>7 DEF TickEnd, TickAbort, SingleTicker
  <2>2. ASSUME NEW u \in Tickers PROVE TickerInv(tk[u])'
    BY <1>1, <2>1 DEF TickerInv, Idle
  <2>3. ASSUME NEW s \in Schedules, TickEnd(t) PROVE Spaced(s)'
    <3>1. /\ \A x \in Schedules : x # tk[t].dirty =>
                nextRun'[x] = nextRun[x] /\ (x \in torn' <=> x \in torn)
          /\ \A x \in Schedules : x = tk[t].dirty =>
                nextRun'[x] = lastTick[x] + Interval[x] /\ nextRun'[x] # None
      BY <2>3, CommitSpaces DEF TickEnd
    <3>2. CASE s = tk[t].dirty
      <4>1. nextRun'[s] = lastTick'[s] + Interval[s] /\ lastTick'[s] + Interval[s] \in Int
        BY <1>1, <2>1, <3>1, <3>2
      <4> QED BY <3>1, <3>2, <4>1 DEF Spaced
    <3>3. CASE s # tk[t].dirty
      <4>1. \A u \in Tickers : tk[u].dirty # s
        BY <2>1, <3>3
      <4>2. nextRun'[s] = nextRun[s] /\ lastTick'[s] = lastTick[s] /\ (s \in torn => s \in torn')
        BY <2>1, <3>1, <3>3
      <4>3. Spaced(s)
        BY <1>1
      <4> QED BY <4>1, <4>2, <4>3 DEF Spaced
    <3> QED BY <3>2, <3>3
  <2>4. ASSUME NEW s \in Schedules, TickAbort(t) PROVE Spaced(s)'
    <3>1. /\ UNCHANGED nextRun
          /\ torn \subseteq torn' /\ (s = tk[t].dirty => s \in torn')
      BY <2>4, NoneAssumption DEF TickAbort
    <3>2. Spaced(s) /\ \A u \in Tickers : tk[u].dirty = s => s = tk[t].dirty
      BY <1>1, <2>1
    <3>3. CASE \E u \in Tickers : tk[u].dirty = s
      <4>1. s \in torn' /\ nextRun[s] # None
        BY <1>1, <3>1, <3>2, <3>3, NoneAssumption DEF TickerInv
      <4> QED BY <3>1, <4>1 DEF Spaced
    <3>4. CASE \A u \in Tickers : tk[u].dirty # s
      BY <2>1, <3>1, <3>2, <3>4 DEF Spaced
    <3> QED BY <3>3, <3>4
  <2> QED BY <1>7, <2>2, <2>3, <2>4 DEF SpacedInv
<1> QED BY <1>2, <1>3, <1>4, <1>5, <1>6, <1>7 DEF Next, TickStep

(* With one scheduler, the jobs of a schedule come from ticks at least an  *)
(* interval apart, unless the move after the last job was lost.            *)
THEOREM RepeatsSpaced ==
  ASSUME SingleTicker
  PROVE  Spec => NoEarlyRepeat
<1>1. ASSUME TypeOK, SpacedInv, Next, NEW s \in Schedules,
             jobs'[s] > jobs[s]
      PROVE  lastTick'[s] >= lastTick[s] + Interval[s] \/ s \in torn
  <2>1. jobs[s] \in Nat
    BY <1>1 DEF TypeOK
  <2>2. PICK t \in Tickers, x \in Schedules : TickEnqueue(t, x)
    <3>1. jobs' # jobs
      BY <1>1, <2>1
    <3> QED BY <1>1, <3>1 DEF Next, TickStep, CreateSchedule, Clock, TickBegin, TickEnd, TickAbort
  <2>3. x = s
    BY <1>1, <2>1, <2>2 DEF TickEnqueue, TypeOK
  <2>4. PICK k : k = tk[t] /\ k \in Ticker /\ TickerInv(k)
    BY <1>1 DEF TypeOK, SpacedInv
  <2>5. /\ s \in k.due /\ lastTick'[s] = k.now /\ k.now \in Nat
        /\ nextRun[s] # None /\ nextRun[s] <= k.now /\ s # k.dirty
    BY <1>1, <2>2, <2>3, <2>4 DEF TickEnqueue, TickerInv, TypeOK, Ticker
  <2>6. Spaced(s) /\ \A u \in Tickers : tk[u].dirty # s
    BY <1>1, <2>4, <2>5 DEF SpacedInv, SingleTicker
  <2>7. /\ nextRun[s] \in Nat /\ lastTick[s] \in Int /\ Interval[s] \in Nat
    BY <2>5, IntervalAssumption, <1>1 DEF TypeOK
  <2> QED BY <2>5, <2>6, <2>7 DEF Spaced
<1>2. TypeOK /\ SpacedInv /\ [Next]_vars =>
        [\A s \in Schedules : jobs'[s] > jobs[s]
           => lastTick'[s] >= lastTick[s] + Interval[s] \/ s \in torn]_vars
  BY <1>1
<1>3. TypeOK /\ TypeOK' /\ SpacedInv /\ [Next]_vars => SpacedInv'
  BY SpacedNext
<1> QED BY <1>2, <1>3, SpacedInit, SchedulerTyped, PTL DEF Spec, NoEarlyRepeat

-----------------------------------------------------------------------------
(* How many jobs exceed their moves.  The sum counts pairs: a sum over a   *)
(* finite set, of differences of naturals, is the difference of the sizes  *)
(* of two sets of pairs.                                                   *)
LEMMA SubsetInduction ==
  ASSUME NEW S, IsFiniteSet(S), NEW G, {} \in G,
         \A s \in SUBSET S : s # {} /\ (\A x \in s : s \ {x} \in G) => s \in G
  PROVE  \A s \in SUBSET S : s \in G
<1>1. SUFFICES ASSUME {s \in SUBSET S : s \notin G} # {} PROVE FALSE
  OBVIOUS
<1>2. IsWellFoundedOn(StrictSubsetOrdering(S), SUBSET S)
  BY FS_StrictSubsetOrderingWellFounded, FS_FiniteSubsetsOfFinite
<1>3. PICK s \in {s \in SUBSET S : s \notin G} :
        \A y \in {y \in SUBSET S : y \notin G} : ~ (<<y, s>> \in StrictSubsetOrdering(S))
  BY <1>1, <1>2, WFMin
<1>4. ASSUME NEW x \in s PROVE s \ {x} \in G
  <2>1. <<s \ {x}, s>> \in StrictSubsetOrdering(S)
    BY DEF StrictSubsetOrdering
  <2> QED BY <1>3, <2>1
<1> QED BY <1>3, <1>4

Pairs(p, s) == {y \in s \X Nat : 1 <= y[2] /\ y[2] <= p[y[1]]}

LEMMA PairsOfOne ==
  ASSUME NEW S, NEW p \in [S -> Nat], NEW s \in SUBSET S, NEW x \in s,
         IsFiniteSet(Pairs(p, s \ {x}))
  PROVE  /\ IsFiniteSet(Pairs(p, s))
         /\ Cardinality(Pairs(p, s)) = p[x] + Cardinality(Pairs(p, s \ {x}))
<1> DEFINE mine == {x} \X (1 .. p[x])
           rest == Pairs(p, s \ {x})
<1>1. p[x] \in Nat
  OBVIOUS
<1>2. /\ IsFiniteSet(1 .. p[x]) /\ Cardinality(1 .. p[x]) = p[x]
      /\ IsFiniteSet({x}) /\ Cardinality({x}) = 1
  <2>1. 1 \in Int /\ p[x] \in Int
    BY <1>1
  <2>2. /\ IsFiniteSet(1 .. p[x])
        /\ Cardinality(1 .. p[x]) = IF 1 > p[x] THEN 0 ELSE p[x] - 1 + 1
    BY <2>1, FS_Interval, Zenon
  <2>3. IsFiniteSet({x}) /\ Cardinality({x}) = 1
    BY FS_Singleton, Zenon
  <2> QED BY <1>1, <2>2, <2>3
<1>3. IsFiniteSet(mine) /\ Cardinality(mine) = p[x]
  BY <1>1, <1>2, FS_Product
<1>4. Pairs(p, s) = mine \cup rest /\ mine \cap rest = {}
  BY <1>1 DEF Pairs
<1> HIDE DEF mine, rest
<1>5. IsFiniteSet(rest) /\ Cardinality(rest) \in Nat
  BY FS_CardinalityType DEF rest
<1>6. /\ IsFiniteSet(mine \cup rest)
      /\ Cardinality(mine \cup rest)
           = Cardinality(mine) + Cardinality(rest) - Cardinality(mine \cap rest)
  BY <1>3, <1>5, FS_Union, Zenon
<1>7. Cardinality(mine \cap rest) = 0
  BY <1>4, FS_EmptySet, Zenon
<1>8. /\ IsFiniteSet(Pairs(p, s))
      /\ Cardinality(Pairs(p, s)) = p[x] + Cardinality(rest)
  BY <1>1, <1>3, <1>4, <1>5, <1>6, <1>7
<1> QED BY <1>8 DEF rest

LEMMA PairsFinite ==
  ASSUME NEW S, IsFiniteSet(S), NEW p \in [S -> Nat]
  PROVE  \A s \in SUBSET S : IsFiniteSet(Pairs(p, s)) /\ Cardinality(Pairs(p, s)) \in Nat
<1> DEFINE G == {s \in SUBSET S : IsFiniteSet(Pairs(p, s))}
<1>1. {} \in G
  <2>1. Pairs(p, {}) = {}
    BY DEF Pairs
  <2> QED BY <2>1, FS_EmptySet
<1>2. ASSUME NEW s \in SUBSET S, s # {}, \A x \in s : s \ {x} \in G PROVE s \in G
  BY <1>2, PairsOfOne
<1>3. \A s \in SUBSET S : s \in G
  <2> HIDE DEF G
  <2> QED BY <1>1, <1>2, SubsetInduction
<1> QED BY <1>3, FS_CardinalityType

Excess(p, q, S) == MapThenSumSet(LAMBDA s : p[s] - q[s], S)

LEMMA ExcessCounted ==
  ASSUME NEW S, IsFiniteSet(S), NEW p \in [S -> Nat], NEW q \in [S -> Nat]
  PROVE  Excess(p, q, S) = Cardinality(Pairs(p, S)) - Cardinality(Pairs(q, S))
<1> DEFINE Some(s) == CHOOSE x \in s : TRUE
           Step(h) == [s \in SUBSET S |->
                         IF s = {} THEN 0
                         ELSE (p[Some(s)] - q[Some(s)]) + h[s \ {Some(s)}]]
           total   == CHOOSE h : h = Step(h)
           Size(s) == Cardinality(Pairs(p, s)) - Cardinality(Pairs(q, s))
           sizes   == [s \in SUBSET S |-> Size(s)]
<1>1. Excess(p, q, S) = total[S]
  BY DEF Excess, MapThenSumSet, MapThenFoldSet
<1>2. \A s \in SUBSET S : s # {} => Some(s) \in s
  OBVIOUS
<1>3. Size({}) = 0
  <2>1. Pairs(p, {}) = {} /\ Pairs(q, {}) = {}
    BY DEF Pairs
  <2> QED BY <2>1, FS_EmptySet
<1>4. ASSUME NEW s \in SUBSET S, NEW x \in s
      PROVE  Size(s) = (p[x] - q[x]) + Size(s \ {x})
  <2>1. /\ IsFiniteSet(Pairs(p, s \ {x})) /\ Cardinality(Pairs(p, s \ {x})) \in Nat
        /\ IsFiniteSet(Pairs(q, s \ {x})) /\ Cardinality(Pairs(q, s \ {x})) \in Nat
    BY PairsFinite
  <2>2. /\ Cardinality(Pairs(p, s)) = p[x] + Cardinality(Pairs(p, s \ {x}))
        /\ Cardinality(Pairs(q, s)) = q[x] + Cardinality(Pairs(q, s \ {x}))
    BY <2>1, PairsOfOne
  <2>3. p[x] \in Nat /\ q[x] \in Nat
    OBVIOUS
  <2> QED BY <2>1, <2>2, <2>3
<1> HIDE DEF Size, Some
<1>5. sizes = Step(sizes)
  <2>1. ASSUME NEW s \in SUBSET S
        PROVE  Size(s) = IF s = {} THEN 0
                         ELSE (p[Some(s)] - q[Some(s)]) + sizes[s \ {Some(s)}]
    BY <1>2, <1>3, <1>4
  <2> QED BY <2>1
<1> HIDE DEF sizes
<1>6. total = Step(total)
  <2> HIDE DEF Step
  <2> QED BY <1>5
<1> HIDE DEF total
<1>7. \A s \in SUBSET S :
        total[s] = IF s = {} THEN 0
                   ELSE (p[Some(s)] - q[Some(s)]) + total[s \ {Some(s)}]
  BY <1>6
<1> HIDE DEF Step
<1> DEFINE G == {s \in SUBSET S : total[s] = Size(s)}
<1>8. {} \in G
  BY <1>3, <1>7
<1>9. ASSUME NEW s \in SUBSET S, s # {}, \A x \in s : s \ {x} \in G PROVE s \in G
  BY <1>2, <1>4, <1>7, <1>9
<1>10. \A s \in SUBSET S : s \in G
  <2> HIDE DEF G
  <2> QED BY <1>8, <1>9, SubsetInduction
<1> QED BY <1>1, <1>10 DEF Size

(* One more of p at x is one more pair. *)
LEMMA PairsGrow ==
  ASSUME NEW S, IsFiniteSet(S), NEW p \in [S -> Nat], NEW x \in S
  PROVE  Cardinality(Pairs([p EXCEPT ![x] = @ + 1], S)) = Cardinality(Pairs(p, S)) + 1
<1> DEFINE new == [p EXCEPT ![x] = @ + 1]
           pair == <<x, p[x] + 1>>
<1>1. p[x] \in Nat /\ new[x] = p[x] + 1 /\ \A y \in S : y # x => new[y] = p[y]
  OBVIOUS
<1>2. pair \notin Pairs(p, S)
  BY <1>1 DEF Pairs
<1>3. Pairs(new, S) = Pairs(p, S) \cup {pair}
  <2> HIDE DEF new
  <2> QED BY <1>1 DEF Pairs
<1>4. IsFiniteSet(Pairs(p, S))
  BY PairsFinite
<1> HIDE DEF new, pair
<1> QED BY <1>2, <1>3, <1>4, FS_AddElement DEF new

Dirty == {t \in Tickers : tk[t].dirty # None}

DuplicateInv ==
  /\ \A t \in Tickers : tk[t].pc = "idle" => tk[t].dirty = None
  /\ Cardinality(Pairs(jobs, Schedules)) - Cardinality(Pairs(advances, Schedules))
       <= aborts + Cardinality(Dirty)

LEMMA DuplicateInit == Init => DuplicateInv
<1> SUFFICES ASSUME Init PROVE DuplicateInv
  OBVIOUS
<1>1. Pairs(jobs, Schedules) = {} /\ Pairs(advances, Schedules) = {} /\ Dirty = {}
  BY DEF Init, Pairs, Dirty, Idle
<1>2. Cardinality({}) = 0 /\ aborts = 0
  BY FS_EmptySet DEF Init
<1>3. \A t \in Tickers : tk[t].dirty = None
  BY DEF Init, Idle
<1>4. Cardinality(Pairs(jobs, Schedules)) - Cardinality(Pairs(advances, Schedules))
        <= aborts + Cardinality(Dirty)
  BY <1>1, <1>2
<1> QED BY <1>3, <1>4 DEF DuplicateInv

(* What the session of ticker t takes on and gives up, in numbers. *)
LEMMA DirtyChanges ==
  ASSUME TypeOK, NEW t \in Tickers, NEW k \in Ticker, tk' = [tk EXCEPT ![t] = k]
  PROVE  /\ Cardinality(Dirty) \in Nat /\ Cardinality(Dirty') \in Nat
         /\ (tk[t].dirty = None /\ k.dirty # None) =>
              Cardinality(Dirty') = Cardinality(Dirty) + 1
         /\ (tk[t].dirty # None /\ k.dirty = None) =>
              Cardinality(Dirty') = Cardinality(Dirty) - 1
         /\ (tk[t].dirty = None <=> k.dirty = None) => Dirty' = Dirty
<1>1. tk'[t] = k /\ \A u \in Tickers : u # t => tk'[u] = tk[u]
  BY TickerBecomes
<1>2. IsFiniteSet(Dirty) /\ IsFiniteSet(Dirty')
  <2>1. Dirty \in SUBSET Tickers /\ Dirty' \in SUBSET Tickers
    BY DEF Dirty
  <2> QED BY <2>1, FiniteAssumption, FS_Subset
<1>3. Cardinality(Dirty) \in Nat /\ Cardinality(Dirty') \in Nat
  BY <1>2, FS_CardinalityType
<1>4. ASSUME tk[t].dirty = None, k.dirty # None
      PROVE  Cardinality(Dirty') = Cardinality(Dirty) + 1
  <2>1. t \notin Dirty /\ Dirty' = Dirty \cup {t}
    BY <1>1, <1>4 DEF Dirty
  <2> QED BY <1>2, <2>1, FS_AddElement
<1>5. ASSUME tk[t].dirty # None, k.dirty = None
      PROVE  Cardinality(Dirty') = Cardinality(Dirty) - 1
  <2>1. t \in Dirty /\ Dirty' = Dirty \ {t}
    BY <1>1, <1>5 DEF Dirty
  <2> QED BY <1>2, <2>1, FS_RemoveElement
<1>6. ASSUME tk[t].dirty = None <=> k.dirty = None PROVE Dirty' = Dirty
  BY <1>1, <1>6 DEF Dirty
<1> QED BY <1>3, <1>4, <1>5, <1>6

LEMMA CommitCounts ==
  ASSUME TypeOK, NEW t \in Tickers, Commit(t)
  PROVE  Cardinality(Pairs(advances', Schedules))
           = Cardinality(Pairs(advances, Schedules)) + (IF tk[t].dirty = None THEN 0 ELSE 1)
<1>1. advances \in [Schedules -> Nat] /\ tk[t].dirty \in Schedules \cup {None}
  BY DEF TypeOK, Ticker
<1>2. Cardinality(Pairs(advances, Schedules)) \in Nat
  BY <1>1, PairsFinite, FiniteAssumption
<1>3. CASE tk[t].dirty = None
  BY <1>2, <1>3 DEF Commit
<1>4. CASE tk[t].dirty # None
  <2>1. advances' = [advances EXCEPT ![tk[t].dirty] = @ + 1] /\ tk[t].dirty \in Schedules
    BY <1>1, <1>4 DEF Commit
  <2> QED BY <1>1, <1>4, <2>1, PairsGrow, FiniteAssumption
<1> QED BY <1>3, <1>4

LEMMA DuplicateNext == TypeOK /\ DuplicateInv /\ [Next]_vars => DuplicateInv'
<1> SUFFICES ASSUME TypeOK, DuplicateInv, [Next]_vars PROVE DuplicateInv'
  OBVIOUS
<1> DEFINE J == Cardinality(Pairs(jobs, Schedules))
           A == Cardinality(Pairs(advances, Schedules))
           D == Cardinality(Dirty)
<1>1. /\ jobs \in [Schedules -> Nat] /\ advances \in [Schedules -> Nat]
      /\ tk \in [Tickers -> Ticker] /\ aborts \in Nat
      /\ \A t \in Tickers : tk[t].dirty \in Schedules \cup {None}
      /\ \A t \in Tickers : tk[t].pc = "idle" => tk[t].dirty = None
      /\ J - A <= aborts + D
  BY DEF TypeOK, DuplicateInv, Ticker
<1>2. J \in Nat /\ A \in Nat
  BY <1>1, PairsFinite, FiniteAssumption
<1>3. CASE UNCHANGED <<tk, jobs, advances, aborts>>
  BY <1>3 DEF DuplicateInv, Dirty
<1>4. ASSUME NEW t \in Tickers, NEW k \in Ticker, tk' = [tk EXCEPT ![t] = k],
             k.pc = "idle" => k.dirty = None,
             J' - A' <= aborts' + D'
      PROVE  DuplicateInv'
  BY <1>1, <1>4, TickerBecomes DEF DuplicateInv
<1>5. ASSUME NEW t \in Tickers, TickBegin(t) PROVE DuplicateInv'
  <2>1. PICK k : k = [pc |-> "loop", now |-> now, dirty |-> None,
                      due |-> {s \in Schedules : Due(s)}]
    OBVIOUS
  <2>2. /\ k \in Ticker /\ k.dirty = None /\ tk[t].dirty = None
        /\ tk' = [tk EXCEPT ![t] = k] /\ UNCHANGED <<jobs, advances, aborts>>
    BY <1>1, <1>5, <2>1 DEF TickBegin, Ticker, TypeOK
  <2>3. Dirty' = Dirty
    BY <2>2, DirtyChanges
  <2>4. J' - A' <= aborts' + D'
    BY <1>1, <2>2, <2>3
  <2> QED BY <1>4, <2>2, <2>4
<1>6. ASSUME NEW t \in Tickers, NEW s \in Schedules, TickEnqueue(t, s) PROVE DuplicateInv'
  <2>1. PICK k : k = [tk[t] EXCEPT !.due = @ \ {s}, !.dirty = s]
    OBVIOUS
  <2>2. /\ k \in Ticker /\ k.dirty # None /\ k.pc = "loop"
        /\ tk' = [tk EXCEPT ![t] = k] /\ UNCHANGED aborts
        /\ Commit(t) /\ jobs' = [jobs EXCEPT ![s] = @ + 1]
    BY <1>1, <1>6, <2>1, NoneAssumption DEF TickEnqueue, Ticker
  <2>3. /\ D \in Nat /\ D' \in Nat
        /\ tk[t].dirty = None => D' = D + 1
        /\ tk[t].dirty # None => D' = D
    BY <2>2, DirtyChanges
  <2>4. J' = J + 1
    BY <1>1, <2>2, PairsGrow, FiniteAssumption
  <2>5. A' = A + (IF tk[t].dirty = None THEN 0 ELSE 1)
    BY <2>2, CommitCounts
  <2>6. J' - A' <= aborts' + D'
    BY <1>1, <1>2, <2>2, <2>3, <2>4, <2>5
  <2> QED BY <1>4, <2>2, <2>6
<1>7. Idle \in Ticker /\ Idle.dirty = None
  BY DEF Idle, Ticker
<1>8. ASSUME NEW t \in Tickers, TickEnd(t) PROVE DuplicateInv'
  <2>1. /\ tk' = [tk EXCEPT ![t] = Idle] /\ UNCHANGED <<jobs, aborts>> /\ Commit(t)
    BY <1>8 DEF TickEnd
  <2>2. /\ D \in Nat /\ D' \in Nat
        /\ tk[t].dirty = None => D' = D
        /\ tk[t].dirty # None => D' = D - 1
    BY <1>7, <2>1, DirtyChanges
  <2>3. A' = A + (IF tk[t].dirty = None THEN 0 ELSE 1)
    BY <2>1, CommitCounts
  <2>4. J' = J
    BY <2>1
  <2>5. J' - A' <= aborts' + D'
    BY <1>1, <1>2, <2>1, <2>2, <2>3, <2>4
  <2> QED BY <1>4, <1>7, <2>1, <2>5
<1>9. ASSUME NEW t \in Tickers, TickAbort(t) PROVE DuplicateInv'
  <2>1. /\ tk' = [tk EXCEPT ![t] = Idle] /\ UNCHANGED <<jobs, advances>>
        /\ aborts' = aborts + 1
    BY <1>9 DEF TickAbort
  <2>2. /\ D \in Nat /\ D' \in Nat
        /\ tk[t].dirty = None => D' = D
        /\ tk[t].dirty # None => D' = D - 1
    BY <1>7, <2>1, DirtyChanges
  <2>3. J' = J /\ A' = A
    BY <2>1
  <2>4. J' - A' <= aborts' + D'
    BY <1>1, <1>2, <2>1, <2>2, <2>3
  <2> QED BY <1>4, <1>7, <2>1, <2>4
<1> QED BY <1>3, <1>5, <1>6, <1>8, <1>9
        DEF Next, TickStep, vars, CreateSchedule, Clock

(* However many sessions tick and whenever they are cut short, a tick that *)
(* is aborted duplicates the job of at most one schedule.                  *)
THEOREM DuplicatesBounded == Spec => []OneDuplicatePerAbort
<1>1. TypeOK /\ DuplicateInv => OneDuplicatePerAbort
  <2> SUFFICES ASSUME TypeOK, DuplicateInv PROVE OneDuplicatePerAbort
    OBVIOUS
  <2>1. Excess(jobs, advances, Schedules)
          = Cardinality(Pairs(jobs, Schedules)) - Cardinality(Pairs(advances, Schedules))
    BY ExcessCounted, FiniteAssumption DEF TypeOK
  <2>2. OneDuplicatePerAbort <=>
          Excess(jobs, advances, Schedules) <= aborts + Cardinality(Dirty)
    BY DEF OneDuplicatePerAbort, Excess, Dirty
  <2> QED BY <2>1, <2>2 DEF DuplicateInv
<1> QED BY <1>1, DuplicateInit, DuplicateNext, SchedulerTyped, PTL DEF Spec
=============================================================================
