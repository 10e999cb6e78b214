------------------------- MODULE RouterEngine_proofs -------------------------
(***************************************************************************)
(* Proofs about the walks of RouterEngine, for every registry, declared    *)
(* graph, budget, policy and set of requests.  They rest on no property of *)
(* the breakers: whatever those answer, a walk is bounded and never        *)
(* returns to a deployment.                                                *)
(***************************************************************************)
EXTENDS RouterEngine, FiniteSetTheorems, TLAPS

-----------------------------------------------------------------------------
\* The invariant

\* A walk that is about to attempt `at`, or waits for it, has not been there, and
\* has made one attempt for each hop behind it.
Underway(w) ==
  /\ w.at \in ToSet(w.chain) \ w.visited
  /\ ToSet(w.attempts) \subseteq w.visited
  /\ Len(w.attempts) = w.depth
  /\ w.depth < MaxAttempts

Sound(w) ==
  /\ w.pc \in {"ready", "waiting"} => Underway(w)
  /\ w.pc = "streaming" => w.at \in ToSet(w.chain)
  /\ w.pc = "new" => w = NewWalk
  /\ IsInjective(w.attempts)
  /\ ToSet(w.attempts) \subseteq ToSet(w.chain)
  /\ Len(w.attempts) <= MaxAttempts
  /\ Len(w.attempts) <= w.depth + 1
  /\ w.depth <= MaxDepth

IInv ==
  /\ walk \in [Requests -> Walks]
  /\ \A r \in Requests : Sound(walk[r])

-----------------------------------------------------------------------------
\* Sequences

\* The members of a sequence after one is appended.
LEMMA AppendedSet ==
  ASSUME NEW S, NEW s \in Seq(S), NEW x \in S
  PROVE  /\ Append(s, x) \in Seq(S)
         /\ ToSet(Append(s, x)) = ToSet(s) \union {x}
         /\ Len(Append(s, x)) = Len(s) + 1
<1>1. /\ Append(s, x) \in Seq(S)
      /\ Len(Append(s, x)) = Len(s) + 1
      /\ DOMAIN Append(s, x) = 1..(Len(s) + 1)
      /\ \A i \in 1..Len(s) : Append(s, x)[i] = s[i]
      /\ Append(s, x)[Len(s) + 1] = x
      /\ DOMAIN s = 1..Len(s) /\ Len(s) \in Nat
  OBVIOUS
<1>2. ToSet(Append(s, x)) = ToSet(s) \union {x}
  <2>1. ASSUME NEW y \in ToSet(Append(s, x))
        PROVE  y \in ToSet(s) \union {x}
    <3>1. PICK i \in 1..(Len(s) + 1) : y = Append(s, x)[i]
      BY <1>1, <2>1 DEF ToSet
    <3>2. CASE i = Len(s) + 1
      BY <1>1, <3>1, <3>2
    <3>3. CASE i \in 1..Len(s)
      BY <1>1, <3>1, <3>3 DEF ToSet
    <3>4. QED
      BY <1>1, <3>2, <3>3
  <2>2. ASSUME NEW y \in ToSet(s)
        PROVE  y \in ToSet(Append(s, x))
    <3>1. PICK i \in 1..Len(s) : y = s[i]
      BY <1>1, <2>2 DEF ToSet
    <3>2. i \in DOMAIN Append(s, x) /\ Append(s, x)[i] = y
      BY <1>1, <3>1
    <3>3. QED
      BY <3>2 DEF ToSet
  <2>3. x \in ToSet(Append(s, x))
    <3>1. Len(s) + 1 \in DOMAIN Append(s, x)
      BY <1>1
    <3>2. QED
      BY <1>1, <3>1 DEF ToSet
  <2>4. QED
    BY <2>1, <2>2, <2>3
<1>3. QED
  BY <1>1, <1>2

\* A sequence without repetition stays one when a new member is appended.
LEMMA AppendedInjective ==
  ASSUME NEW S, NEW s \in Seq(S), NEW x \in S, IsInjective(s), x \notin ToSet(s)
  PROVE  IsInjective(Append(s, x))
<1>1. /\ DOMAIN Append(s, x) = 1..(Len(s) + 1)
      /\ \A i \in 1..Len(s) : Append(s, x)[i] = s[i]
      /\ Append(s, x)[Len(s) + 1] = x
      /\ DOMAIN s = 1..Len(s) /\ Len(s) \in Nat
  OBVIOUS
<1>2. \A i \in 1..Len(s) : s[i] # x
  BY <1>1 DEF ToSet
<1>3. \A i, j \in 1..Len(s) : s[i] = s[j] => i = j
  BY <1>1 DEF IsInjective
<1>4. SUFFICES ASSUME NEW i \in 1..(Len(s) + 1), NEW j \in 1..(Len(s) + 1),
                      Append(s, x)[i] = Append(s, x)[j]
               PROVE  i = j
  BY <1>1 DEF IsInjective
<1>5. CASE i \in 1..Len(s) /\ j \in 1..Len(s)
  BY <1>1, <1>3, <1>4, <1>5
<1>6. CASE i \in 1..Len(s) /\ j = Len(s) + 1
  BY <1>1, <1>2, <1>4, <1>6
<1>7. CASE i = Len(s) + 1 /\ j \in 1..Len(s)
  BY <1>1, <1>2, <1>4, <1>7
<1>8. CASE i = Len(s) + 1 /\ j = Len(s) + 1
  BY <1>8
<1>9. QED
  BY <1>1, <1>5, <1>6, <1>7, <1>8

-----------------------------------------------------------------------------
\* The parts of a step

\* An attempt that is made, by a walk underway, keeps all that is said of attempts.
LEMMA AttemptedIsSound ==
  ASSUME NEW w \in Walks, Sound(w), w.pc \in {"ready", "waiting"}
  PROVE  LET v == Attempted(w)
         IN  /\ v \in Walks
             /\ IsInjective(v.attempts)
             /\ ToSet(v.attempts) = ToSet(w.attempts) \union {w.at}
             /\ ToSet(v.attempts) \subseteq ToSet(w.chain)
             /\ Len(v.attempts) = w.depth + 1
             /\ w.depth + 1 <= MaxAttempts
             /\ v = [w EXCEPT !.attempts = v.attempts]
<1> DEFINE v == Attempted(w)
<1>1. /\ w.attempts \in Seq(Deployments) /\ w.chain \in Seq(Deployments)
      /\ w.depth \in Nat /\ MaxAttempts \in Nat
  BY EngineAssumption DEF Walks
<1>2. /\ w.at \in ToSet(w.chain) \ w.visited
      /\ ToSet(w.attempts) \subseteq w.visited
      /\ Len(w.attempts) = w.depth /\ w.depth < MaxAttempts
      /\ IsInjective(w.attempts) /\ ToSet(w.attempts) \subseteq ToSet(w.chain)
  BY DEF Sound, Underway
<1>3. w.at \in Deployments
  BY <1>1, <1>2 DEF ToSet
<1>4. /\ Append(w.attempts, w.at) \in Seq(Deployments)
      /\ ToSet(Append(w.attempts, w.at)) = ToSet(w.attempts) \union {w.at}
      /\ Len(Append(w.attempts, w.at)) = Len(w.attempts) + 1
  BY <1>1, <1>3, AppendedSet
<1>5. IsInjective(Append(w.attempts, w.at))
  BY <1>1, <1>2, <1>3, AppendedInjective
<1>6. v = [w EXCEPT !.attempts = Append(w.attempts, w.at)] /\ v.attempts = Append(w.attempts, w.at)
  BY DEF Attempted, Walks
<1>7. v \in Walks
  BY <1>4, <1>6, Zenon DEF Walks
<1>8. QED
  BY <1>1, <1>2, <1>4, <1>5, <1>6, <1>7

\* Where a hop leads: into the chain, to a deployment not visited.
LEMMA HopIsNew ==
  ASSUME NEW chain \in Seq(Deployments), NEW node, NEW reason, NEW visited, NEW target,
         IsNextHop(target, chain, node, reason, visited)
  PROVE  target \in ToSet(chain) \ visited
<1>1. CASE \E i \in Answering(chain, node, reason) :
             target = Declared[i].to /\ Declared[i].to \notin visited
  BY <1>1 DEF Answering, DeclaredFrom, DeclaredWithin
<1>2. CASE target \notin visited /\ IsRanked(chain, node, reason, target)
  <2>1. PICK i \in DOMAIN chain : RanksNext(chain, i, target)
    BY <1>2 DEF IsRanked
  <2>2. PICK j \in (i + 1)..Len(chain) : target = chain[j]
    BY <2>1 DEF RanksNext
  <2>3. j \in DOMAIN chain
    OBVIOUS
  <2>. QED  BY <1>2, <2>2, <2>3 DEF ToSet
<1>. QED  BY <1>1, <1>2 DEF IsNextHop

\* advance() after an attempt leaves a sound walk: stopped, or underway elsewhere.
LEMMA AdvancedIsSound ==
  ASSUME NEW w \in Walks, Sound(w), w.pc \in {"ready", "waiting"},
         NEW reason \in Reasons, NEW ms \in Nat,
         NEW next \in Advanced(Attempted(w), reason, ms)
  PROVE  next \in Walks /\ Sound(next)
<1> DEFINE v == Attempted(w)
           c == Charged(v, ms)
<1>1. /\ v \in Walks /\ IsInjective(v.attempts)
      /\ ToSet(v.attempts) = ToSet(w.attempts) \union {w.at}
      /\ ToSet(v.attempts) \subseteq ToSet(w.chain)
      /\ Len(v.attempts) = w.depth + 1 /\ w.depth + 1 <= MaxAttempts
      /\ v = [w EXCEPT !.attempts = v.attempts]
  BY AttemptedIsSound
<1>2. /\ w.depth \in Nat /\ w.depth <= MaxDepth /\ MaxDepth \in Nat /\ MaxAttempts \in Nat
      /\ ToSet(w.attempts) \subseteq w.visited
      /\ w.at \in ToSet(w.chain) /\ w.chain \in Seq(Deployments)
      /\ w.visited \in SUBSET Deployments /\ w.elapsed \in Nat
  BY EngineAssumption DEF Walks, Sound, Underway
<1>3. w.at \in Deployments
  BY <1>2 DEF ToSet
<1>4. v.visited = w.visited /\ v.at = w.at /\ v.elapsed = w.elapsed /\ v.depth = w.depth /\ v.chain = w.chain
  BY <1>1 DEF Walks
<1>5. /\ c = [v EXCEPT !.visited = w.visited \union {w.at}, !.elapsed = w.elapsed + ms]
      /\ c.attempts = v.attempts /\ c.depth = w.depth /\ c.chain = w.chain /\ c.at = w.at
      /\ c.visited = w.visited \union {w.at}
  BY <1>1, <1>4 DEF Charged, Walks
<1>6. w.visited \union {w.at} \in SUBSET Deployments /\ w.elapsed + ms \in Nat
  BY <1>2, <1>3
<1>7. c \in Walks
  BY <1>1, <1>5, <1>6, Zenon DEF Walks
<1>8. ToSet(c.attempts) \subseteq c.visited
  BY <1>1, <1>2, <1>5
<1>9. CASE next = Stopped(c)
  <2>1. /\ next = [c EXCEPT !.pc = "exhausted"] /\ next.pc = "exhausted"
        /\ next.attempts = v.attempts /\ next.depth = w.depth /\ next.chain = w.chain
    BY <1>5, <1>7, <1>9 DEF Stopped, Walks
  <2>2. next \in Walks
    BY <1>7, <2>1, Zenon DEF Walks, DonePCs
  <2>3. QED
    BY <1>1, <1>2, <2>1, <2>2 DEF Sound
<1>10. ASSUME NEW target \in Deployments, ~Refuses(c, target), Len(v.attempts) < MaxAttempts,
              IsNextHop(target, v.chain, v.at, reason, c.visited),
              next = Hopped(c, target)
       PROVE  next \in Walks /\ Sound(next)
  <2>1. target \in ToSet(w.chain) \ c.visited
    BY <1>2, <1>4, <1>10, HopIsNew
  <2>2. w.depth < MaxDepth
    BY <1>2, <1>5, <1>10 DEF Refuses
  <2>3. /\ next = [c EXCEPT !.pc = "ready", !.at = target, !.depth = w.depth + 1]
        /\ next.pc = "ready" /\ next.at = target /\ next.depth = w.depth + 1
        /\ next.visited = c.visited /\ next.attempts = v.attempts /\ next.chain = w.chain
    BY <1>5, <1>7, <1>10 DEF Hopped, Walks
  <2>4. w.depth + 1 \in Nat /\ target \in Deployments \union {NoDeployment}
    BY <1>2, <1>10
  <2>5. next \in Walks
    BY <1>7, <2>3, <2>4, Zenon DEF Walks
  <2>6. Underway(next)
    BY <1>1, <1>2, <1>5, <1>8, <1>10, <2>1, <2>3 DEF Underway
  <2>7. QED
    BY <1>1, <1>2, <2>2, <2>3, <2>5, <2>6 DEF Sound
<1>11. QED
  <2>1. \/ next = Stopped(c)
        \/ /\ Len(v.attempts) < MaxAttempts
           /\ \E target \in Deployments :
                /\ IsNextHop(target, v.chain, v.at, reason, c.visited)
                /\ ~Refuses(c, target)
                /\ next = Hopped(c, target)
    <3>1. Len(v.attempts) \in Nat /\ MaxAttempts \in Nat
      BY <1>1, <1>2
    <3>2. QED
      BY <3>1 DEF Advanced
  <2>2. QED
    BY <1>9, <1>10, <2>1

\* What the planner returns is a chain without repetition of deployments.
LEMMA ChainType ==
  ASSUME NEW S \in SUBSET Deployments, NEW chain \in SetToAllKPermutations(S)
  PROVE  chain \in Seq(Deployments)
<1>1. PICK s \in SUBSET S : chain \in [1..Cardinality(s) -> s]
  BY DEF SetToAllKPermutations, SetToSeqs
<1>2. IsFiniteSet(s)
  BY <1>1, EngineAssumption, FS_Subset
<1>3. Cardinality(s) \in Nat
  BY <1>2, FS_CardinalityType
<1>4. QED
  BY <1>1, <1>3

\* A new request that is planned is sound, whether or not there was a candidate.
LEMMA PlannedIsSound ==
  ASSUME NEW chain \in Seq(Deployments), NEW stream \in BOOLEAN
  PROVE  Planned(NewWalk, chain, stream) \in Walks /\ Sound(Planned(NewWalk, chain, stream))
<1> DEFINE w == Planned(NewWalk, chain, stream)
<1>1. MaxAttempts \in Nat \ {0} /\ MaxDepth \in Nat
  BY EngineAssumption
<1>2. <<>> \in Seq(Deployments) /\ Len(<<>>) = 0 /\ DOMAIN <<>> = {} /\ IsInjective(<<>>) /\ ToSet(<<>>) = {}
  BY DEF IsInjective, ToSet
<1>3. NewWalk \in Walks
  BY <1>2 DEF NewWalk, Walks
<1>4. CASE chain = <<>>
  <2>1. w = [NewWalk EXCEPT !.pc = "unroutable"]
    BY <1>4 DEF Planned
  <2>2. w \in Walks
    BY <1>3, <2>1, Zenon DEF Walks, DonePCs
  <2>3. w.pc = "unroutable" /\ w.attempts = <<>> /\ w.depth = 0
    BY <2>1 DEF NewWalk
  <2>4. QED
    BY <1>1, <1>2, <2>2, <2>3 DEF Sound
<1>5. CASE chain # <<>>
  <2>1. chain[1] \in ToSet(chain) /\ chain[1] \in Deployments
    <3>1. 1 \in DOMAIN chain
      BY <1>5
    <3>2. QED
      BY <3>1 DEF ToSet
  <2>2. w = [NewWalk EXCEPT !.pc = "ready", !.stream = stream, !.chain = chain, !.at = chain[1]]
    BY <1>5 DEF Planned
  <2>3. w \in Walks
    BY <1>3, <2>1, <2>2, Zenon DEF Walks
  <2>4. /\ w.pc = "ready" /\ w.attempts = <<>> /\ w.depth = 0 /\ w.visited = {}
        /\ w.chain = chain /\ w.at = chain[1]
    BY <2>2 DEF NewWalk
  <2>5. QED
    BY <1>1, <1>2, <2>1, <2>3, <2>4 DEF Sound, Underway
<1>6. QED
  BY <1>4, <1>5

\* A walk that ends where it is, or goes from ready to waiting, stays sound.
LEMMA MovedIsSound ==
  ASSUME NEW w \in Walks, Sound(w), NEW pc,
         \/ pc \in DonePCs
         \/ pc = "waiting" /\ w.pc = "ready"
  PROVE  [w EXCEPT !.pc = pc] \in Walks /\ Sound([w EXCEPT !.pc = pc])
<1> DEFINE v == [w EXCEPT !.pc = pc]
<1>1. v.pc = pc /\ v.at = w.at /\ v.chain = w.chain /\ v.visited = w.visited
      /\ v.attempts = w.attempts /\ v.depth = w.depth
  BY DEF Walks
<1>2. v \in Walks
  BY Zenon DEF Walks, DonePCs, InFlightPCs
<1>3. pc \notin {"new", "ready", "streaming"}
  BY DEF DonePCs
<1>4. pc = "waiting" => Underway(v)
  BY <1>1 DEF Sound, Underway, DonePCs
<1>5. QED
  BY <1>1, <1>2, <1>3, <1>4 DEF Sound

\* So does one that has its attempt counted and is then served, fails or streams.
LEMMA AnsweredIsSound ==
  ASSUME NEW w \in Walks, Sound(w), w.pc = "waiting",
         NEW pc \in {"served", "failed", "streaming"}
  PROVE  [Attempted(w) EXCEPT !.pc = pc] \in Walks /\ Sound([Attempted(w) EXCEPT !.pc = pc])
<1> DEFINE v == Attempted(w)
           u == [v EXCEPT !.pc = pc]
<1>1. /\ v \in Walks /\ IsInjective(v.attempts)
      /\ ToSet(v.attempts) \subseteq ToSet(w.chain)
      /\ Len(v.attempts) = w.depth + 1 /\ w.depth + 1 <= MaxAttempts
      /\ v = [w EXCEPT !.attempts = v.attempts]
  BY AttemptedIsSound
<1>2. u.pc = pc /\ u.attempts = v.attempts /\ u.depth = w.depth /\ u.chain = w.chain /\ u.at = w.at
  BY <1>1 DEF Walks
<1>3. u \in Walks
  BY <1>1, Zenon DEF Walks, InFlightPCs, DonePCs
<1>4. w.depth <= MaxDepth /\ w.at \in ToSet(w.chain)
  BY DEF Sound, Underway
<1>5. QED
  BY <1>1, <1>2, <1>3, <1>4 DEF Sound

-----------------------------------------------------------------------------
\* The invariant is one

\* A step that replaces the walk of one request by a sound one keeps the invariant.
LEMMA ReplacedIsSound ==
  ASSUME IInv, NEW r \in Requests, NEW w \in Walks, Sound(w),
         walk' = [walk EXCEPT ![r] = w]
  PROVE  IInv'
<1>1. walk' \in [Requests -> Walks]
  BY Zenon DEF IInv
<1>2. ASSUME NEW q \in Requests
      PROVE  Sound(walk[q])'
  <2>1. walk'[q] = IF q = r THEN w ELSE walk[q]
    BY DEF IInv
  <2>2. Sound(walk'[q])
    BY <2>1 DEF IInv
  <2>3. QED
    BY <2>2 DEF Sound, Underway
<1>3. QED
  BY <1>1, <1>2 DEF IInv

\* Initially no walk has begun.
LEMMA Initially == Init => IInv
<1>1. SUFFICES ASSUME Init PROVE IInv
  OBVIOUS
<1>2. <<>> \in Seq(Deployments) /\ Len(<<>>) = 0 /\ IsInjective(<<>>) /\ ToSet(<<>>) = {}
  BY DEF IsInjective, ToSet
<1>3. NewWalk \in Walks
  BY <1>2 DEF NewWalk, Walks
<1>4. Sound(NewWalk)
  <2>1. MaxAttempts \in Nat /\ MaxDepth \in Nat
    BY EngineAssumption
  <2>2. NewWalk.pc = "new" /\ NewWalk.attempts = <<>> /\ NewWalk.depth = 0 /\ NewWalk.chain = <<>>
    BY DEF NewWalk
  <2>3. QED
    BY <1>2, <2>1, <2>2 DEF Sound
<1>5. QED
  BY <1>1, <1>3, <1>4 DEF Init, IInv

\* A step of a request keeps the invariant: one case per action.
LEMMA StepKeeps ==
  ASSUME IInv, NEW r \in Requests, Step(r)
  PROVE  IInv'
<1> DEFINE w == walk[r]
<1>1. w \in Walks /\ Sound(w)
  BY DEF IInv
<1>2. CASE Start(r)
  <2>1. PICK asked \in SUBSET Deployments, stream \in BOOLEAN :
          \E chain \in SetToAllKPermutations({d \in asked : Admits(breakers[d])}) :
            walk' = [walk EXCEPT ![r] = Planned(w, chain, stream)]
    BY <1>2 DEF Start
  <2>2. PICK chain \in SetToAllKPermutations({d \in asked : Admits(breakers[d])}) :
          walk' = [walk EXCEPT ![r] = Planned(w, chain, stream)]
    BY <2>1
  <2>3. chain \in Seq(Deployments)
    BY ChainType
  <2>4. w = NewWalk
    BY <1>1, <1>2 DEF Start, Sound
  <2>5. QED
    BY <2>2, <2>3, <2>4, PlannedIsSound, ReplacedIsSound
<1>3. CASE Enter(r)
  <2>1. walk' = [walk EXCEPT ![r] = [w EXCEPT !.pc = "waiting"]] /\ w.pc = "ready"
    BY <1>3 DEF Enter, IInv
  <2>2. QED
    BY <1>1, <2>1, MovedIsSound, ReplacedIsSound
<1>4. CASE EnterUnbuilt(r)
  <2>1. PICK next \in Advanced(Attempted(w), ProviderDown, 0) : walk' = [walk EXCEPT ![r] = next]
    BY <1>4 DEF EnterUnbuilt
  <2>2. ProviderDown \in Reasons /\ 0 \in Nat /\ w.pc \in {"ready", "waiting"}
    BY <1>4, EngineAssumption DEF EnterUnbuilt
  <2>3. QED
    BY <1>1, <2>1, <2>2, AdvancedIsSound, ReplacedIsSound
<1>5. CASE FailRetryable(r)
  <2>1. PICK reason \in Reasons, ms \in Latencies :
          \E next \in Advanced(Attempted(w), reason, ms) : walk' = [walk EXCEPT ![r] = next]
    BY <1>5 DEF FailRetryable
  <2>2. PICK next \in Advanced(Attempted(w), reason, ms) : walk' = [walk EXCEPT ![r] = next]
    BY <2>1
  <2>3. ms \in Nat /\ w.pc \in {"ready", "waiting"}
    BY <1>5, EngineAssumption DEF FailRetryable
  <2>4. QED
    BY <1>1, <2>2, <2>3, AdvancedIsSound, ReplacedIsSound
<1>6. CASE Serve(r)
  BY <1>1, <1>6, AnsweredIsSound, ReplacedIsSound DEF Serve
<1>7. CASE FirstByte(r)
  BY <1>1, <1>7, AnsweredIsSound, ReplacedIsSound DEF FirstByte
<1>8. CASE FailFatal(r)
  BY <1>1, <1>8, AnsweredIsSound, ReplacedIsSound DEF FailFatal
<1>9. CASE EndStream(r) \/ BreakStream(r) \/ Abandon(r)
  <2>1. PICK pc \in DonePCs : walk' = [walk EXCEPT ![r] = [w EXCEPT !.pc = pc]]
    BY <1>9 DEF EndStream, BreakStream, Abandon, DonePCs, IInv
  <2>2. QED
    BY <1>1, <2>1, MovedIsSound, ReplacedIsSound
<1>10. QED
  BY <1>2, <1>3, <1>4, <1>5, <1>6, <1>7, <1>8, <1>9 DEF Step

\* Every step keeps the invariant; those of the environment do not touch a walk.
LEMMA NextKeeps == IInv /\ [Next]_vars => IInv'
<1>1. SUFFICES ASSUME IInv, [Next]_vars PROVE IInv'
  OBVIOUS
<1>2. CASE UNCHANGED walk
  BY <1>1, <1>2 DEF IInv, Sound, Underway
<1>3. CASE \E r \in Requests : Step(r)
  BY <1>1, <1>3, StepKeeps
<1>4. QED
  BY <1>1, <1>2, <1>3 DEF Next, Tick, Hold, Release, vars

\* Every reachable state satisfies the invariant.
LEMMA Invariant == Spec => []IInv
<1>1. Init => IInv
  BY Initially
<1>2. IInv /\ [Next]_vars => IInv'
  BY NextKeeps
<1>3. QED
  BY <1>1, <1>2, PTL DEF Spec

-----------------------------------------------------------------------------
\* The theorems

\* "Loops are impossible" (router/fallback.py): whatever graph is declared and however
\* attempts fail, no request attempts a deployment twice.
THEOREM NoLoops == Spec => []NoDeploymentTriedTwice
<1>1. IInv => NoDeploymentTriedTwice
  BY DEF IInv, Sound, NoDeploymentTriedTwice
<1>2. QED
  BY <1>1, Invariant, PTL

\* The attempts of a request stay within max_attempts and its hops within max_depth
\* (router/engine.py), and every attempt but the first stands for a hop.
THEOREM AttemptsBounded == Spec => []AttemptsAreBounded
<1>1. IInv => AttemptsAreBounded
  BY DEF IInv, Sound, AttemptsAreBounded
<1>2. QED
  BY <1>1, Invariant, PTL

\* A hop leads to a deployment the planner ranked (FallbackGraph.restricted_to): no
\* declared edge leads a request out of its plan.
THEOREM NoDetours == Spec => []AttemptsWerePlanned
<1>1. IInv => AttemptsWerePlanned
  BY DEF IInv, Sound, AttemptsWerePlanned
<1>2. QED
  BY <1>1, Invariant, PTL

\* A stream ends where its first byte came from (ADR 0003).
THEOREM StreamsAreCommitted == Spec => FirstByteCommits
<1> DEFINE Commits == \A r \in Requests : walk[r].pc = "streaming" =>
                        /\ walk'[r].pc \in {"streaming", "served", "failed", "abandoned"}
                        /\ walk'[r].at = walk[r].at
                        /\ walk'[r].attempts = walk[r].attempts
<1>1. ASSUME IInv, Next, NEW r \in Requests, walk[r].pc = "streaming"
      PROVE  /\ walk'[r].pc \in {"streaming", "served", "failed", "abandoned"}
             /\ walk'[r].at = walk[r].at
             /\ walk'[r].attempts = walk[r].attempts
  <2>1. walk \in [Requests -> Walks]
    BY <1>1 DEF IInv
  <2>2. CASE UNCHANGED walk
    BY <1>1, <2>2
  <2>3. ASSUME NEW q \in Requests, Step(q), q # r
        PROVE  walk'[r] = walk[r]
    BY <2>1, <2>3 DEF Step, Start, Enter, EnterUnbuilt, Serve, FirstByte, EndStream, BreakStream,
                      FailRetryable, FailFatal, Abandon
  <2>4. ASSUME Step(r)
        PROVE  \E pc \in {"served", "failed", "abandoned"} : walk' = [walk EXCEPT ![r].pc = pc]
    BY <1>1, <2>4 DEF Step, Start, Enter, EnterUnbuilt, Serve, FirstByte, EndStream, BreakStream,
                      FailRetryable, FailFatal, Abandon
  <2>5. CASE Step(r)
    <3>1. PICK pc \in {"served", "failed", "abandoned"} : walk' = [walk EXCEPT ![r].pc = pc]
      BY <2>4, <2>5
    <3>2. walk'[r] = [walk[r] EXCEPT !.pc = pc] /\ walk[r] \in Walks
      BY <2>1, <3>1
    <3>3. QED
      BY <3>2 DEF Walks
  <2>6. QED
    BY <1>1, <2>2, <2>3, <2>5 DEF Next, Tick, Hold, Release
<1>2. IInv /\ [Next]_vars => [Commits]_vars
  BY <1>1 DEF vars
<1>3. QED
  BY <1>2, Invariant, PTL DEF Spec, FirstByteCommits

-----------------------------------------------------------------------------
\* The engine seen from one deployment

Kept == breakers = [d \in Deployments |-> breakers[d]]

\* The breaker a deployment has in the engine is the one CircuitBreaker describes.
LEMMA SameBreaker ==
  ASSUME NEW d
  PROVE  /\ Breaker(d)!FreshBreaker = FreshBreaker
         /\ \A b : /\ Breaker(d)!AfterAdmits(b) = AfterAdmits(b)
                   /\ Breaker(d)!Admits(b) = Admits(b)
                   /\ Breaker(d)!Entered(b) = Entered(b)
                   /\ Breaker(d)!Exited(b) = Exited(b)
                   /\ Breaker(d)!RecordSuccess(b) = RecordSuccess(b)
                   /\ Breaker(d)!RecordFailure(b) = RecordFailure(b)
                   /\ Breaker(d)!Closed(b) = Closed(b)
                   /\ Breaker(d)!ForcedOpen(b, TRUE) = ForcedOpen(b, TRUE)
                   /\ Breaker(d)!Aged(b) = Aged(b)
<1>1. Breaker(d)!FreshBreaker = FreshBreaker
  BY DEF Breaker!FreshBreaker, FreshBreaker, Breaker!CLOSED, CLOSED, Breaker!Unmeasured, Unmeasured
<1>. USE DEF Breaker!CLOSED, CLOSED, Breaker!OPEN, OPEN, Breaker!HALF_OPEN, HALF_OPEN,
             Breaker!Saturate, Saturate, Breaker!Less, Less,
             Breaker!Saturated, Saturated, Breaker!CoolingOff, CoolingOff
<1>2. \A b : Breaker(d)!AfterAdmits(b) = AfterAdmits(b)
  BY DEF Breaker!AfterAdmits, AfterAdmits
<1>3. \A b : Breaker(d)!Admits(b) = Admits(b)
  BY DEF Breaker!Admits, Admits
<1>4. \A b : Breaker(d)!Entered(b) = Entered(b) /\ Breaker(d)!Exited(b) = Exited(b)
  BY DEF Breaker!Entered, Entered, Breaker!Exited, Exited
<1>5. \A b : Breaker(d)!Closed(b) = Closed(b) /\ Breaker(d)!Opened(b) = Opened(b)
  BY DEF Breaker!Closed, Closed, Breaker!Opened, Opened
<1>6. \A b : /\ Breaker(d)!ForcedOpen(b, TRUE) = ForcedOpen(b, TRUE)
            /\ Breaker(d)!Aged(b) = Aged(b)
  BY <1>5 DEF Breaker!ForcedOpen, ForcedOpen, Breaker!Aged, Aged
<1>7. \A m, n : Breaker(d)!Blend(m, n) = Blend(m, n)
  BY DEF Breaker!Blend, Blend, Breaker!Unmeasured, Unmeasured
<1>8. \A b : Breaker(d)!RecordSuccess(b) = RecordSuccess(b)
  BY Zenon DEF Breaker!RecordSuccess, RecordSuccess, Breaker!Closed, Closed,
               Breaker!Blend, Blend, Breaker!Unmeasured, Unmeasured
<1>9. \A b : Breaker(d)!RecordFailure(b) = RecordFailure(b)
  BY <1>5, <1>7 DEF Breaker!RecordFailure, RecordFailure, Breaker!TrippedByStreak, TrippedByStreak,
                    Breaker!TrippedByRate, TrippedByRate
<1>. QED  BY <1>1, <1>2, <1>3, <1>4, <1>5, <1>6, <1>8, <1>9

\* advance() stops the walk where it is or sends it on, its last place visited.
LEMMA AdvancedShape ==
  ASSUME NEW w \in Walks, NEW reason, NEW ms \in Nat,
         NEW next \in Advanced(Attempted(w), reason, ms)
  PROVE  /\ next.pc \in {"exhausted", "ready"} /\ next.chain = w.chain
         /\ next.visited = w.visited \union {w.at}
<1>. DEFINE v == Attempted(w)
            c == Charged(v, ms)
<1>1. v.at = w.at /\ v.chain = w.chain /\ v.visited = w.visited
      /\ v = [w EXCEPT !.attempts = Append(w.attempts, w.at)]
  BY DEF Attempted, Walks
<1>2. /\ c.chain = w.chain /\ c.visited = w.visited \union {w.at}
      /\ DOMAIN c = DOMAIN w
  BY <1>1 DEF Charged, Walks
<1>3. next = Stopped(c) \/ \E target \in Deployments : next = Hopped(c, target)
  BY DEF Advanced
<1>. HIDE DEF c
<1>4. ASSUME next = Stopped(c)
      PROVE  /\ next.pc = "exhausted" /\ next.chain = c.chain /\ next.visited = c.visited
  BY <1>2, <1>4 DEF Stopped, Walks
<1>5. ASSUME NEW target, next = Hopped(c, target)
      PROVE  /\ next.pc = "ready" /\ next.chain = c.chain /\ next.visited = c.visited
  BY <1>2, <1>5 DEF Hopped, Walks
<1>. QED  BY <1>2, <1>3, <1>4, <1>5

\* A walk that goes on or ends elsewhere leaves the deployment alone, or does not
\* reach it any more.
LEMMA Elsewhere ==
  ASSUME IInv, Kept, NEW r \in Requests, NEW v, walk' = [walk EXCEPT ![r] = v],
         NEW d \in Deployments, walk[r].at # d,
         NEW b, breakers' = [breakers EXCEPT ![walk[r].at] = b],
         PhaseOf(v, d) \in {PhaseOf(walk[r], d), "idle"}
  PROVE  [Breaker(d)!Next]_(Breaker(d)!vars)
<1>1. Phases(d)' = [Phases(d) EXCEPT ![r] = PhaseOf(v, d)] /\ Phases(d)[r] = PhaseOf(walk[r], d)
  <2>1. Phases(d)' = [q \in Requests |-> PhaseOf(walk'[q], d)]
    BY DEF Phases, PhaseOf
  <2>2. Phases(d)' = [Phases(d) EXCEPT ![r] = PhaseOf(v, d)]
    <3>1. \A q \in Requests : PhaseOf(walk'[q], d) = IF q = r THEN PhaseOf(v, d) ELSE PhaseOf(walk[q], d)
      BY DEF IInv
    <3>. QED  BY <2>1, <3>1 DEF Phases
  <2>. QED  BY <2>2 DEF Phases
<1>2. breakers'[d] = breakers[d]
  BY DEF Kept
<1>3. CASE PhaseOf(v, d) = PhaseOf(walk[r], d)
  <2>1. Phases(d)' = Phases(d)
    BY <1>1, <1>3 DEF Phases
  <2>. QED  BY <1>2, <2>1 DEF Breaker!vars
<1>4. CASE PhaseOf(v, d) = "idle" /\ PhaseOf(walk[r], d) # "idle"
  <2>1. Phases(d)[r] = "planned"
    BY <1>1, <1>4 DEF PhaseOf
  <2>2. Breaker(d)!NotReached(r)
    BY <1>1, <1>2, <1>4, <2>1 DEF Breaker!NotReached
  <2>. QED  BY <2>2 DEF Breaker!Next, Breaker!Request
<1>. QED  BY <1>3, <1>4

\* A walk that ends is nowhere any more.
LEMMA Ended ==
  ASSUME NEW v, v.pc \in DonePCs, NEW d
  PROVE  PhaseOf(v, d) = "idle"
BY DEF PhaseOf, DonePCs

\* A walk that goes on after a failure is not where it failed; elsewhere it is as
\* near as it was, or has ended.
LEMMA Onward ==
  ASSUME NEW w \in Walks, w.pc \in {"ready", "waiting"}, NEW reason, NEW ms \in Nat,
         NEW next \in Advanced(Attempted(w), reason, ms), NEW d
  PROVE  /\ w.at = d => PhaseOf(next, d) = "idle"
         /\ w.at # d => PhaseOf(next, d) \in {PhaseOf(w, d), "idle"}
BY AdvancedShape DEF PhaseOf

\* What a walk that is about to attempt a deployment, or attempts it, is for it.
LEMMA Present ==
  ASSUME NEW w, Sound(w), NEW d, w.at = d
  PROVE  /\ w.pc = "ready" => PhaseOf(w, d) = "planned"
         /\ w.pc = "waiting" => PhaseOf(w, d) = "running"
         /\ w.pc = "streaming" => PhaseOf(w, d) = "streaming"
BY DEF PhaseOf, Sound, Underway

\* Planning asks the breaker, and may leave the request on its way.
LEMMA StartSeen ==
  ASSUME IInv, NEW r \in Requests, NEW d \in Deployments, Start(r)
  PROVE  [Breaker(d)!Next]_(Breaker(d)!vars)
<1>. DEFINE w == walk[r]
<1>1. w = NewWalk
  BY DEF Start, IInv, Sound
<1>2. PICK asked \in SUBSET Deployments, stream \in BOOLEAN :
        /\ breakers' = [x \in Deployments |->
                          IF x \in asked THEN AfterAdmits(breakers[x]) ELSE breakers[x]]
        /\ \E chain \in SetToAllKPermutations({x \in asked : Admits(breakers[x])}) :
             walk' = [walk EXCEPT ![r] = Planned(w, chain, stream)]
  BY DEF Start
<1>3. PICK chain \in SetToAllKPermutations({x \in asked : Admits(breakers[x])}) :
        walk' = [walk EXCEPT ![r] = Planned(w, chain, stream)]
  BY <1>2
<1>. DEFINE v == Planned(w, chain, stream)
<1>4. ToSet(chain) \subseteq {x \in asked : Admits(breakers[x])}
  <2>1. PICK s \in SUBSET {x \in asked : Admits(breakers[x])} : chain \in [1..Cardinality(s) -> s]
    BY DEF SetToAllKPermutations, SetToSeqs
  <2>. QED  BY <2>1 DEF ToSet
<1>5. PhaseOf(v, d) = IF d \in ToSet(chain) THEN "planned" ELSE "idle"
  <2>1. chain = <<>> => ToSet(chain) = {}
    BY DEF ToSet
  <2>2. CASE chain = <<>>
    <3>1. v.pc = "unroutable"
      BY <1>1, <2>2 DEF Planned, NewWalk
    <3>. QED  BY <2>1, <2>2, <3>1 DEF PhaseOf
  <2>3. CASE chain # <<>>
    <3>1. v.pc = "ready" /\ v.chain = chain /\ v.visited = {}
      BY <1>1, <2>3 DEF Planned, NewWalk
    <3>. QED  BY <3>1 DEF PhaseOf
  <2>. QED  BY <2>2, <2>3
<1>6. PhaseOf(w, d) = "idle"
  BY <1>1 DEF PhaseOf, NewWalk
<1>. HIDE DEF v
<1>7. /\ Phases(d)' = [Phases(d) EXCEPT ![r] = PhaseOf(v, d)]
      /\ Phases(d)[r] = "idle"
  <2>1. \A q \in Requests : PhaseOf(walk'[q], d) = IF q = r THEN PhaseOf(v, d) ELSE PhaseOf(walk[q], d)
    BY <1>3 DEF v, IInv
  <2>2. Phases(d)' = [q \in Requests |-> PhaseOf(walk'[q], d)]
    BY DEF Phases, PhaseOf
  <2>. QED  BY <1>6, <2>1, <2>2 DEF Phases
<1>8. breakers'[d] = IF d \in asked THEN AfterAdmits(breakers[d]) ELSE breakers[d]
  BY <1>2
<1>9. CASE d \notin asked
  <2>1. Phases(d)' = Phases(d)
    BY <1>4, <1>5, <1>7, <1>9 DEF Phases
  <2>. QED  BY <1>8, <1>9, <2>1 DEF Breaker!vars
<1>10. CASE d \in asked
  <2>1. \/ Phases(d)' = Phases(d)
        \/ Admits(breakers[d]) /\ Phases(d)' = [Phases(d) EXCEPT ![r] = "planned"]
    BY <1>4, <1>5, <1>7 DEF Phases
  <2>2. Breaker(d)!Plan(r)
    BY <1>7, <1>8, <1>10, <2>1, SameBreaker, Zenon DEF Breaker!Plan
  <2>. QED  BY <2>2 DEF Breaker!Next, Breaker!Request
<1>. QED  BY <1>9, <1>10

\* Every step of a request is, for each deployment, a step of its breaker or none.
LEMMA StepSeen ==
  ASSUME IInv, Kept, NEW r \in Requests, NEW d \in Deployments, Step(r)
  PROVE  [Breaker(d)!Next]_(Breaker(d)!vars)
<1>. DEFINE w == walk[r]
            b == breakers[w.at]
<1>1. w \in Walks /\ Sound(w) /\ walk \in [Requests -> Walks]
  BY DEF IInv
<1>2. ASSUME Breaker(d)!Request(r) PROVE [Breaker(d)!Next]_(Breaker(d)!vars)
  BY <1>2 DEF Breaker!Next
<1>13. Phases(d)[r] = PhaseOf(w, d)
  BY DEF Phases
<1>14. Phases(d)' = [q \in Requests |-> PhaseOf(walk'[q], d)]
  BY DEF Phases, PhaseOf
<1>15. walk = [q \in Requests |-> walk[q]]
  BY DEF IInv
<1>3. CASE Start(r)
  BY <1>3, StartSeen
<1>4. CASE Enter(r)
  <2>. DEFINE v == [w EXCEPT !.pc = "waiting"]
  <2>1. /\ w.pc = "ready" /\ breakers' = [breakers EXCEPT ![w.at] = Entered(b)]
        /\ walk' = [walk EXCEPT ![r] = v]
    BY <1>1, <1>4 DEF Enter
  <2>2. v.at = w.at /\ v.pc = "waiting" /\ v.chain = w.chain /\ v.visited = w.visited
    BY <1>1 DEF Walks
  <2>. HIDE DEF v
  <2>6. breakers'[d] = IF w.at = d THEN Entered(b) ELSE breakers[d]
    BY <2>1 DEF Kept
  <2>7. Phases(d)' = [Phases(d) EXCEPT ![r] = PhaseOf(v, d)]
    <3>1. \A q \in Requests : PhaseOf(walk'[q], d) = IF q = r THEN PhaseOf(v, d) ELSE PhaseOf(walk[q], d)
      BY <1>15, <2>1
    <3>. QED  BY <1>14, <3>1 DEF Phases
  <2>3. CASE w.at = d
    <3>1. PhaseOf(v, d) = "running" /\ PhaseOf(w, d) = "planned"
      BY <1>1, <2>1, <2>2, <2>3, Present DEF PhaseOf
    <3>2. breakers'[d] = Entered(breakers[d])
      BY <2>3, <2>6
    <3>3. Breaker(d)!Begin(r)
      BY <1>13, <2>7, <3>1, <3>2, SameBreaker DEF Breaker!Begin
    <3>. QED  BY <1>2, <3>3 DEF Breaker!Request
  <2>4. CASE w.at # d
    <3>1. PhaseOf(v, d) = PhaseOf(w, d)
      BY <2>1, <2>2, <2>4 DEF PhaseOf
    <3>. QED  BY <2>1, <2>4, <3>1, Elsewhere
  <2>. QED  BY <2>3, <2>4
<1>5. CASE EnterUnbuilt(r)
  <2>1. PICK next \in Advanced(Attempted(w), ProviderDown, 0) :
          /\ w.pc = "ready"
          /\ breakers' = [breakers EXCEPT ![w.at] = RecordFailure(Exited(Entered(b)))]
          /\ walk' = [walk EXCEPT ![r] = next]
    BY <1>1, <1>5 DEF EnterUnbuilt
  <2>6. breakers'[d] = IF w.at = d THEN RecordFailure(Exited(Entered(b))) ELSE breakers[d]
    BY <2>1 DEF Kept
  <2>7. Phases(d)' = [Phases(d) EXCEPT ![r] = PhaseOf(next, d)]
    <3>1. \A q \in Requests : PhaseOf(walk'[q], d) = IF q = r THEN PhaseOf(next, d) ELSE PhaseOf(walk[q], d)
      BY <1>15, <2>1
    <3>. QED  BY <1>14, <3>1 DEF Phases
  <2>2. CASE w.at = d
    <3>1. PhaseOf(next, d) = "idle" /\ PhaseOf(w, d) = "planned"
      BY <1>1, <2>1, <2>2, Onward, Present
    <3>2. breakers'[d] = RecordFailure(Exited(Entered(breakers[d])))
      BY <2>2, <2>6
    <3>3. Breaker(d)!Unbuilt(r)
      BY <1>13, <2>7, <3>1, <3>2, SameBreaker DEF Breaker!Unbuilt
    <3>. QED  BY <1>2, <3>3 DEF Breaker!Request
  <2>3. CASE w.at # d
    <3>1. PhaseOf(next, d) \in {PhaseOf(w, d), "idle"}
      BY <1>1, <2>1, <2>3, Onward
    <3>. QED  BY <2>1, <2>3, <3>1, Elsewhere
  <2>. QED  BY <2>2, <2>3
<1>6. CASE FailRetryable(r)
  <2>4. PICK reason \in Reasons, ms \in Latencies :
          \E next \in Advanced(Attempted(w), reason, ms) : walk' = [walk EXCEPT ![r] = next]
    BY <1>6 DEF FailRetryable
  <2>5. ms \in Nat
    BY EngineAssumption
  <2>1. PICK next \in Advanced(Attempted(w), reason, ms) :
          /\ w.pc = "waiting"
          /\ breakers' = [breakers EXCEPT ![w.at] = RecordFailure(Exited(b))]
          /\ walk' = [walk EXCEPT ![r] = next]
    BY <1>1, <1>6, <2>4 DEF FailRetryable, LeaveDeployment
  <2>6. breakers'[d] = IF w.at = d THEN RecordFailure(Exited(b)) ELSE breakers[d]
    BY <2>1 DEF Kept
  <2>7. Phases(d)' = [Phases(d) EXCEPT ![r] = PhaseOf(next, d)]
    <3>1. \A q \in Requests : PhaseOf(walk'[q], d) = IF q = r THEN PhaseOf(next, d) ELSE PhaseOf(walk[q], d)
      BY <1>15, <2>1
    <3>. QED  BY <1>14, <3>1 DEF Phases
  <2>2. CASE w.at = d
    <3>1. PhaseOf(next, d) = "idle" /\ PhaseOf(w, d) = "running"
      BY <1>1, <2>1, <2>2, Onward, Present, <2>5
    <3>2. breakers'[d] = RecordFailure(Exited(breakers[d]))
      BY <2>2, <2>6
    <3>3. Breaker(d)!Fail(r)
      BY <1>13, <2>7, <3>1, <3>2, SameBreaker DEF Breaker!Fail
    <3>. QED  BY <1>2, <3>3 DEF Breaker!Request
  <2>3. CASE w.at # d
    <3>1. PhaseOf(next, d) \in {PhaseOf(w, d), "idle"}
      BY <1>1, <2>1, <2>3, Onward, <2>5
    <3>. QED  BY <2>1, <2>3, <3>1, Elsewhere
  <2>. QED  BY <2>2, <2>3
<1>7. CASE Serve(r)
  <2>1. PICK v : /\ v.pc \in DonePCs /\ w.pc = "waiting"
                 /\ breakers' = [breakers EXCEPT ![w.at] = RecordSuccess(Exited(b))]
                 /\ walk' = [walk EXCEPT ![r] = v]
    BY <1>1, <1>7 DEF Serve, LeaveDeployment, DonePCs, InFlightPCs, Attempted, Walks
  <2>6. breakers'[d] = IF w.at = d THEN RecordSuccess(Exited(b)) ELSE breakers[d]
    BY <2>1 DEF Kept
  <2>7. Phases(d)' = [Phases(d) EXCEPT ![r] = PhaseOf(v, d)]
    <3>1. \A q \in Requests : PhaseOf(walk'[q], d) = IF q = r THEN PhaseOf(v, d) ELSE PhaseOf(walk[q], d)
      BY <1>15, <2>1
    <3>. QED  BY <1>14, <3>1 DEF Phases
  <2>2. CASE w.at = d
    <3>1. PhaseOf(v, d) = "idle" /\ PhaseOf(w, d) = "running"
      BY <1>1, <2>1, <2>2, Ended, Present
    <3>2. breakers'[d] = RecordSuccess(Exited(breakers[d]))
      BY <2>2, <2>6
    <3>3. Breaker(d)!Complete(r)
      BY <1>13, <2>7, <3>1, <3>2, SameBreaker DEF Breaker!Complete
    <3>. QED  BY <1>2, <3>3 DEF Breaker!Request
  <2>3. CASE w.at # d
    BY <2>1, <2>3, Ended, Elsewhere
  <2>. QED  BY <2>2, <2>3
<1>8. CASE FirstByte(r)
  <2>. DEFINE v == [Attempted(w) EXCEPT !.pc = "streaming"]
  <2>1. /\ w.pc = "waiting" /\ breakers' = [breakers EXCEPT ![w.at] = RecordSuccess(b)]
        /\ walk' = [walk EXCEPT ![r] = v]
    BY <1>1, <1>8 DEF FirstByte
  <2>2. v.at = w.at /\ v.pc = "streaming"
    BY <1>1 DEF Attempted, Walks
  <2>. HIDE DEF v
  <2>6. breakers'[d] = IF w.at = d THEN RecordSuccess(b) ELSE breakers[d]
    BY <2>1 DEF Kept
  <2>7. Phases(d)' = [Phases(d) EXCEPT ![r] = PhaseOf(v, d)]
    <3>1. \A q \in Requests : PhaseOf(walk'[q], d) = IF q = r THEN PhaseOf(v, d) ELSE PhaseOf(walk[q], d)
      BY <1>15, <2>1
    <3>. QED  BY <1>14, <3>1 DEF Phases
  <2>3. CASE w.at = d
    <3>1. PhaseOf(v, d) = "streaming" /\ PhaseOf(w, d) = "running"
      BY <1>1, <2>1, <2>2, <2>3, Present DEF PhaseOf
    <3>2. breakers'[d] = RecordSuccess(breakers[d])
      BY <2>3, <2>6
    <3>3. Breaker(d)!FirstEvent(r)
      BY <1>13, <2>7, <3>1, <3>2, SameBreaker DEF Breaker!FirstEvent
    <3>. QED  BY <1>2, <3>3 DEF Breaker!Request
  <2>4. CASE w.at # d
    <3>1. PhaseOf(v, d) = "idle"
      BY <2>2, <2>4 DEF PhaseOf
    <3>. QED  BY <2>1, <2>4, <3>1, Elsewhere
  <2>. QED  BY <2>3, <2>4
<1>9. CASE EndStream(r)
  <2>1. PICK v : /\ v.pc \in DonePCs /\ w.pc = "streaming"
                 /\ breakers' = [breakers EXCEPT ![w.at] = Exited(b)]
                 /\ walk' = [walk EXCEPT ![r] = v]
    BY <1>1, <1>9 DEF EndStream, LeaveDeployment, Unrecorded, DonePCs, InFlightPCs, Attempted, Walks
  <2>6. breakers'[d] = IF w.at = d THEN Exited(b) ELSE breakers[d]
    BY <2>1 DEF Kept
  <2>7. Phases(d)' = [Phases(d) EXCEPT ![r] = PhaseOf(v, d)]
    <3>1. \A q \in Requests : PhaseOf(walk'[q], d) = IF q = r THEN PhaseOf(v, d) ELSE PhaseOf(walk[q], d)
      BY <1>15, <2>1
    <3>. QED  BY <1>14, <3>1 DEF Phases
  <2>2. CASE w.at = d
    <3>1. PhaseOf(v, d) = "idle" /\ PhaseOf(w, d) = "streaming"
      BY <1>1, <2>1, <2>2, Ended, Present
    <3>2. breakers'[d] = Exited(breakers[d])
      BY <2>2, <2>6
    <3>3. Breaker(d)!Leave(r)
      BY <1>13, <2>7, <3>1, <3>2, SameBreaker DEF Breaker!Leave
    <3>. QED  BY <1>2, <3>3 DEF Breaker!Request
  <2>3. CASE w.at # d
    BY <2>1, <2>3, Ended, Elsewhere
  <2>. QED  BY <2>2, <2>3
<1>10. CASE BreakStream(r)
  <2>1. PICK v : /\ v.pc \in DonePCs /\ w.pc = "streaming"
                 /\ breakers' = [breakers EXCEPT ![w.at] = RecordFailure(Exited(b))]
                 /\ walk' = [walk EXCEPT ![r] = v]
    BY <1>1, <1>10 DEF BreakStream, LeaveDeployment, DonePCs, InFlightPCs, Attempted, Walks
  <2>6. breakers'[d] = IF w.at = d THEN RecordFailure(Exited(b)) ELSE breakers[d]
    BY <2>1 DEF Kept
  <2>7. Phases(d)' = [Phases(d) EXCEPT ![r] = PhaseOf(v, d)]
    <3>1. \A q \in Requests : PhaseOf(walk'[q], d) = IF q = r THEN PhaseOf(v, d) ELSE PhaseOf(walk[q], d)
      BY <1>15, <2>1
    <3>. QED  BY <1>14, <3>1 DEF Phases
  <2>2. CASE w.at = d
    <3>1. PhaseOf(v, d) = "idle" /\ PhaseOf(w, d) = "streaming"
      BY <1>1, <2>1, <2>2, Ended, Present
    <3>2. breakers'[d] = RecordFailure(Exited(breakers[d]))
      BY <2>2, <2>6
    <3>3. Breaker(d)!Fail(r)
      BY <1>13, <2>7, <3>1, <3>2, SameBreaker DEF Breaker!Fail
    <3>. QED  BY <1>2, <3>3 DEF Breaker!Request
  <2>3. CASE w.at # d
    BY <2>1, <2>3, Ended, Elsewhere
  <2>. QED  BY <2>2, <2>3
<1>11. CASE FailFatal(r)
  <2>1. PICK v : /\ v.pc \in DonePCs /\ w.pc = "waiting"
                 /\ breakers' = [breakers EXCEPT ![w.at] = RecordFailure(Exited(b))]
                 /\ walk' = [walk EXCEPT ![r] = v]
    BY <1>1, <1>11 DEF FailFatal, LeaveDeployment, DonePCs, InFlightPCs, Attempted, Walks
  <2>6. breakers'[d] = IF w.at = d THEN RecordFailure(Exited(b)) ELSE breakers[d]
    BY <2>1 DEF Kept
  <2>7. Phases(d)' = [Phases(d) EXCEPT ![r] = PhaseOf(v, d)]
    <3>1. \A q \in Requests : PhaseOf(walk'[q], d) = IF q = r THEN PhaseOf(v, d) ELSE PhaseOf(walk[q], d)
      BY <1>15, <2>1
    <3>. QED  BY <1>14, <3>1 DEF Phases
  <2>2. CASE w.at = d
    <3>1. PhaseOf(v, d) = "idle" /\ PhaseOf(w, d) = "running"
      BY <1>1, <2>1, <2>2, Ended, Present
    <3>2. breakers'[d] = RecordFailure(Exited(breakers[d]))
      BY <2>2, <2>6
    <3>3. Breaker(d)!Fail(r)
      BY <1>13, <2>7, <3>1, <3>2, SameBreaker DEF Breaker!Fail
    <3>. QED  BY <1>2, <3>3 DEF Breaker!Request
  <2>3. CASE w.at # d
    BY <2>1, <2>3, Ended, Elsewhere
  <2>. QED  BY <2>2, <2>3
<1>12. CASE Abandon(r)
  <2>1. PICK v : /\ v.pc \in DonePCs /\ w.pc \in {"waiting", "streaming"}
                 /\ breakers' = [breakers EXCEPT ![w.at] = Exited(b)]
                 /\ walk' = [walk EXCEPT ![r] = v]
    BY <1>1, <1>12 DEF Abandon, LeaveDeployment, Unrecorded, DonePCs, InFlightPCs, Attempted, Walks
  <2>6. breakers'[d] = IF w.at = d THEN Exited(b) ELSE breakers[d]
    BY <2>1 DEF Kept
  <2>7. Phases(d)' = [Phases(d) EXCEPT ![r] = PhaseOf(v, d)]
    <3>1. \A q \in Requests : PhaseOf(walk'[q], d) = IF q = r THEN PhaseOf(v, d) ELSE PhaseOf(walk[q], d)
      BY <1>15, <2>1
    <3>. QED  BY <1>14, <3>1 DEF Phases
  <2>2. CASE w.at = d
    <3>1. PhaseOf(v, d) = "idle" /\ PhaseOf(w, d) \in {"running", "streaming"}
      BY <1>1, <2>1, <2>2, Ended, Present
    <3>2. breakers'[d] = Exited(breakers[d])
      BY <2>2, <2>6
    <3>3. Breaker(d)!Leave(r)
      BY <1>13, <2>7, <3>1, <3>2, SameBreaker DEF Breaker!Leave
    <3>. QED  BY <1>2, <3>3 DEF Breaker!Request
  <2>3. CASE w.at # d
    BY <2>1, <2>3, Ended, Elsewhere
  <2>. QED  BY <2>2, <2>3
<1>. QED  BY <1>3, <1>4, <1>5, <1>6, <1>7, <1>8, <1>9, <1>10, <1>11, <1>12 DEF Step

\* So are time passing and the operators' calls.
LEMMA EnvironmentSeen ==
  ASSUME Kept, NEW d \in Deployments, walk' = walk,
         Tick \/ \E x \in Deployments : Hold(x) \/ Release(x)
  PROVE  [Breaker(d)!Next]_(Breaker(d)!vars)
<1>1. Phases(d)' = Phases(d)
  BY DEF Phases, PhaseOf
<1>2. CASE breakers'[d] = breakers[d]
  BY <1>1, <1>2 DEF Breaker!vars
<1>3. CASE Tick /\ breakers'[d] # breakers[d]
  <2>1. /\ breakers[d].state = OPEN /\ breakers[d].since_opened < OpenDuration
        /\ breakers'[d] = Aged(breakers[d])
    BY <1>3 DEF Tick
  <2>2. Breaker(d)!Tick
    BY <1>1, <2>1, SameBreaker DEF Breaker!Tick, Breaker!OPEN, OPEN
  <2>. QED  BY <2>2 DEF Breaker!Next
<1>4. ASSUME NEW x \in Deployments, Hold(x), breakers'[d] # breakers[d]
      PROVE  [Breaker(d)!Next]_(Breaker(d)!vars)
  <2>1. breakers'[d] = ForcedOpen(breakers[d], TRUE)
    BY <1>4 DEF Hold, Kept
  <2>2. Breaker(d)!ForceOpen(TRUE)
    BY <1>1, <2>1, SameBreaker DEF Breaker!ForceOpen
  <2>. QED  BY <2>2 DEF Breaker!Next, Breaker!Operator
<1>5. ASSUME NEW x \in Deployments, Release(x), breakers'[d] # breakers[d]
      PROVE  [Breaker(d)!Next]_(Breaker(d)!vars)
  <2>1. breakers'[d] = Closed(breakers[d])
    BY <1>5 DEF Release, Kept
  <2>2. Breaker(d)!ForceClose
    BY <1>1, <2>1, SameBreaker DEF Breaker!ForceClose
  <2>. QED  BY <2>2 DEF Breaker!Next, Breaker!Operator
<1>. QED  BY <1>2, <1>3, <1>4, <1>5

LEMMA KeptStep == Kept /\ [Next]_vars => Kept'
BY DEF Kept, vars, Next, Step, Start, Enter, EnterUnbuilt, Serve, FirstByte, EndStream, BreakStream,
       FailRetryable, FailFatal, Abandon, LeaveDeployment, Tick, Hold, Release

LEMMA NextSeen ==
  ASSUME IInv, Kept, [Next]_vars, NEW d \in Deployments
  PROVE  [Breaker(d)!Next]_(Breaker(d)!vars)
<1>1. ASSUME NEW r \in Requests, Step(r) PROVE [Breaker(d)!Next]_(Breaker(d)!vars)
  BY <1>1, StepSeen
<1>2. ASSUME Tick \/ \E x \in Deployments : Hold(x) \/ Release(x)
      PROVE  [Breaker(d)!Next]_(Breaker(d)!vars)
  <2>1. walk' = walk
    BY <1>2 DEF Tick, Hold, Release
  <2>. QED  BY <1>2, <2>1, EnvironmentSeen
<1>3. CASE UNCHANGED vars
  <2>1. breakers'[d] = breakers[d] /\ Phases(d)' = Phases(d)
    BY <1>3 DEF vars, Phases, PhaseOf
  <2>. QED  BY <2>1 DEF Breaker!vars
<1>. QED  BY <1>1, <1>2, <1>3 DEF Next

LEMMA InitSeen == ASSUME Init, NEW d \in Deployments PROVE Breaker(d)!Init
<1>1. breakers[d] = FreshBreaker /\ Phases(d) = [r \in Requests |-> "idle"]
  BY DEF Init, Phases, PhaseOf, NewWalk
<1>. QED  BY <1>1, SameBreaker DEF Breaker!Init

LEMMA KeptAlways == Spec => []Kept
<1>1. Init => Kept
  BY DEF Init, Kept
<1>. QED  BY <1>1, KeptStep, PTL DEF Spec

\* Seen from one of its deployments the engine is the circuit breaker specification:
\* no walk, whatever plan, graph and failures it meets, takes the breaker of a
\* deployment through a step that CircuitBreaker lacks.
THEOREM EngineImplementsBreakers == Spec => ImplementsBreakers
<1>. DEFINE Seen == \A d \in Deployments : [Breaker(d)!Next]_(Breaker(d)!vars)
<1>1. Init => \A d \in Deployments : Breaker(d)!Init
  BY InitSeen
<1>2. IInv /\ Kept /\ [Next]_vars => [Seen]_vars
  BY NextSeen
<1>. QED  BY <1>1, <1>2, Invariant, KeptAlways, PTL DEF Spec, ImplementsBreakers

\* So what CircuitBreaker_proofs proves of a breaker holds of every deployment's.
THEOREM EachBreaker == ASSUME NEW d \in Deployments PROVE Spec => Breaker(d)!Spec
<1>1. Init => Breaker(d)!Init
  BY InitSeen
<1>2. IInv /\ Kept /\ [Next]_vars => [Breaker(d)!Next]_(Breaker(d)!vars)
  BY NextSeen
<1>. QED  BY <1>1, <1>2, Invariant, KeptAlways, PTL DEF Spec, Breaker!Spec

-----------------------------------------------------------------------------
\* A plan without declared edges is walked in the order it was ranked

Plain ==
  /\ Declared = <<>> /\ MaxLatency = 0 /\ ~CostIsCapped
  /\ Cardinality(Deployments) <= MaxAttempts
  /\ Cardinality(Deployments) <= MaxDepth + 1

Passed(w) == {w.chain[k] : k \in 1..Len(w.attempts)}

\* The attempts behind a walk are the first of its chain; it attempts the next.
InOrder(w) ==
  /\ IsInjective(w.chain) /\ Len(w.chain) <= Cardinality(Deployments)
  /\ w.pc \in {"ready", "waiting"} =>
       /\ Len(w.attempts) < Len(w.chain)
       /\ w.at = w.chain[Len(w.attempts) + 1]
       /\ w.visited = Passed(w)
  /\ w.pc = "exhausted" => w.visited = ToSet(w.chain)

\* Where nothing is declared the next hop is the next of the chain.
LEMMA NextIsRanked ==
  ASSUME Declared = <<>>, NEW chain \in Seq(Deployments), IsInjective(chain),
         NEW p \in 1..Len(chain), NEW reason \in Reasons, NEW target
  PROVE  IsNextHop(target, chain, chain[p], reason, {chain[k] : k \in 1..p})
           <=> p < Len(chain) /\ target = chain[p + 1]
<1>1. \A node : DeclaredFrom(chain, node) = {}
  BY DEF DeclaredFrom, DeclaredWithin
<1>2. \A i \in DOMAIN chain : chain[i] = chain[p] => i = p
  BY DEF IsInjective
<1>3. RanksNext(chain, p, target) <=> p < Len(chain) /\ target = chain[p + 1]
  <2>1. \A x, y : ~IsDeclared(chain, x, y)
    BY <1>1 DEF IsDeclared
  <2>2. ASSUME RanksNext(chain, p, target)
        PROVE  p < Len(chain) /\ target = chain[p + 1]
    <3>1. PICK j \in (p + 1)..Len(chain) :
            target = chain[j] /\ \A k \in (p + 1)..(j - 1) : IsDeclared(chain, chain[p], chain[k])
      BY <2>2 DEF RanksNext
    <3>2. j = p + 1
      BY <2>1, <3>1
    <3>. QED  BY <3>1, <3>2
  <2>3. ASSUME p < Len(chain), target = chain[p + 1]
        PROVE  RanksNext(chain, p, target)
    <3>1. p + 1 \in (p + 1)..Len(chain) /\ (p + 1)..(p + 1 - 1) = {}
      BY <2>3
    <3>. QED  BY <2>1, <2>3, <3>1 DEF RanksNext
  <2>. QED  BY <2>2, <2>3
<1>4. IsRanked(chain, chain[p], reason, target) <=> p < Len(chain) /\ target = chain[p + 1]
  <2>1. reason \in Unanswered(chain, chain[p])
    BY <1>1 DEF Unanswered
  <2>2. p \in DOMAIN chain
    OBVIOUS
  <2>. QED  BY <1>2, <1>3, <2>1, <2>2 DEF IsRanked
<1>5. p < Len(chain) => chain[p + 1] \notin {chain[k] : k \in 1..p}
  <2>1. ASSUME p < Len(chain), NEW k \in 1..p, chain[p + 1] = chain[k] PROVE FALSE
    <3>1. p + 1 \in DOMAIN chain /\ k \in DOMAIN chain /\ p + 1 # k
      BY <2>1
    <3>. QED  BY <2>1, <3>1 DEF IsInjective
  <2>. QED  BY <2>1
<1>6. Answering(chain, chain[p], reason) = {}
  BY <1>1 DEF Answering
<1>. QED  BY <1>4, <1>5, <1>6 DEF IsNextHop

\* A failed attempt leads to the next of the chain, or ends a walk that tried all.
LEMMA AdvancedInOrder ==
  ASSUME Plain, NEW w \in Walks, Sound(w), InOrder(w), w.pc \in {"ready", "waiting"},
         NEW reason \in Reasons, NEW ms \in Nat,
         NEW next \in Advanced(Attempted(w), reason, ms)
  PROVE  InOrder(next)
<1>. DEFINE v == Attempted(w)
            c == Charged(v, ms)
            p == Len(w.attempts) + 1
<1>1. /\ w.chain \in Seq(Deployments) /\ w.attempts \in Seq(Deployments) /\ w.depth = p - 1
      /\ p \in 1..Len(w.chain) /\ IsInjective(w.chain) /\ w.at = w.chain[p]
      /\ Len(w.chain) <= MaxAttempts /\ Len(w.chain) <= MaxDepth + 1
      /\ Len(w.chain) <= Cardinality(Deployments)
      /\ w.visited = {w.chain[k] : k \in 1..(p - 1)}
      /\ MaxAttempts \in Nat /\ MaxDepth \in Nat /\ w.depth \in Nat
  <2>1. /\ w.chain \in Seq(Deployments) /\ w.attempts \in Seq(Deployments) /\ w.depth \in Nat
        /\ MaxAttempts \in Nat /\ MaxDepth \in Nat /\ Cardinality(Deployments) \in Nat
    BY EngineAssumption, FS_CardinalityType DEF Walks
  <2>2. /\ Len(w.attempts) < Len(w.chain) /\ w.at = w.chain[p] /\ IsInjective(w.chain)
        /\ Len(w.chain) <= Cardinality(Deployments) /\ w.visited = Passed(w)
    BY DEF InOrder
  <2>3. w.depth = Len(w.attempts)
    BY DEF Sound, Underway
  <2>4. w.visited = {w.chain[k] : k \in 1..(p - 1)}
    BY <2>1, <2>2 DEF Passed
  <2>. QED  BY <2>1, <2>2, <2>3, <2>4 DEF Plain
<1>2. /\ v.chain = w.chain /\ v.at = w.at /\ v.depth = w.depth /\ v.visited = w.visited
      /\ v.attempts = Append(w.attempts, w.at)
      /\ v = [w EXCEPT !.attempts = Append(w.attempts, w.at)]
  BY DEF Attempted, Walks
<1>3. Len(v.attempts) = p
  BY <1>1, <1>2
<1>. HIDE DEF v
<1>4. /\ c.chain = w.chain /\ c.visited = w.visited \union {w.at} /\ c.depth = w.depth
      /\ c.attempts = v.attempts /\ DOMAIN c = DOMAIN w
  <2>1. c = [v EXCEPT !.visited = v.visited \union {v.at}, !.elapsed = v.elapsed + ms]
    BY DEF Charged
  <2>2. DOMAIN v = DOMAIN w /\ {"chain", "visited", "depth", "attempts", "elapsed"} \subseteq DOMAIN w
    BY <1>2 DEF Walks
  <2>. QED  BY <1>2, <2>1, <2>2
<1>5. c.visited = {w.chain[k] : k \in 1..p}
  <2>1. 1..p = (1..(p - 1)) \union {p}
    BY <1>1
  <2>. QED  BY <1>1, <1>4, <2>1
<1>6. \A t \in Deployments :
        IsNextHop(t, v.chain, v.at, reason, c.visited) <=> p < Len(w.chain) /\ t = w.chain[p + 1]
  <2>1. /\ v.chain = w.chain /\ v.at = w.chain[p]
        /\ c.visited = {w.chain[k] : k \in 1..p}
    BY <1>1, <1>2, <1>5
  <2>. HIDE DEF c
  <2>2. \A t : IsNextHop(t, w.chain, w.chain[p], reason, {w.chain[k] : k \in 1..p})
                 <=> p < Len(w.chain) /\ t = w.chain[p + 1]
    BY <1>1, NextIsRanked DEF Plain
  <2>. QED  BY <2>1, <2>2
<1>7. CASE p = Len(w.chain)
  <2>1. next = Stopped(c)
    BY <1>6, <1>7 DEF Advanced, v
  <2>. HIDE DEF c
  <2>2. next.pc = "exhausted" /\ next.chain = c.chain /\ next.visited = c.visited
    BY <1>4, <2>1 DEF Stopped, Walks
  <2>3. c.visited = ToSet(w.chain)
    BY <1>1, <1>5, <1>7 DEF ToSet
  <2>. QED  BY <1>1, <1>4, <2>2, <2>3 DEF InOrder
<1>8. CASE p < Len(w.chain)
  <2>1. w.chain[p + 1] \in Deployments
    BY <1>1, <1>8
  <2>2. Len(v.attempts) < MaxAttempts
    BY <1>1, <1>3, <1>8
  <2>3. \A t : ~Refuses(c, t)
    BY <1>1, <1>4, <1>8 DEF Refuses, Plain
  <2>4. next = Hopped(c, w.chain[p + 1])
    <3>1. {t \in Deployments : IsNextHop(t, v.chain, v.at, reason, c.visited)} = {w.chain[p + 1]}
      BY <1>6, <1>8, <2>1
    <3>2. ~(Len(v.attempts) >= MaxAttempts)
      BY <1>1, <1>3, <2>2
    <3>. QED  BY <2>3, <3>1, <3>2 DEF Advanced, v
  <2>. HIDE DEF c
  <2>5. /\ next.pc = "ready" /\ next.at = w.chain[p + 1] /\ next.chain = c.chain
        /\ next.visited = c.visited /\ next.attempts = c.attempts
    BY <1>4, <2>4 DEF Hopped, Walks
  <2>6. next.visited = Passed(next)
    BY <1>3, <1>4, <1>5, <2>5 DEF Passed
  <2>. QED  BY <1>1, <1>3, <1>4, <1>8, <2>5, <2>6 DEF InOrder
<1>. QED  BY <1>1, <1>7, <1>8

\* Planned chains have no repetition, so none is longer than there are deployments.
LEMMA ChainInOrder ==
  ASSUME NEW S \in SUBSET Deployments, NEW chain \in SetToAllKPermutations(S)
  PROVE  IsInjective(chain) /\ Len(chain) <= Cardinality(Deployments)
<1>1. PICK s \in SUBSET S : /\ chain \in [1..Cardinality(s) -> s]
                            /\ \A i, j \in 1..Cardinality(s) : i # j => chain[i] # chain[j]
  BY DEF SetToAllKPermutations, SetToSeqs
<1>2. Cardinality(s) \in Nat /\ Cardinality(s) <= Cardinality(Deployments)
  BY EngineAssumption, FS_Subset, FS_CardinalityType
<1>3. Len(chain) = Cardinality(s)
  BY <1>1, <1>2
<1>. QED  BY <1>1, <1>2, <1>3 DEF IsInjective

\* A walk that ends or is answered keeps its order, and so does one that sets out.
LEMMA MovedInOrder ==
  ASSUME NEW w \in Walks, InOrder(w), NEW v, v.chain = w.chain,
         \/ v.pc \in {"served", "failed", "abandoned", "streaming"}
         \/ /\ v.pc = "waiting" /\ w.pc = "ready"
            /\ v.at = w.at /\ v.visited = w.visited /\ v.attempts = w.attempts
  PROVE  InOrder(v)
BY DEF InOrder, Passed

Ordered == \A r \in Requests : InOrder(walk[r])

LEMMA OrderedOnce ==
  ASSUME IInv, Ordered, NEW r \in Requests, NEW v, walk' = [walk EXCEPT ![r] = v], InOrder(v)
  PROVE  Ordered'
<1>1. \A q \in Requests : walk'[q] = IF q = r THEN v ELSE walk[q]
  BY DEF IInv
<1>2. \A q \in Requests : InOrder(walk'[q])
  BY <1>1 DEF Ordered
<1>. QED  BY <1>2 DEF Ordered, InOrder, Passed

LEMMA OrderedStep ==
  ASSUME Plain, IInv, Ordered, NEW r \in Requests, Step(r)
  PROVE  Ordered'
<1>. DEFINE w == walk[r]
<1>1. w \in Walks /\ Sound(w) /\ InOrder(w) /\ walk \in [Requests -> Walks]
  BY DEF IInv, Ordered
<1>2. CASE Start(r)
  <2>1. PICK asked \in SUBSET Deployments, stream \in BOOLEAN :
          \E chain \in SetToAllKPermutations({d \in asked : Admits(breakers[d])}) :
            walk' = [walk EXCEPT ![r] = Planned(w, chain, stream)]
    BY <1>2 DEF Start
  <2>2. PICK chain \in SetToAllKPermutations({d \in asked : Admits(breakers[d])}) :
          walk' = [walk EXCEPT ![r] = Planned(w, chain, stream)]
    BY <2>1
  <2>3. IsInjective(chain) /\ Len(chain) <= Cardinality(Deployments) /\ chain \in Seq(Deployments)
    BY ChainInOrder, ChainType
  <2>4. w = NewWalk
    BY <1>1, <1>2 DEF Start, Sound
  <2>5. CASE chain = <<>>
    <3>1. w.chain = <<>> /\ Planned(w, chain, stream) = [w EXCEPT !.pc = "unroutable"]
      BY <2>4, <2>5 DEF Planned, NewWalk
    <3>2. /\ Planned(w, chain, stream).pc = "unroutable"
          /\ Planned(w, chain, stream).chain = w.chain
      BY <1>1, <3>1 DEF Walks
    <3>3. InOrder(Planned(w, chain, stream))
      BY <1>1, <3>2 DEF InOrder
    <3>. QED  BY <2>2, <3>3, OrderedOnce
  <2>6. CASE chain # <<>>
    <3>. DEFINE v == Planned(w, chain, stream)
    <3>1. v.pc = "ready" /\ v.chain = chain /\ v.at = chain[1] /\ v.visited = {} /\ v.attempts = <<>>
      BY <2>4, <2>6 DEF Planned, NewWalk
    <3>. HIDE DEF v
    <3>2. Len(v.attempts) = 0 /\ 0 < Len(chain) /\ Passed(v) = {}
      BY <2>3, <2>6, <3>1 DEF Passed
    <3>3. InOrder(v)
      BY <2>3, <3>1, <3>2 DEF InOrder
    <3>. QED  BY <2>2, <3>3, OrderedOnce DEF v
  <2>. QED  BY <2>5, <2>6
<1>3. CASE EnterUnbuilt(r)
  <2>1. PICK next \in Advanced(Attempted(w), ProviderDown, 0) : walk' = [walk EXCEPT ![r] = next]
    BY <1>3 DEF EnterUnbuilt
  <2>2. ProviderDown \in Reasons /\ 0 \in Nat /\ w.pc \in {"ready", "waiting"}
    BY <1>3, EngineAssumption DEF EnterUnbuilt
  <2>. QED  BY <1>1, <2>1, <2>2, AdvancedInOrder, OrderedOnce
<1>4. CASE FailRetryable(r)
  <2>1. PICK reason \in Reasons, ms \in Latencies :
          \E next \in Advanced(Attempted(w), reason, ms) : walk' = [walk EXCEPT ![r] = next]
    BY <1>4 DEF FailRetryable
  <2>2. PICK next \in Advanced(Attempted(w), reason, ms) : walk' = [walk EXCEPT ![r] = next]
    BY <2>1
  <2>3. ms \in Nat /\ w.pc \in {"ready", "waiting"}
    BY <1>4, EngineAssumption DEF FailRetryable
  <2>. QED  BY <1>1, <2>2, <2>3, AdvancedInOrder, OrderedOnce
<1>5. CASE Enter(r)
  <2>. DEFINE v == [w EXCEPT !.pc = "waiting"]
  <2>1. w.pc = "ready" /\ walk' = [walk EXCEPT ![r] = v]
    BY <1>1, <1>5 DEF Enter
  <2>2. v.pc = "waiting" /\ v.chain = w.chain /\ v.at = w.at /\ v.visited = w.visited
        /\ v.attempts = w.attempts
    BY <1>1 DEF Walks
  <2>. HIDE DEF v
  <2>3. InOrder(v)
    BY <1>1, <2>1, <2>2, MovedInOrder
  <2>. QED  BY <2>1, <2>3, OrderedOnce
<1>6. CASE Serve(r) \/ FirstByte(r) \/ FailFatal(r)
  <2>1. PICK pc \in {"served", "failed", "streaming"} :
          walk' = [walk EXCEPT ![r] = [Attempted(w) EXCEPT !.pc = pc]]
    BY <1>6 DEF Serve, FirstByte, FailFatal
  <2>. DEFINE v == [Attempted(w) EXCEPT !.pc = pc]
  <2>2. v.pc = pc /\ v.chain = w.chain
    BY <1>1 DEF Attempted, Walks
  <2>. HIDE DEF v
  <2>3. InOrder(v)
    BY <1>1, <2>2, MovedInOrder
  <2>. QED  BY <2>1, <2>3, OrderedOnce DEF v
<1>7. CASE EndStream(r) \/ BreakStream(r) \/ Abandon(r)
  <2>1. PICK pc \in {"served", "failed", "abandoned"} :
          walk' = [walk EXCEPT ![r] = [w EXCEPT !.pc = pc]]
    BY <1>1, <1>7 DEF EndStream, BreakStream, Abandon
  <2>. DEFINE v == [w EXCEPT !.pc = pc]
  <2>2. v.pc = pc /\ v.chain = w.chain
    BY <1>1 DEF Walks
  <2>. HIDE DEF v
  <2>3. InOrder(v)
    BY <1>1, <2>2, MovedInOrder
  <2>. QED  BY <2>1, <2>3, OrderedOnce DEF v
<1>. QED  BY <1>2, <1>3, <1>4, <1>5, <1>6, <1>7 DEF Step

\* Without declared edges, and with budgets as long as the registry, a walk gives up
\* only when it has tried every deployment the planner ranked for it.
THEOREM NobodyIsStranded ==
  ASSUME Declared = <<>>, MaxLatency = 0, ~CostIsCapped,
         Cardinality(Deployments) <= MaxAttempts, Cardinality(Deployments) <= MaxDepth + 1
  PROVE  Spec => []NoStrandedCandidate
<1>1. Plain
  BY DEF Plain
<1>2. Init => Ordered
  <2>1. <<>> \in Seq(Deployments) /\ Len(<<>>) = 0 /\ IsInjective(<<>>)
    BY DEF IsInjective
  <2>2. Cardinality(Deployments) \in Nat
    BY EngineAssumption, FS_CardinalityType
  <2>3. NewWalk.pc = "new" /\ NewWalk.chain = <<>>
    BY DEF NewWalk
  <2>4. InOrder(NewWalk)
    BY <2>1, <2>2, <2>3 DEF InOrder
  <2>. QED  BY <2>4 DEF Init, Ordered
<1>3. IInv /\ Ordered /\ [Next]_vars => Ordered'
  <2>1. ASSUME IInv, Ordered, NEW r \in Requests, Step(r) PROVE Ordered'
    BY <1>1, <2>1, OrderedStep
  <2>2. ASSUME Ordered, walk' = walk PROVE Ordered'
    BY <2>2 DEF Ordered, InOrder, Passed
  <2>. QED  BY <2>1, <2>2 DEF Next, Tick, Hold, Release, vars
<1>4. Ordered => NoStrandedCandidate
  BY DEF Ordered, InOrder, NoStrandedCandidate
<1>. QED  BY <1>2, <1>3, <1>4, Invariant, PTL DEF Spec
=============================================================================
