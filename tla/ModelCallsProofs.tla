--------------------------- MODULE ModelCallsProofs ---------------------------
(***************************************************************************)
(* Proofs about ModelCalls for any batches, models and budgets: types and  *)
(* bounds, what a cancelled stage may still spend, that a stage ends well  *)
(* only with every task answered, and that its accounts are exact.         *)
(***************************************************************************)
EXTENDS ModelCalls, FiniteSetTheorems, WellFoundedInduction, TLAPS

------------------------------------------------------------------------------
(* Least members, and induction by a smallest counterexample *)

\* Every set of naturals that is not empty has a least member.
LEMMA LeastOf ==
  ASSUME NEW S \in SUBSET Nat, S # {}
  PROVE  \E m \in S : \A x \in S : m <= x
<1> DEFINE F == {0..n : n \in S}
<1>1. \A n \in Nat : IsFiniteSet(0..n)
  BY FS_Interval
<1>2. F \subseteq FiniteSubsetsOf(Nat) /\ F # {}
  <2>1. \A n \in S : 0..n \in FiniteSubsetsOf(Nat)
    BY <1>1 DEF FiniteSubsetsOf
  <2> QED
    BY <2>1
<1> HIDE DEF F
<1>3. IsWellFoundedOn(StrictSubsetOrdering(Nat), FiniteSubsetsOf(Nat))
  BY FS_StrictSubsetOrderingWellFounded
<1>4. PICK b \in F : \A c \in F : <<c, b>> \notin StrictSubsetOrdering(Nat)
  BY <1>2, <1>3, WFMin
<1>5. PICK m \in S : b = 0..m
  BY <1>4 DEF F
<1>6. ASSUME NEW x \in S, x < m PROVE FALSE
  <2>1. 0..x \in F /\ 0..x \subseteq Nat /\ 0..m \subseteq Nat
    BY DEF F
  <2>2. 0..x \subseteq 0..m /\ m \in 0..m /\ m \notin 0..x
    BY <1>6
  <2> QED
    BY <1>4, <1>5, <2>1, <2>2 DEF StrictSubsetOrdering
<1> QED
  BY <1>6

\* Min is that member.
LEMMA MinIsLeast ==
  ASSUME NEW S \in SUBSET Nat, S # {}
  PROVE  Min(S) \in S /\ \A x \in S : Min(S) <= x
BY LeastOf DEF Min

\* A set of subsets of a finite set that is not empty has a member with no other
\* member inside it.
LEMMA SmallestSet ==
  ASSUME NEW D, IsFiniteSet(D), NEW F \in SUBSET SUBSET D, F # {}
  PROVE  \E t \in F : \A s \in F : s \subseteq t => s = t
<1>1. IsWellFoundedOn(StrictSubsetOrdering(D), FiniteSubsetsOf(D))
  BY FS_StrictSubsetOrderingWellFounded
<1>2. F \subseteq FiniteSubsetsOf(D)
  BY FS_Subset DEF FiniteSubsetsOf
<1>3. PICK t \in F : \A s \in F : <<s, t>> \notin StrictSubsetOrdering(D)
  BY <1>1, <1>2, WFMin
<1> QED
  BY <1>2, <1>3 DEF StrictSubsetOrdering, FiniteSubsetsOf

------------------------------------------------------------------------------
(* Sums over the batches and over the calls in flight *)

\* The sums of f over the parts of T, taken member by member.
Step(f, h, s) == f[CHOOSE x \in s : TRUE] + h[s \ {CHOOSE x \in s : TRUE}]
Partial(f, T, h) == h = [s \in SUBSET T |-> IF s = {} THEN 0 ELSE Step(f, h, s)]

LEMMA PartialAgree ==
  ASSUME NEW f, NEW T, NEW U, IsFiniteSet(T), NEW h, NEW k,
         Partial(f, T, h), Partial(f, U, k), NEW r \in SUBSET T, r \in SUBSET U
  PROVE  h[r] = k[r]
<1> DEFINE F == {s \in SUBSET T : s \in SUBSET U /\ h[s] # k[s]}
<1>1. SUFFICES ASSUME F # {} PROVE FALSE
  OBVIOUS
<1>0. F \in SUBSET SUBSET T
  OBVIOUS
<1> HIDE DEF F
<1>2. PICK t \in F : \A s \in F : s \subseteq t => s = t
  BY <1>0, <1>1, SmallestSet
<1> USE DEF F
<1>3. CASE t = {}
  BY <1>2, <1>3 DEF Partial
<1>4. CASE t # {}
  <2> DEFINE x == CHOOSE x \in t : TRUE
  <2>1. x \in t
    BY <1>4
  <2>2. t \ {x} \in SUBSET T /\ t \ {x} \in SUBSET U /\ t \ {x} # t
    BY <1>2, <2>1
  <2>3. h[t \ {x}] = k[t \ {x}]
    BY <1>2, <2>2
  <2>4. h[t] = Step(f, h, t) /\ k[t] = Step(f, k, t)
    BY <1>2, <1>4 DEF Partial
  <2> QED BY <1>2, <2>3, <2>4 DEF Step
<1> QED BY <1>3, <1>4

LEMMA PartialExists ==
  ASSUME NEW f, NEW D, IsFiniteSet(D)
  PROVE  \E h : Partial(f, D, h)
<1> DEFINE F == {t \in SUBSET D : ~\E h : Partial(f, t, h)}
<1>1. SUFFICES ASSUME F # {} PROVE FALSE
  OBVIOUS
<1>0. F \in SUBSET SUBSET D
  OBVIOUS
<1> HIDE DEF F
<1>2. PICK t \in F : \A s \in F : s \subseteq t => s = t
  BY <1>0, <1>1, SmallestSet
<1> USE DEF F
<1> DEFINE K(u) == CHOOSE h : Partial(f, u, h)
           Rest(s) == s \ {CHOOSE x \in s : TRUE}
           H == [s \in SUBSET t |->
                   IF s = {} THEN 0
                   ELSE f[CHOOSE x \in s : TRUE] + K(Rest(s))[Rest(s)]]
<1>3. \A u \in SUBSET t : u # t => Partial(f, u, K(u))
  BY <1>2
<1>4. \A u \in SUBSET t : IsFiniteSet(u)
  BY <1>2, FS_Subset
<1>5. ASSUME NEW s \in SUBSET t, s # {}
      PROVE  Rest(s) \in SUBSET t /\ Rest(s) # t /\ Rest(s) # s
  BY <1>5
<1> HIDE DEF K
<1>6. ASSUME NEW s \in SUBSET t, s # t PROVE H[s] = K(s)[s]
  <2>1. Partial(f, s, K(s))
    BY <1>3, <1>6
  <2>2. CASE s = {}
    BY <2>1, <2>2 DEF Partial
  <2>3. CASE s # {}
    <3>1. K(s)[s] = Step(f, K(s), s)
      BY <2>1, <2>3 DEF Partial
    <3>2. Partial(f, Rest(s), K(Rest(s)))
      BY <1>3, <1>5, <2>3
    <3>3. K(s)[Rest(s)] = K(Rest(s))[Rest(s)]
      BY <1>4, <2>1, <3>2, PartialAgree
    <3> QED BY <2>3, <3>1, <3>3 DEF Step
  <2> QED BY <2>2, <2>3
<1>7. Partial(f, t, H)
  <2>1. ASSUME NEW s \in SUBSET t, s # {}
        PROVE  H[s] = Step(f, H, s)
    <3>1. H[Rest(s)] = K(Rest(s))[Rest(s)]
      BY <1>5, <1>6, <2>1
    <3> QED BY <2>1, <3>1 DEF Step
  <2> QED BY <2>1 DEF Partial
<1> QED BY <1>2, <1>7

\* The sums of f over the parts of D, in whatever order they are taken.
Sums(f, D, g) ==
  /\ g \in [SUBSET D -> Int]
  /\ SumFunction(f) = g[D]
  /\ g[{}] = 0
  /\ \A s \in SUBSET D : \A x \in s : g[s] = f[x] + g[s \ {x}]

\* SumFunction can be taken apart at any member: the order of its sum is of no
\* consequence.
LEMMA SumParts ==
  ASSUME NEW f, NEW D, DOMAIN f = D, IsFiniteSet(D), \A x \in D : f[x] \in Int
  PROVE  \E g : Sums(f, D, g)
<1> DEFINE g == CHOOSE h : Partial(f, D, h)
<1>1. Partial(f, D, g)
  BY PartialExists
<1>2. SumFunction(f) = g[D]
  BY DEF SumFunction, SumFunctionOnSet, FoldFunction, FoldFunctionOnSet, MapThenFoldSet,
         Partial, Step
<1>3. g[{}] = 0 /\ DOMAIN g = SUBSET D
  BY <1>1 DEF Partial
<1>4. \A s \in SUBSET D : s # {} => g[s] = Step(f, g, s)
  BY <1>1 DEF Partial
<1> HIDE DEF g
<1>5. \A s \in SUBSET D : g[s] \in Int
  <2> DEFINE F == {s \in SUBSET D : g[s] \notin Int}
  <2>1. SUFFICES ASSUME F # {} PROVE FALSE
    OBVIOUS
  <2>0. F \in SUBSET SUBSET D
    OBVIOUS
  <2> HIDE DEF F
  <2>2. PICK t \in F : \A s \in F : s \subseteq t => s = t
    BY <2>0, <2>1, SmallestSet
  <2> USE DEF F
  <2>9. t \in SUBSET D /\ g[t] \notin Int
    BY <2>2
  <2>3. t # {}
    <3>1. g[{}] \in Int
      BY <1>3
    <3> QED BY <2>9, <3>1
  <2>4. PICK x \in t : x = CHOOSE y \in t : TRUE
    BY <2>3
  <2>5. g[t \ {x}] \in Int
    BY <2>2, <2>4
  <2>6. g[t] = f[x] + g[t \ {x}]
    BY <1>4, <2>2, <2>3, <2>4 DEF Step
  <2> QED BY <2>2, <2>4, <2>5, <2>6
<1>6. \A s \in SUBSET D : \A x \in s : g[s] = f[x] + g[s \ {x}]
  <2> DEFINE F == {s \in SUBSET D : \E x \in s : g[s] # f[x] + g[s \ {x}]}
  <2>1. SUFFICES ASSUME F # {} PROVE FALSE
    OBVIOUS
  <2>0. F \in SUBSET SUBSET D
    OBVIOUS
  <2> HIDE DEF F
  <2>2. PICK t \in F : \A s \in F : s \subseteq t => s = t
    BY <2>0, <2>1, SmallestSet
  <2> USE DEF F
  <2>3. PICK x \in t : g[t] # f[x] + g[t \ {x}]
    BY <2>2
  <2>4. PICK c \in t : c = CHOOSE y \in t : TRUE
    BY <2>3
  <2>5. g[t] = f[c] + g[t \ {c}]
    BY <1>4, <2>2, <2>4 DEF Step
  <2>6. x # c
    BY <2>3, <2>5
  <2>7. \A s \in SUBSET D : s \subseteq t /\ s # t =>
          \A y \in s : g[s] = f[y] + g[s \ {y}]
    BY <2>2
  <2>8. /\ t \ {c} \in SUBSET D /\ t \ {c} # t /\ x \in t \ {c}
        /\ t \ {x} \in SUBSET D /\ t \ {x} # t /\ c \in t \ {x}
        /\ (t \ {c}) \ {x} = (t \ {x}) \ {c} /\ (t \ {c}) \ {x} \in SUBSET D
    BY <2>2, <2>6
  <2>9. /\ g[t \ {c}] = f[x] + g[(t \ {c}) \ {x}]
        /\ g[t \ {x}] = f[c] + g[(t \ {c}) \ {x}]
    BY <2>7, <2>8
  <2>10. f[x] \in Int /\ f[c] \in Int /\ g[(t \ {c}) \ {x}] \in Int
    BY <1>5, <2>2, <2>8
  <2> QED BY <2>3, <2>5, <2>9, <2>10
<1>7. g \in [SUBSET D -> Int]
  BY <1>1, <1>5 DEF Partial
<1> QED BY <1>2, <1>3, <1>6, <1>7 DEF Sums

\* The sum of a function on at most two points.
LEMMA SumOfNone ==
  ASSUME NEW f, DOMAIN f = {}
  PROVE  SumFunction(f) = 0
<1>1. PICK g : Sums(f, {}, g)
  BY FS_EmptySet, SumParts
<1> QED BY <1>1 DEF Sums

LEMMA SumOfOne ==
  ASSUME NEW f, NEW a, DOMAIN f = {a}, f[a] \in Int
  PROVE  SumFunction(f) = f[a]
<1>1. IsFiniteSet({a})
  BY FS_Singleton
<1>2. PICK g : Sums(f, {a}, g)
  BY <1>1, SumParts
<1>3. g[{a}] = f[a] + g[{a} \ {a}] /\ {a} \ {a} = {}
  BY <1>2 DEF Sums
<1> QED BY <1>2, <1>3 DEF Sums

LEMMA SumOfTwo ==
  ASSUME NEW f, NEW a, NEW b, a # b, DOMAIN f = {a, b}, f[a] \in Int, f[b] \in Int
  PROVE  SumFunction(f) = f[a] + f[b]
<1>1. IsFiniteSet({a, b})
  <2>1. {a, b} = {a} \union {b}
    OBVIOUS
  <2>2. IsFiniteSet({a})
    BY FS_Singleton
  <2> QED BY <2>1, <2>2, FS_AddElement
<1>2. PICK g : Sums(f, {a, b}, g)
  BY <1>1, SumParts
<1>3. g[{a, b}] = f[a] + g[{a, b} \ {a}] /\ {a, b} \ {a} = {b}
  BY <1>2 DEF Sums
<1>4. g[{b}] = f[b] + g[{b} \ {b}] /\ {b} \ {b} = {}
  BY <1>2 DEF Sums
<1> QED BY <1>2, <1>3, <1>4 DEF Sums

\* Changing a function at one point changes its sum by the difference there.
LEMMA SumUpdate ==
  ASSUME NEW D, IsFiniteSet(D), NEW f \in [D -> Int], NEW e \in [D -> Int],
         NEW b \in D, \A x \in D \ {b} : e[x] = f[x]
  PROVE  SumFunction(e) = SumFunction(f) + e[b] - f[b] /\ SumFunction(f) \in Int
<1>0. /\ DOMAIN f = D /\ \A x \in D : f[x] \in Int
      /\ DOMAIN e = D /\ \A x \in D : e[x] \in Int
  OBVIOUS
<1>1. PICK g : Sums(f, D, g)
  BY <1>0, SumParts
<1>2. PICK h : Sums(e, D, h)
  BY <1>0, SumParts
<1> DEFINE F == {s \in SUBSET D : b \notin s /\ g[s] # h[s]}
<1>3. F = {}
  <2>1. SUFFICES ASSUME F # {} PROVE FALSE
    OBVIOUS
  <2>2. F \in SUBSET SUBSET D
    OBVIOUS
  <2> HIDE DEF F
  <2>3. PICK t \in F : \A s \in F : s \subseteq t => s = t
    BY <2>1, <2>2, SmallestSet
  <2>4. t \in SUBSET D /\ b \notin t /\ g[t] # h[t]
    BY <2>3 DEF F
  <2>5. PICK x \in t : TRUE
    BY <1>1, <1>2, <2>4 DEF Sums
  <2>6. t \ {x} \in SUBSET D /\ t \ {x} \notin F /\ b \notin t \ {x}
    BY <2>3, <2>4, <2>5
  <2>7. g[t \ {x}] = h[t \ {x}]
    BY <2>6 DEF F
  <2>8. g[t] = f[x] + g[t \ {x}] /\ h[t] = e[x] + h[t \ {x}] /\ e[x] = f[x]
    BY <1>1, <1>2, <2>4, <2>5 DEF Sums
  <2> QED BY <2>4, <2>7, <2>8
<1>4. D \ {b} \in SUBSET D /\ D \ {b} \notin F
  BY <1>3
<1>5. g[D \ {b}] = h[D \ {b}]
  BY <1>4
<1>6. g[D] = f[b] + g[D \ {b}] /\ h[D] = e[b] + h[D \ {b}]
  BY <1>1, <1>2 DEF Sums
<1>7. f[b] \in Int /\ e[b] \in Int /\ g[D \ {b}] \in Int /\ g[D] \in Int
  BY <1>0, <1>1, <1>4 DEF Sums
<1>8. SumFunction(f) = g[D] /\ SumFunction(e) = h[D]
  BY <1>1, <1>2 DEF Sums
<1> QED BY <1>5, <1>6, <1>7, <1>8

\* A sum of nothing but zeros is zero.
LEMMA SumOfZeros ==
  ASSUME NEW f, NEW D, DOMAIN f = D, IsFiniteSet(D), \A x \in D : f[x] = 0
  PROVE  SumFunction(f) = 0
<1>1. PICK g : Sums(f, D, g)
  BY SumParts
<1> DEFINE F == {s \in SUBSET D : g[s] # 0}
<1>2. SUFFICES ASSUME F # {} PROVE FALSE
  BY <1>1 DEF Sums
<1>3. F \in SUBSET SUBSET D
  OBVIOUS
<1> HIDE DEF F
<1>4. PICK t \in F : \A s \in F : s \subseteq t => s = t
  BY <1>2, <1>3, SmallestSet
<1>5. t \in SUBSET D /\ g[t] # 0
  BY <1>4 DEF F
<1>6. PICK x \in t : TRUE
  BY <1>1, <1>5 DEF Sums
<1>7. t \ {x} \in SUBSET D /\ t \ {x} \notin F
  BY <1>4, <1>5, <1>6
<1>8. g[t \ {x}] = 0 /\ f[x] = 0
  BY <1>5, <1>6, <1>7 DEF F
<1>9. g[t] = f[x] + g[t \ {x}]
  BY <1>1, <1>5, <1>6 DEF Sums
<1> QED BY <1>5, <1>8, <1>9

------------------------------------------------------------------------------
(* The inductive invariant *)

Tasks == UNION {Batches[b] : b \in Batch}
Errors == {"none", "schema", "body", "transient", "rejected"}
Outcomes == {"none", "done", "failed", "exhausted", "cancelled", "raised"}
MaybeModel == Models \union {None}

Calls == [state : {"free", "waiting", "answered", "failed"}, tasks : SUBSET Tasks,
          limit : 0..3, attempt : 0..3, truncated : Nat, used : BOOLEAN,
          repairs : Nat, tokens : Nat, bad : Nat, error : Errors, model : MaybeModel]
Answers == [tasks : SUBSET Tasks, requests : Nat, bad : Nat, model : MaybeModel]
Halves == [next : SUBSET Tasks, tasks : SUBSET Tasks, requests : Nat, bad : Nat,
           models : SUBSET MaybeModel]
Results == [outcome : Outcomes, retryable : BOOLEAN, requests : Int, bad : Int]

Places == {"call", "called", "wave", "send", "gather", "waves over", "before pause",
           "pause", "after pause", "replay", "replaying", "before half", "half",
           "halving", "ended"}
Sending == {"call", "send", "replay", "half"}
InFlight == {"called", "gather", "replaying", "halving"}
Waves == {"wave", "send", "gather"}
Halving == {"before half", "half", "halving"}
Recovering == {"before pause", "pause", "after pause", "replay", "replaying"}
                \union Halving

TypeInv ==
  /\ mode \in Modes
  /\ slots \in [Slot -> Calls]
  /\ pc \in Places
  /\ wave \in Batch
  /\ answered \in [Batch -> Answers]
  /\ failures \in [Batch -> Errors]
  /\ current \in Batch \union {None}
  /\ half \in Halves
  /\ recovery \in 0..MaxRecoveryCalls
  /\ lost \in [requests : Int, bad : Int]
  /\ result \in Results
  /\ cancelled \in BOOLEAN /\ late \in BOOLEAN
  /\ sent \in Int /\ bad \in Int /\ after \in Nat

\* A call in flight is in order: it is within its limit, it has an error if and
\* only if it failed, and a free slot holds nothing.
CallOK(c) ==
  /\ c.attempt <= c.limit
  /\ c.error # "none" <=> c.state = "failed"
  /\ c.state = "free" => c = Free

\* Calls are in flight only where the stage waits for them.
SlotInv ==
  /\ \A i \in Slot : CallOK(slots[i])
  /\ pc \notin InFlight \union {"ended"} => \A i \in Slot : slots[i] = Free
  /\ pc \in InFlight \ {"gather"} => \A i \in Slot \ {1} : slots[i] = Free
  /\ pc = "ended" => Over
  /\ pc = "gather" => \A i \in Slot :
       IF wave + i - 1 \in InWave
       THEN slots[i].state # "free" /\ slots[i].tasks = Batches[wave + i - 1]
       ELSE slots[i] = Free

\* What is known of a batch once its call is over, and before it began.
Settled(b) == IF failures[b] = "none" THEN answered[b].tasks = Batches[b]
                                      ELSE answered[b] = NoAnswer
Untouched(b) == failures[b] = "none" /\ answered[b] = NoAnswer

WaveInv ==
  /\ pc \in Waves => \A b \in Batch : IF b < wave THEN Settled(b) ELSE Untouched(b)
  /\ pc = "waves over" =>
       /\ \A b \in Batch : IF b < wave + Concurrency THEN Settled(b) ELSE Untouched(b)
       /\ wave + Concurrency > Len(Batches) \/ Failing(failures) # {}
       /\ mode = "citation" => wave + Concurrency > Len(Batches)

\* The batches before the one being recovered are answered, it and the failed ones
\* after it are not, and its halves make it up.
RecoveryInv ==
  /\ pc \in Recovering =>
       /\ current \in Failing(failures)
       /\ \A b \in Batch : IF failures[b] = "none" \/ b < current
                           THEN answered[b].tasks = Batches[b]
                           ELSE answered[b] = NoAnswer
  /\ pc = "replaying" => slots[1].tasks = Batches[current]
  /\ pc \in {"before half", "half"} => half.tasks \union half.next = Batches[current]
  /\ pc = "halving" => half.tasks \union half.next \union slots[1].tasks = Batches[current]
  /\ pc \notin Halving \union {"ended"} => half = NoHalf

PlaceInv ==
  /\ pc \in {"call", "called"} <=> mode \notin Batched /\ pc # "ended"
  /\ pc # "ended" => result = NoResult

CancelInv ==
  /\ ~cancelled => after = 0
  /\ pc \in Sending => after = 0
  /\ after <= Concurrency

\* Every request so far is in exactly one account: that of an answer, of the
\* halves, of a failed call or of a call in flight; and so is every bad answer.
\* A stage of one call has nothing but that call.
AttemptsOf(calls) == SumFunction([i \in Slot |-> calls[i].attempt])
BadOf(calls) == SumFunction([i \in Slot |-> calls[i].bad])
Accounts(total, wrong, got, h, l, calls) ==
  /\ total = Requests(got) + h.requests + l.requests + AttemptsOf(calls)
  /\ wrong = BadAnswers(got) + h.bad + l.bad + BadOf(calls)
AccountInv ==
  /\ pc # "ended" => Accounts(sent, bad, answered, half, lost, slots)
  /\ pc \in {"call", "called"} =>
       /\ Requests(answered) = 0 /\ BadAnswers(answered) = 0
       /\ lost.requests = 0 /\ lost.bad = 0

IInv == /\ TypeInv /\ SlotInv /\ WaveInv /\ RecoveryInv /\ PlaceInv /\ CancelInv
        /\ AccountInv /\ EveryTaskIsAnswered /\ AccountsAreExact

------------------------------------------------------------------------------
(* The constants, the calls and the slots *)

LEMMA ConstantFacts ==
  /\ Len(Batches) \in Nat \ {0} /\ Batch = 1..Len(Batches)
  /\ IsFiniteSet(Batch) /\ Batch \subseteq Nat /\ 1 \in Batch /\ None \notin Batch
  /\ Concurrency \in {1, 2} /\ 1 \in Slot /\ Slot \subseteq {1, 2}
  /\ BatchAttempts \in 1..3
  /\ \A b \in Batch : Batches[b] \in SUBSET Tasks
<1>1. Len(Batches) \in Nat \ {0} /\ Batch = 1..Len(Batches)
  BY ModelCallsAssumption DEF Batch
<1>2. IsFiniteSet(Batch)
  BY <1>1, FS_Interval
<1>3. Batch \subseteq Nat /\ 1 \in Batch /\ None \notin Batch
  BY <1>1 DEF None
<1>4. Concurrency \in {1, 2} /\ 1 \in Slot /\ Slot \subseteq {1, 2} /\ BatchAttempts \in 1..3
  BY ModelCallsAssumption DEF Slot
<1>5. \A b \in Batch : Batches[b] \in SUBSET Tasks
  BY DEF Tasks
<1> QED BY <1>1, <1>2, <1>3, <1>4, <1>5

LEMMA BatchNumbers ==
  /\ Len(Batches) \in Nat /\ Concurrency \in 1..2
  /\ \A b \in Batch : b \in Nat /\ b <= Len(Batches)
BY ConstantFacts

LEMMA FreeIsACall == Free \in Calls /\ CallOK(Free) /\ Free.attempt = 0 /\ Free.bad = 0
                     /\ Free.state = "free"
BY DEF Free, Calls, CallOK, Errors, MaybeModel

LEMMA NewCallFacts ==
  ASSUME mode \in Modes, NEW tasks \in SUBSET Tasks, NEW limit \in 1..3
  PROVE  /\ NewCall(tasks, limit) \in Calls /\ CallOK(NewCall(tasks, limit))
         /\ NewCall(tasks, limit).state = "waiting"
         /\ NewCall(tasks, limit).tasks = tasks
         /\ NewCall(tasks, limit).attempt = 1 /\ NewCall(tasks, limit).bad = 0
         /\ NewCall(tasks, limit) # Free
<1>1. MaxTokens[mode] \in Nat
  BY ModelCallsAssumption
<1>2. PICK t \in Nat : t = MaxTokens[mode]
  BY <1>1
<1>3. NewCall(tasks, limit) =
        [Free EXCEPT !.state = "waiting", !.tasks = tasks, !.limit = limit,
                     !.attempt = 1, !.tokens = t]
  BY <1>2 DEF NewCall
<1>4. Free \in Calls /\ Free.state = "free" /\ Free.bad = 0 /\ Free.error = "none"
  BY FreeIsACall DEF Free
<1> DEFINE c == NewCall(tasks, limit)
<1> HIDE DEF c
<1>5. /\ c \in Calls /\ c.state = "waiting" /\ c.tasks = tasks /\ c.attempt = 1
      /\ c.bad = 0 /\ c.error = "none" /\ c.limit = limit
  <2>1. limit \in 0..3 /\ 1 \in 0..3
    OBVIOUS
  <2>2. PICK f \in Calls : f = Free
    BY <1>4
  <2>3. PICK one \in 0..3 : one = 1
    BY <2>1
  <2>4. c = [f EXCEPT !.state = "waiting", !.tasks = tasks, !.limit = limit,
                      !.attempt = one, !.tokens = t]
    BY <1>3, <2>2, <2>3 DEF c
  <2>5. c \in Calls
    BY <2>1, <2>4 DEF Calls
  <2> QED BY <1>4, <2>2, <2>3, <2>4, <2>5 DEF Calls
<1>6. c # Free /\ CallOK(c)
  BY <1>4, <1>5 DEF CallOK
<1> QED BY <1>5, <1>6 DEF c

\* What an answer may make of a call that waits for one.
AnswersTo(c) == {Accepted(c, m) : m \in Models}
                  \union {Invalid(c, k) : k \in InvalidKind}
                  \union {HttpError(c, k) : k \in HttpKind}

LEMMA AnswerFacts ==
  ASSUME mode \in Modes, NEW c \in Calls, CallOK(c), c.state = "waiting",
         NEW d \in AnswersTo(c)
  PROVE  /\ d \in Calls /\ CallOK(d) /\ d.state # "free" /\ d.tasks = c.tasks
         /\ d.attempt = IF d.state = "waiting" THEN c.attempt + 1 ELSE c.attempt
<1>0. /\ c.attempt \in 0..3 /\ c.limit \in 0..3 /\ c.bad \in Nat /\ c.repairs \in Nat
      /\ c.attempt <= c.limit /\ c.truncated \in Nat /\ c.used \in BOOLEAN
      /\ c.tokens \in Nat /\ c.model \in MaybeModel /\ c.tasks \in SUBSET Tasks
      /\ c.error = "none"
  BY DEF Calls, CallOK
<1>1. CASE \E m \in Models : d = Accepted(c, m)
  <2>1. PICK m \in Models : d = Accepted(c, m)
    BY <1>1
  <2> QED BY <2>1, <1>0 DEF Accepted, Calls, CallOK, MaybeModel
<1>2. CASE \E k \in HttpKind : d = HttpError(c, k)
  <2>1. PICK k \in HttpKind : d = HttpError(c, k)
    BY <1>2
  <2> QED BY <2>1, <1>0 DEF HttpError, HttpKind, Calls, CallOK, Errors
<1>3. CASE \E k \in InvalidKind : d = Exhausted(c, k)
  <2>1. PICK k \in InvalidKind : d = Exhausted(c, k)
    BY <1>3
  <2>2. ErrorCode(k) \in Errors \ {"none"}
    BY DEF ErrorCode, Errors
  <2>3. PICK e \in Errors \ {"none"} : e = ErrorCode(k)
    BY <2>2
  <2>4. PICK n \in Nat : n = c.bad + 1
    BY <1>0
  <2>5. d = [c EXCEPT !.state = "failed", !.bad = n, !.error = e]
    BY <2>1, <2>3, <2>4 DEF Exhausted, Calls
  <2> QED BY <2>5, <1>0 DEF Calls, CallOK
<1>4. CASE /\ c.attempt # c.limit
           /\ \E r \in BOOLEAN : d = NextAttempt(c, r)
  <2>1. PICK r \in BOOLEAN : d = NextAttempt(c, r)
    BY <1>4
  <2>2. c.attempt + 1 \in 0..3 /\ c.attempt + 1 <= c.limit
    BY <1>0, <1>4
  <2>3. TruncationRetryMaxTokens \in Nat /\ MaxTokens[mode] \in Nat
    <3>1. MaxTokens[mode] * 2 \in Nat /\ RetryMaxTokens \in Nat /\ MaxTokens[mode] \in Nat
      BY ModelCallsAssumption
    <3> QED BY <3>1, MinIsLeast DEF TruncationRetryMaxTokens
  <2>4. PICK tr \in Nat : tr = IF r THEN c.attempt + 1 ELSE c.truncated
    BY <1>0
  <2>5. PICK us \in BOOLEAN : us = (c.used \/ r)
    BY <1>0
  <2>6. PICK re \in Nat : re = IF r THEN c.repairs ELSE c.repairs + 1
    BY <1>0
  <2>7. PICK to \in Nat : to = IF r THEN TruncationRetryMaxTokens ELSE MaxTokens[mode]
    BY <2>3
  <2>8. PICK n \in Nat : n = c.bad + 1
    BY <1>0
  <2>9. PICK at \in 0..3 : at = c.attempt + 1
    BY <2>2
  <2>10. d = [c EXCEPT !.attempt = at, !.bad = n, !.truncated = tr,
                       !.used = us, !.repairs = re, !.tokens = to]
    BY <2>1, <2>4, <2>5, <2>6, <2>7, <2>8, <2>9 DEF NextAttempt, Calls
  <2> QED BY <2>2, <2>9, <2>10, <1>0 DEF Calls, CallOK
<1>5. ASSUME NEW k \in InvalidKind, d = Invalid(c, k)
      PROVE  \/ d = Exhausted(c, k)
             \/ c.attempt # c.limit /\ \E r \in BOOLEAN : d = NextAttempt(c, r)
  BY <1>5, <1>0 DEF Invalid, Terminal, ShouldRetryTruncated
<1> QED BY <1>1, <1>2, <1>3, <1>4, <1>5 DEF AnswersTo

\* A sum over the slots.
LEMMA SumOverSlots ==
  ASSUME NEW f \in [Slot -> Int]
  PROVE  SumFunction(f) = f[1] + (IF 2 \in Slot THEN f[2] ELSE 0)
<1>1. CASE Concurrency = 1
  <2>1. Slot = {1}
    BY <1>1 DEF Slot
  <2>2. DOMAIN f = {1} /\ f[1] \in Int /\ 2 \notin Slot
    BY <2>1
  <2> QED BY <2>2, SumOfOne
<1>2. CASE Concurrency = 2
  <2>1. Slot = {1, 2}
    BY <1>2 DEF Slot
  <2>2. DOMAIN f = {1, 2} /\ f[1] \in Int /\ f[2] \in Int /\ 2 \in Slot
    BY <2>1
  <2> QED BY <2>2, SumOfTwo
<1> QED BY <1>1, <1>2, ConstantFacts

\* What the batches cost so far is a number, and an answer changes it by its own.
LEMMA RequestsFacts ==
  ASSUME NEW got \in [Batch -> Answers]
  PROVE  /\ Requests(got) \in Int /\ BadAnswers(got) \in Int
         /\ \A b \in Batch, a \in Answers :
              /\ Requests([got EXCEPT ![b] = a]) =
                   Requests(got) + a.requests - got[b].requests
              /\ BadAnswers([got EXCEPT ![b] = a]) =
                   BadAnswers(got) + a.bad - got[b].bad
<1> DEFINE R(g) == [b \in Batch |-> g[b].requests]
           B(g) == [b \in Batch |-> g[b].bad]
<1>1. ASSUME NEW g \in [Batch -> Answers] PROVE R(g) \in [Batch -> Int] /\ B(g) \in [Batch -> Int]
  BY DEF Answers
<1>2. ASSUME NEW b \in Batch, NEW a \in Answers
      PROVE  /\ Requests([got EXCEPT ![b] = a]) =
                  Requests(got) + a.requests - got[b].requests
             /\ BadAnswers([got EXCEPT ![b] = a]) = BadAnswers(got) + a.bad - got[b].bad
             /\ Requests(got) \in Int /\ BadAnswers(got) \in Int
  <2>1. PICK new \in [Batch -> Answers] : new = [got EXCEPT ![b] = a]
    OBVIOUS
  <2>2. /\ \A x \in Batch \ {b} : R(new)[x] = R(got)[x] /\ B(new)[x] = B(got)[x]
        /\ R(new)[b] = a.requests /\ R(got)[b] = got[b].requests
        /\ B(new)[b] = a.bad /\ B(got)[b] = got[b].bad
    BY <2>1
  <2>3. R(new) \in [Batch -> Int] /\ B(new) \in [Batch -> Int]
        /\ R(got) \in [Batch -> Int] /\ B(got) \in [Batch -> Int]
    BY <1>1
  <2> HIDE DEF R, B
  <2>4. ASSUME NEW f \in [Batch -> Int], NEW e \in [Batch -> Int],
               \A x \in Batch \ {b} : e[x] = f[x]
        PROVE  SumFunction(e) = SumFunction(f) + e[b] - f[b] /\ SumFunction(f) \in Int
    <3>1. IsFiniteSet(Batch)
      BY ConstantFacts
    <3> QED BY <2>4, <3>1, SumUpdate
  <2>5. /\ SumFunction(R(new)) = SumFunction(R(got)) + R(new)[b] - R(got)[b]
        /\ SumFunction(R(got)) \in Int
        /\ SumFunction(B(new)) = SumFunction(B(got)) + B(new)[b] - B(got)[b]
        /\ SumFunction(B(got)) \in Int
    BY <2>2, <2>3, <2>4
  <2> QED BY <2>1, <2>2, <2>5 DEF Requests, BadAnswers, R, B
<1>3. NoAnswer \in Answers
  BY DEF NoAnswer, Answers, MaybeModel
<1> QED BY <1>2, <1>3, ConstantFacts

------------------------------------------------------------------------------
(* What the actions do *)

LEMMA SendOneEffect ==
  ASSUME mode \in Modes, sent \in Int, after \in Nat, NEW tasks \in SUBSET Tasks,
         NEW limit \in 1..3, SendOne(tasks, limit)
  PROVE  /\ slots' = [i \in Slot |-> IF i = 1 THEN NewCall(tasks, limit) ELSE Free]
         /\ slots' \in [Slot -> Calls] /\ \A i \in Slot : CallOK(slots'[i])
         /\ slots'[1] = NewCall(tasks, limit)
         /\ sent' = sent + 1 /\ bad' = bad
         /\ after' = IF cancelled THEN after + 1 ELSE after
<1> DEFINE calls == [i \in Slot |-> IF i = 1 THEN NewCall(tasks, limit) ELSE Free]
<1>1. {i \in Slot : calls[i] # Free} = {1}
  BY NewCallFacts, ConstantFacts
<1>2. Cardinality({1}) = 1
  BY FS_Singleton
<1>3. slots' = calls /\ sent' = sent + 1 /\ bad' = bad
      /\ after' = IF cancelled THEN after + 1 ELSE after
  BY <1>1, <1>2 DEF SendOne, Send
<1>4. calls \in [Slot -> Calls] /\ \A i \in Slot : CallOK(calls[i])
  BY NewCallFacts, FreeIsACall
<1> QED BY <1>3, <1>4, ConstantFacts

InTheWave(i) == wave + i - 1 \in InWave
WaveCalls == [i \in Slot |-> IF InTheWave(i)
                             THEN NewCall(Batches[wave + i - 1], BatchAttempts) ELSE Free]

LEMMA WaveFacts ==
  ASSUME wave \in Batch
  PROVE  /\ \A i \in Slot : wave + i - 1 \in InWave <=> wave + i - 1 \in Batch
         /\ InTheWave(1)
         /\ \A b \in InWave : b - wave + 1 \in Slot /\ wave + (b - wave + 1) - 1 = b
         /\ \A b \in Batch : b < wave + Concurrency <=> b < wave \/ b \in InWave
BY ConstantFacts DEF InWave, InTheWave, Slot

LEMMA SendWaveEffect ==
  ASSUME TypeInv, SendWave
  PROVE  /\ slots' \in [Slot -> Calls]
         /\ \A i \in Slot :
              /\ CallOK(slots'[i]) /\ slots'[i].bad = 0
              /\ IF InTheWave(i)
                 THEN /\ slots'[i].state = "waiting" /\ slots'[i].attempt = 1
                      /\ slots'[i].tasks = Batches[wave + i - 1]
                 ELSE slots'[i] = Free
         /\ bad' = bad
         /\ \E n \in 1..Concurrency :
              /\ sent' = sent + n
              /\ after' = IF cancelled THEN after + n ELSE after
              /\ n = IF 2 \in Slot /\ InTheWave(2) THEN 2 ELSE 1
<1>0. wave \in Batch /\ mode \in Modes
  BY DEF TypeInv
<1>1. \A i \in Slot :
        /\ WaveCalls[i] \in Calls /\ CallOK(WaveCalls[i]) /\ WaveCalls[i].bad = 0
        /\ IF InTheWave(i)
           THEN /\ WaveCalls[i].state = "waiting" /\ WaveCalls[i].attempt = 1
                /\ WaveCalls[i].tasks = Batches[wave + i - 1] /\ WaveCalls[i] # Free
           ELSE WaveCalls[i] = Free
  <2> TAKE i \in Slot
  <2>1. CASE InTheWave(i)
    <3>1. PICK b \in Batch : b = wave + i - 1
      BY <2>1 DEF InTheWave, InWave
    <3>2. WaveCalls[i] = NewCall(Batches[b], BatchAttempts)
      BY <2>1, <3>1 DEF WaveCalls
    <3> QED BY <1>0, <2>1, <3>1, <3>2, NewCallFacts, ConstantFacts
  <2>2. CASE ~InTheWave(i)
    BY <2>2, FreeIsACall DEF WaveCalls
  <2> QED BY <2>1, <2>2
<1>2. {i \in Slot : WaveCalls[i] # Free} = {i \in Slot : InTheWave(i)}
  BY <1>1
<1> DEFINE n == Cardinality({i \in Slot : WaveCalls[i] # Free})
<1>3. n = (IF 2 \in Slot /\ InTheWave(2) THEN 2 ELSE 1) /\ n \in 1..Concurrency
  <2>1. CASE 2 \in Slot /\ InTheWave(2)
    <3>1. {i \in Slot : InTheWave(i)} = {1} \union {2}
      BY <2>1, <1>0, WaveFacts, ConstantFacts
    <3>2. IsFiniteSet({1}) /\ Cardinality({1}) = 1
      BY FS_Singleton
    <3>3. Cardinality({1} \union {2}) = 2
      BY <3>2, FS_AddElement
    <3>4. Concurrency = 2
      BY <2>1, ConstantFacts DEF Slot
    <3> QED BY <1>2, <2>1, <3>1, <3>3, <3>4
  <2>2. CASE ~(2 \in Slot /\ InTheWave(2))
    <3>1. 1 \in Slot /\ InTheWave(1) /\ Slot \subseteq {1, 2}
      BY <1>0, WaveFacts, ConstantFacts
    <3>2. \A i \in Slot : InTheWave(i) <=> i = 1
      BY <2>2, <3>1
    <3>3. {i \in Slot : InTheWave(i)} = {1}
      BY <3>1, <3>2
    <3>4. Cardinality({1}) = 1
      BY FS_Singleton
    <3>5. n = 1
      BY <1>2, <3>3, <3>4
    <3>6. 1 \in 1..Concurrency
      BY ConstantFacts
    <3> QED BY <2>2, <3>5, <3>6
  <2> QED BY <2>1, <2>2
<1>4. /\ slots' = WaveCalls /\ bad' = bad
      /\ sent' = sent + n /\ after' = IF cancelled THEN after + n ELSE after
  BY DEF SendWave, Send, WaveCalls, InTheWave
<1>5. WaveCalls \in [Slot -> Calls]
  BY <1>1 DEF WaveCalls
<1> HIDE DEF n
<1> QED BY <1>1, <1>3, <1>4, <1>5

\* An answer changes one slot, and the history as much as that slot.
LEMMA AnswerEffect ==
  ASSUME TypeInv, SlotInv, NEW i \in Slot, Answer(i)
  PROVE  \E d \in Calls :
           /\ CallOK(d) /\ d.state # "free" /\ d.tasks = slots[i].tasks
           /\ slots[i].state = "waiting" /\ slots[i] # Free
           /\ slots' = [slots EXCEPT ![i] = d]
           /\ sent' = sent + d.attempt - slots[i].attempt
           /\ bad' = bad + d.bad - slots[i].bad
           /\ UNCHANGED <<stageVars, envVars, after>>
<1>1. /\ mode \in Modes /\ slots[i] \in Calls /\ CallOK(slots[i]) /\ sent \in Int
      /\ slots[i].attempt \in Int
  BY DEF TypeInv, SlotInv, Calls
<1>2. slots[i].state = "waiting"
  BY DEF Answer
<1>3. PICK d \in AnswersTo(slots[i]) :
        /\ slots' = [slots EXCEPT ![i] = d]
        /\ sent' = IF d.state = "waiting" THEN sent + 1 ELSE sent
        /\ bad' = bad + d.bad - slots[i].bad
  BY DEF Answer, AnswersTo
<1>4. /\ d \in Calls /\ CallOK(d) /\ d.state # "free" /\ d.tasks = slots[i].tasks
      /\ d.attempt = IF d.state = "waiting" THEN slots[i].attempt + 1
                                            ELSE slots[i].attempt
  BY <1>1, <1>2, AnswerFacts
<1>5. sent' = sent + d.attempt - slots[i].attempt
  BY <1>1, <1>3, <1>4
<1>6. UNCHANGED <<stageVars, envVars, after>>
  BY DEF Answer
<1>7. slots[i] # Free
  BY <1>2, FreeIsACall
<1> QED BY <1>2, <1>3, <1>4, <1>5, <1>6, <1>7

\* What the failed calls of a wave cost.
LEMMA SumOfSome ==
  ASSUME NEW f \in [Slot -> Int], NEW S \in SUBSET Slot
  PROVE  SumFunction([i \in S |-> f[i]]) =
           (IF 1 \in S THEN f[1] ELSE 0) + (IF 2 \in S THEN f[2] ELSE 0)
<1>1. S \subseteq {1, 2} /\ \A i \in S : f[i] \in Int
  BY ConstantFacts
<1>2. PICK h : h = [i \in S |-> f[i]]
  OBVIOUS
<1>3. DOMAIN h = S /\ \A i \in S : h[i] = f[i]
  BY <1>2
<1>4. CASE S = {}
  BY <1>2, <1>3, <1>4, SumOfNone
<1>5. CASE S = {1}
  <2>1. DOMAIN h = {1} /\ h[1] = f[1] /\ h[1] \in Int
    BY <1>1, <1>3, <1>5
  <2>2. SumFunction(h) = h[1]
    BY <2>1, SumOfOne
  <2> QED BY <1>1, <1>2, <1>5, <2>1, <2>2
<1>6. CASE S = {2}
  <2>1. DOMAIN h = {2} /\ h[2] = f[2] /\ h[2] \in Int
    BY <1>1, <1>3, <1>6
  <2>2. SumFunction(h) = h[2]
    BY <2>1, SumOfOne
  <2> QED BY <1>1, <1>2, <1>6, <2>1, <2>2
<1>7. CASE S = {1, 2}
  <2>1. /\ DOMAIN h = {1, 2} /\ h[1] = f[1] /\ h[1] \in Int
        /\ h[2] = f[2] /\ h[2] \in Int /\ 1 # 2
    BY <1>1, <1>3, <1>7
  <2>2. SumFunction(h) = h[1] + h[2]
    BY <2>1, SumOfTwo
  <2> QED BY <1>1, <1>2, <1>7, <2>1, <2>2
<1>8. S = {} \/ S = {1} \/ S = {2} \/ S = {1, 2}
  BY <1>1
<1> QED BY <1>4, <1>5, <1>6, <1>7, <1>8

Given(i) == IF slots[i].state = "answered" THEN AnswerOf(slots[i]) ELSE NoAnswer
FailedSlots == {i \in Slot : slots[i].state = "failed"}

LEMMA GivenFacts ==
  ASSUME slots \in [Slot -> Calls], NEW i \in Slot
  PROVE  /\ Given(i) \in Answers
         /\ AnswerOf(slots[i]) = [tasks |-> slots[i].tasks, requests |-> slots[i].attempt,
                                  bad |-> slots[i].bad, model |-> slots[i].model]
         /\ slots[i].attempt \in Nat /\ slots[i].bad \in Nat
BY DEF Given, AnswerOf, NoAnswer, Answers, Calls, MaybeModel

LEMMA NoAnswerIsAnAnswer == NoAnswer \in Answers /\ NoAnswer.requests = 0 /\ NoAnswer.bad = 0
BY DEF NoAnswer, Answers, MaybeModel

\* The wave's calls end in answers and failures of its batches.
LEMMA GatherEffect ==
  ASSUME TypeInv, SlotInv, WaveInv, Gather
  PROVE  /\ answered' \in [Batch -> Answers] /\ failures' \in [Batch -> Errors]
         /\ \A b \in Batch :
              IF b \in InWave
              THEN IF failures'[b] = "none" THEN answered'[b].tasks = Batches[b]
                                            ELSE answered'[b] = NoAnswer
              ELSE answered'[b] = answered[b] /\ failures'[b] = failures[b]
         /\ \A b \in InWave : answered'[b] = Given(b - wave + 1)
         /\ lost' = [requests |-> lost.requests
                       + SumFunction([i \in FailedSlots |-> slots[i].attempt]),
                     bad |-> lost.bad + SumFunction([i \in FailedSlots |-> slots[i].bad])]
<1>0. /\ wave \in Batch /\ slots \in [Slot -> Calls] /\ answered \in [Batch -> Answers]
      /\ failures \in [Batch -> Errors] /\ pc = "gather" /\ Over
  BY DEF TypeInv, Gather
<1>1. \A b \in InWave : answered[b] = NoAnswer /\ b \in Batch
  BY <1>0, ConstantFacts DEF WaveInv, Untouched, InWave, Waves
<1>2. \A b \in InWave : /\ b - wave + 1 \in Slot
                        /\ slots[b - wave + 1].state # "free"
                        /\ slots[b - wave + 1].tasks = Batches[b]
  <2> TAKE b \in InWave
  <2>1. PICK i \in Slot : i = b - wave + 1 /\ wave + i - 1 = b
    BY <1>0, WaveFacts
  <2> QED BY <1>0, <2>1 DEF SlotInv
<1>3. /\ answered' = [b \in Batch |-> IF b \in InWave /\ CallOf(b).state = "answered"
                                      THEN AnswerOf(CallOf(b)) ELSE answered[b]]
      /\ failures' = [b \in Batch |-> IF b \in InWave THEN CallOf(b).error ELSE failures[b]]
  BY DEF Gather
<1>4. ASSUME NEW b \in InWave
      PROVE  /\ answered'[b] = Given(b - wave + 1) /\ answered'[b] \in Answers
             /\ failures'[b] \in Errors
             /\ IF failures'[b] = "none" THEN answered'[b].tasks = Batches[b]
                                         ELSE answered'[b] = NoAnswer
  <2>1. PICK i \in Slot : i = b - wave + 1
    BY <1>2
  <2>2. slots[i].state # "free" /\ slots[i].tasks = Batches[b] /\ CallOK(slots[i])
        /\ slots[i].state # "waiting" /\ slots[i] \in Calls
    BY <1>0, <1>2, <2>1 DEF Over, SlotInv
  <2>3. answered'[b] = IF slots[i].state = "answered" THEN AnswerOf(slots[i]) ELSE NoAnswer
    BY <1>1, <1>3, <2>1 DEF CallOf
  <2>4. failures'[b] = slots[i].error
    BY <1>1, <1>3, <2>1 DEF CallOf
  <2>5. slots[i].state \in {"answered", "failed"} /\ slots[i].error \in Errors
    BY <2>2 DEF Calls
  <2>6. AnswerOf(slots[i]).tasks = slots[i].tasks
    BY DEF AnswerOf
  <2> QED BY <1>0, <2>1, <2>2, <2>3, <2>4, <2>5, <2>6, GivenFacts DEF CallOK, Given
<1>5. \A b \in Batch \ InWave : answered'[b] = answered[b] /\ failures'[b] = failures[b]
  BY <1>3
<1>6. answered' \in [Batch -> Answers] /\ failures' \in [Batch -> Errors]
  <2>1. \A b \in Batch : answered'[b] \in Answers /\ failures'[b] \in Errors
    BY <1>0, <1>4, <1>5
  <2> QED BY <1>3, <2>1
<1>7. lost' = [requests |-> lost.requests
                 + SumFunction([i \in FailedSlots |-> slots[i].attempt]),
               bad |-> lost.bad + SumFunction([i \in FailedSlots |-> slots[i].bad])]
  BY DEF Gather, FailedSlots
<1> QED BY <1>4, <1>5, <1>6, <1>7

\* Nothing the wave spent is forgotten.
LEMMA GatherAccounts ==
  ASSUME TypeInv, SlotInv, WaveInv, Gather
  PROVE  /\ lost' \in [requests : Int, bad : Int]
         /\ Requests(answered') + lost'.requests =
              Requests(answered) + lost.requests
                + SumFunction([i \in Slot |-> slots[i].attempt])
         /\ BadAnswers(answered') + lost'.bad =
              BadAnswers(answered) + lost.bad + SumFunction([i \in Slot |-> slots[i].bad])
<1>0. /\ wave \in Batch /\ slots \in [Slot -> Calls] /\ answered \in [Batch -> Answers]
      /\ pc = "gather" /\ Over /\ lost \in [requests : Int, bad : Int]
  BY DEF TypeInv, Gather
<1>1. \A b \in InWave : answered[b] = NoAnswer /\ b \in Batch
  BY <1>0, ConstantFacts DEF WaveInv, Untouched, InWave, Waves
<1> DEFINE two == 2 \in Slot /\ InTheWave(2)
           first == [answered EXCEPT ![wave] = Given(1)]
<1>2. 1 \in Slot /\ wave \in InWave /\ Given(1) \in Answers
  BY <1>0, WaveFacts, ConstantFacts, GivenFacts DEF InTheWave
<1>3. first \in [Batch -> Answers] /\ answered[wave] = NoAnswer
  BY <1>0, <1>1, <1>2
<1>4. /\ Requests(first) = Requests(answered) + Given(1).requests
      /\ BadAnswers(first) = BadAnswers(answered) + Given(1).bad
      /\ Requests(answered) \in Int /\ BadAnswers(answered) \in Int
  <2>1. /\ Requests(first) = Requests(answered) + Given(1).requests - answered[wave].requests
        /\ BadAnswers(first) = BadAnswers(answered) + Given(1).bad - answered[wave].bad
        /\ Requests(answered) \in Int /\ BadAnswers(answered) \in Int
    BY <1>0, <1>2, RequestsFacts
  <2>2. Given(1).requests \in Int /\ Given(1).bad \in Int
    BY <1>2 DEF Answers
  <2> QED BY <1>3, <2>1, <2>2, NoAnswerIsAnAnswer
<1>5. /\ Requests(answered') = Requests(answered) + Given(1).requests
                                  + (IF 2 \in Slot THEN Given(2).requests ELSE 0)
      /\ BadAnswers(answered') = BadAnswers(answered) + Given(1).bad
                                  + (IF 2 \in Slot THEN Given(2).bad ELSE 0)
  <2>1. CASE two
    <3>1. wave + 1 \in InWave /\ wave + 1 # wave /\ 2 \in Slot
      BY <1>0, <2>1, ConstantFacts DEF InTheWave
    <3>2. PICK b \in Batch : b = wave + 1 /\ b \in InWave /\ b # wave
      BY <1>1, <3>1
    <3>3. Given(2) \in Answers /\ answered[b] = NoAnswer /\ first[b] = NoAnswer
      BY <1>0, <1>1, <1>3, <3>1, <3>2, GivenFacts
    <3>4. \A x \in InWave : x = wave \/ x = b
      BY <1>0, <3>2, ConstantFacts DEF InWave
    <3>5. answered' = [first EXCEPT ![b] = Given(2)]
      <4>1. answered'[wave] = Given(1) /\ answered'[b] = Given(2)
        <5>1. wave - wave + 1 = 1 /\ b - wave + 1 = 2
          BY <1>0, <3>2, ConstantFacts
        <5> QED BY <1>2, <3>2, <5>1, GatherEffect
      <4>2. \A x \in Batch : x # wave /\ x # b => answered'[x] = answered[x]
        BY <3>4, GatherEffect
      <4>3. answered' \in [Batch -> Answers]
        BY GatherEffect
      <4> QED BY <1>0, <3>2, <4>1, <4>2, <4>3
    <3>6. /\ Requests(answered') = Requests(first) + Given(2).requests - first[b].requests
          /\ BadAnswers(answered') = BadAnswers(first) + Given(2).bad - first[b].bad
          /\ Requests(first) \in Int /\ BadAnswers(first) \in Int
      BY <1>3, <3>2, <3>3, <3>5, RequestsFacts
    <3>7. Given(2).requests \in Int /\ Given(2).bad \in Int
      BY <3>3 DEF Answers
    <3> QED BY <1>4, <2>1, <3>3, <3>6, <3>7, NoAnswerIsAnAnswer
  <2>2. CASE ~two
    <3>1. \A x \in InWave : x = wave
      BY <1>0, <2>2, ConstantFacts DEF InWave, InTheWave, Slot
    <3>2. answered' = first
      <4>1. wave - wave + 1 = 1
        BY <1>0, ConstantFacts
      <4>2. answered'[wave] = Given(1) /\ answered' \in [Batch -> Answers]
        BY <1>2, <4>1, GatherEffect
      <4>3. \A x \in Batch : x # wave => answered'[x] = answered[x]
        BY <3>1, GatherEffect
      <4> QED BY <1>0, <4>2, <4>3
    <3>3. 2 \in Slot => Given(2) = NoAnswer
      <4>1. SUFFICES ASSUME 2 \in Slot PROVE slots[2].state = "free"
        BY DEF Given
      <4>2. slots[2] = Free
        BY <1>0, <2>2, <4>1 DEF SlotInv, InTheWave
      <4> QED BY <4>2, FreeIsACall
    <3>4. Given(1).requests \in Int /\ Given(1).bad \in Int
      BY <1>2 DEF Answers
    <3> QED BY <1>4, <3>2, <3>3, <3>4, NoAnswerIsAnAnswer
  <2> QED BY <2>1, <2>2
<1>6. ASSUME NEW i \in Slot
      PROVE  /\ slots[i].attempt = Given(i).requests
                                     + (IF i \in FailedSlots THEN slots[i].attempt ELSE 0)
             /\ slots[i].bad = Given(i).bad
                                 + (IF i \in FailedSlots THEN slots[i].bad ELSE 0)
             /\ slots[i].attempt \in Nat /\ slots[i].bad \in Nat
             /\ Given(i).requests \in Int /\ Given(i).bad \in Int
  <2>1. slots[i].attempt \in Nat /\ slots[i].bad \in Nat /\ slots[i] \in Calls
        /\ slots[i].state # "waiting" /\ (slots[i].state = "free" => slots[i] = Free)
    BY <1>0 DEF Calls, Over, SlotInv, CallOK
  <2>2. slots[i].state \in {"free", "answered", "failed"}
    BY <2>1 DEF Calls
  <2>3. AnswerOf(slots[i]).requests = slots[i].attempt /\ AnswerOf(slots[i]).bad = slots[i].bad
    BY DEF AnswerOf
  <2> QED BY <2>1, <2>2, <2>3, FreeIsACall, NoAnswerIsAnAnswer DEF Given, FailedSlots
<1> DEFINE at == [i \in Slot |-> slots[i].attempt]
           ba == [i \in Slot |-> slots[i].bad]
<1>7. /\ at \in [Slot -> Int] /\ ba \in [Slot -> Int] /\ FailedSlots \in SUBSET Slot
      /\ [i \in FailedSlots |-> slots[i].attempt] = [i \in FailedSlots |-> at[i]]
      /\ [i \in FailedSlots |-> slots[i].bad] = [i \in FailedSlots |-> ba[i]]
      /\ at[1] = slots[1].attempt /\ ba[1] = slots[1].bad
      /\ 2 \in Slot => at[2] = slots[2].attempt /\ ba[2] = slots[2].bad
  BY <1>2, <1>6 DEF FailedSlots
<1> HIDE DEF at, ba
<1>8. /\ SumFunction([i \in FailedSlots |-> slots[i].attempt]) =
           (IF 1 \in FailedSlots THEN at[1] ELSE 0) + (IF 2 \in FailedSlots THEN at[2] ELSE 0)
      /\ SumFunction([i \in FailedSlots |-> slots[i].bad]) =
           (IF 1 \in FailedSlots THEN ba[1] ELSE 0) + (IF 2 \in FailedSlots THEN ba[2] ELSE 0)
  BY <1>7, SumOfSome
<1>9. /\ SumFunction(at) = at[1] + (IF 2 \in Slot THEN at[2] ELSE 0)
      /\ SumFunction(ba) = ba[1] + (IF 2 \in Slot THEN ba[2] ELSE 0)
  BY <1>7, SumOverSlots
<1>10. 2 \notin Slot => 2 \notin FailedSlots
  BY <1>7
<1>11. lost'.requests = lost.requests + SumFunction([i \in FailedSlots |-> slots[i].attempt])
       /\ lost'.bad = lost.bad + SumFunction([i \in FailedSlots |-> slots[i].bad])
       /\ lost' = [requests |-> lost'.requests, bad |-> lost'.bad]
       /\ lost.requests \in Int /\ lost.bad \in Int
  BY <1>0, GatherEffect
<1>12. SumFunction([i \in FailedSlots |-> slots[i].attempt]) \in Int
       /\ SumFunction([i \in FailedSlots |-> slots[i].bad]) \in Int
  BY <1>2, <1>6, <1>7, <1>8, <1>10
<1>13. lost' \in [requests : Int, bad : Int]
  BY <1>11, <1>12
<1>14. /\ at[1] = Given(1).requests + (IF 1 \in FailedSlots THEN at[1] ELSE 0)
       /\ ba[1] = Given(1).bad + (IF 1 \in FailedSlots THEN ba[1] ELSE 0)
       /\ at[1] \in Int /\ ba[1] \in Int
       /\ Given(1).requests \in Int /\ Given(1).bad \in Int
  BY <1>2, <1>6, <1>7
<1>15. 2 \in Slot => /\ at[2] = Given(2).requests + (IF 2 \in FailedSlots THEN at[2] ELSE 0)
                     /\ ba[2] = Given(2).bad + (IF 2 \in FailedSlots THEN ba[2] ELSE 0)
                     /\ at[2] \in Int /\ ba[2] \in Int
                     /\ Given(2).requests \in Int /\ Given(2).bad \in Int
  BY <1>6, <1>7
<1>16. Requests(answered') + lost'.requests = Requests(answered) + lost.requests + SumFunction(at)
  <2>1. /\ Requests(answered') = Requests(answered) + Given(1).requests
                                  + (IF 2 \in Slot THEN Given(2).requests ELSE 0)
        /\ lost'.requests = lost.requests + ((IF 1 \in FailedSlots THEN at[1] ELSE 0)
                                          + (IF 2 \in FailedSlots THEN at[2] ELSE 0))
        /\ SumFunction(at) = at[1] + (IF 2 \in Slot THEN at[2] ELSE 0)
        /\ Requests(answered) \in Int /\ lost.requests \in Int
    BY <1>4, <1>5, <1>8, <1>9, <1>11
  <2>2. CASE 2 \in Slot
    BY <2>1, <2>2, <1>14, <1>15
  <2>3. CASE 2 \notin Slot
    BY <2>1, <2>3, <1>14, <1>10
  <2> QED BY <2>2, <2>3
<1>17. BadAnswers(answered') + lost'.bad = BadAnswers(answered) + lost.bad + SumFunction(ba)
  <2>1. /\ BadAnswers(answered') = BadAnswers(answered) + Given(1).bad
                                  + (IF 2 \in Slot THEN Given(2).bad ELSE 0)
        /\ lost'.bad = lost.bad + ((IF 1 \in FailedSlots THEN ba[1] ELSE 0)
                                          + (IF 2 \in FailedSlots THEN ba[2] ELSE 0))
        /\ SumFunction(ba) = ba[1] + (IF 2 \in Slot THEN ba[2] ELSE 0)
        /\ BadAnswers(answered) \in Int /\ lost.bad \in Int
    BY <1>4, <1>5, <1>8, <1>9, <1>11
  <2>2. CASE 2 \in Slot
    BY <2>1, <2>2, <1>14, <1>15
  <2>3. CASE 2 \notin Slot
    BY <2>1, <2>3, <1>14, <1>10
  <2> QED BY <2>2, <2>3
<1> QED BY <1>13, <1>16, <1>17 DEF at, ba

\* How a stage ends.
LEMMA EndFacts ==
  ASSUME NEW outcome \in {"cancelled", "raised"}, End(outcome)
  PROVE  pc' = "ended" /\ result' \in Results /\ result'.outcome = outcome
<1>0. NoResult \in Results
  BY DEF NoResult, Results, Outcomes
<1>1. PICK r \in Results : r = NoResult
  BY <1>0
<1>2. pc' = "ended" /\ result' = [r EXCEPT !.outcome = outcome]
  BY <1>1 DEF End, Ended
<1> QED BY <1>2 DEF Results, Outcomes

LEMMA FailFacts ==
  ASSUME NEW error, NEW exhausted \in BOOLEAN, NEW requests \in Int,
         Fail(error, exhausted, requests)
  PROVE  /\ pc' = "ended" /\ result' \in Results
         /\ result'.outcome = IF exhausted THEN "exhausted" ELSE "failed"
         /\ result'.requests = requests
<1>1. PICK r \in BOOLEAN : r = (Retryable(error) /\ ~exhausted)
  BY DEF Retryable
<1> QED BY <1>1 DEF Fail, Ended, Results, Outcomes

LEMMA FinishFacts ==
  ASSUME NEW got \in [Batch -> Answers], lost \in [requests : Int, bad : Int], Finish(got)
  PROVE  /\ pc' = "ended" /\ result' \in Results
         /\ result'.outcome \in {"done", "raised"}
         /\ result'.outcome = "done" =>
              /\ result'.requests = Requests(got) + lost.requests
              /\ result'.bad = BadAnswers(got) + lost.bad
<1>1. Requests(got) + lost.requests \in Int /\ BadAnswers(got) + lost.bad \in Int
  BY RequestsFacts
<1>2. CASE SameModel(got)
  <2>1. PICK r \in Int, n \in Int : /\ r = Requests(got) + lost.requests
                                    /\ n = BadAnswers(got) + lost.bad
    BY <1>1
  <2>2. pc' = "ended"
        /\ result' = [outcome |-> "done", retryable |-> FALSE, requests |-> r, bad |-> n]
    BY <1>2, <2>1 DEF Finish, Ended
  <2> QED BY <2>1, <2>2 DEF Results, Outcomes
<1>3. CASE ~SameModel(got)
  BY <1>3, EndFacts DEF Finish
<1> QED BY <1>2, <1>3

\* The first failed batch, and the next one.
LEMMA NextFailed ==
  ASSUME TypeInv, NEW S \in SUBSET Failing(failures), S # {}
  PROVE  Min(S) \in Batch /\ Min(S) \in S /\ \A b \in S : Min(S) <= b
<1>1. S \in SUBSET Nat /\ S \subseteq Batch
  BY ConstantFacts DEF Failing
<1> QED BY <1>1, MinIsLeast

LEMMA RequestsSoFarFacts ==
  ASSUME TypeInv
  PROVE  RequestsSoFar \in Int
BY RequestsFacts DEF TypeInv, RequestsSoFar, Halves

LEMMA GiveUpEffect ==
  ASSUME TypeInv, GiveUp
  PROVE  /\ pc' = "ended" /\ result' \in Results /\ result'.outcome = "exhausted"
         /\ result'.requests = RequestsSoFar
BY FailFacts, RequestsSoFarFacts DEF GiveUp

LEMMA GiveUpWithEffect ==
  ASSUME TypeInv, NEW c \in Calls, GiveUpWith(c)
  PROVE  /\ pc' = "ended" /\ result' \in Results /\ result'.outcome = "exhausted"
         /\ result'.requests = RequestsSoFar + c.attempt
<1>1. RequestsSoFar + c.attempt \in Int
  BY RequestsSoFarFacts DEF Calls
<1> QED BY <1>1, FailFacts DEF GiveUpWith

\* The recovery goes on to the next failed batch, or it is over.
LEMMA RecoveredEffect ==
  ASSUME TypeInv, current \in Batch, NEW a \in Answers, Recovered(a),
         lost' = lost, failures' = failures
  PROVE  /\ answered' = [answered EXCEPT ![current] = a]
         /\ answered' \in [Batch -> Answers]
         /\ \/ /\ pc' = "before pause" /\ result' = result
               /\ current' \in Failing(failures) /\ current' > current
               /\ \A b \in Failing(failures) : b > current => current' <= b
            \/ /\ \A b \in Failing(failures) : b <= current
               /\ current' = current
               /\ pc' = "ended" /\ result' \in Results
               /\ result'.outcome \in {"done", "raised"}
               /\ result'.outcome = "done" =>
                    /\ result'.requests = Requests(answered') + lost.requests
                    /\ result'.bad = BadAnswers(answered') + lost.bad
<1>1. /\ answered' = [answered EXCEPT ![current] = a]
      /\ answered' \in [Batch -> Answers]
  BY DEF Recovered, TypeInv
<1>2. PICK got \in [Batch -> Answers] : got = answered'
  BY <1>1
<1>3. Resume(got)
  BY <1>2 DEF Recovered
<1> DEFINE rest == {b \in Failing(failures) : b > current}
<1>4. CASE rest = {}
  <2>1. Finish(got) /\ current' = current
    BY <1>3, <1>4 DEF Resume
  <2>2. \A b \in Failing(failures) : b <= current
    BY <1>4, ConstantFacts DEF Failing
  <2> QED BY <1>1, <1>2, <2>1, <2>2, FinishFacts DEF TypeInv
<1>5. CASE rest # {}
  <2>1. current' = Min(rest) /\ pc' = "before pause" /\ result' = result
    BY <1>3, <1>5 DEF Resume
  <2>2. Min(rest) \in rest /\ \A b \in rest : Min(rest) <= b
    BY <1>5, NextFailed
  <2> QED BY <1>1, <2>1, <2>2
<1> QED BY <1>4, <1>5

LEMMA RecoveryCallEffect ==
  ASSUME TypeInv, NEW tasks \in SUBSET Tasks, NEW next \in {"replaying", "halving"},
         RecoveryCall(tasks, next)
  PROVE  \/ /\ pc' = next /\ result' = result
            /\ recovery' = recovery + 1 /\ recovery < MaxRecoveryCalls
            /\ SendOne(tasks, BatchAttempts)
         \/ /\ pc' = "ended" /\ result' \in Results /\ result'.outcome = "exhausted"
            /\ result'.requests = RequestsSoFar
            /\ UNCHANGED <<recovery, slots, history>>
BY GiveUpEffect DEF RecoveryCall, WithinBudget

------------------------------------------------------------------------------
(* One step, conjunct by conjunct *)

LEMMA SomeAction ==
  ASSUME [Next]_vars
  PROVE  \/ Call \/ CallEnds \/ CheckWave \/ SendWave \/ Gather \/ WavesOver
         \/ Boundary \/ Pause \/ Replay \/ ReplayEnds \/ Half \/ HalfEnds
         \/ \E i \in Slot : Answer(i)
         \/ RequestCancellation \/ DeadlinePasses \/ UNCHANGED vars
BY DEF Next, Stage

LEMMA TypeFacts ==
  ASSUME TypeInv
  PROVE  /\ mode \in Modes /\ wave \in Batch /\ sent \in Int /\ bad \in Int /\ after \in Nat
         /\ lost.requests \in Int /\ lost.bad \in Int /\ recovery \in Nat
         /\ half.requests \in Nat /\ half.bad \in Nat
         /\ \A i \in Slot : /\ slots[i] \in Calls /\ slots[i].attempt \in Nat
                              /\ slots[i].bad \in Nat
         /\ lost \in [requests : Int, bad : Int] /\ answered \in [Batch -> Answers]
         /\ result \in Results /\ pc \in Places /\ half \in Halves
<1>1. \A c \in Calls : c.attempt \in Nat /\ c.bad \in Nat
  BY DEF Calls
<1>2. lost \in [requests : Int, bad : Int] /\ half \in Halves
      /\ \A i \in Slot : slots[i] \in Calls
  BY DEF TypeInv
<1>3. recovery \in Nat
  BY ModelCallsAssumption DEF TypeInv
<1> QED BY <1>1, <1>2, <1>3 DEF TypeInv, Halves

\* What a failed call adds to the accounts.
LEMMA LoseEffect ==
  ASSUME TypeInv, NEW c \in Calls, Lose(c)
  PROVE  /\ lost' \in [requests : Int, bad : Int]
         /\ lost'.requests = lost.requests + c.attempt
         /\ lost'.bad = lost.bad + c.bad
<1>1. PICK r \in Int : r = lost.requests + c.attempt
  BY TypeFacts DEF Calls
<1>2. PICK n \in Int : n = lost.bad + c.bad
  BY TypeFacts DEF Calls
<1> QED BY <1>1, <1>2 DEF Lose

LEMMA TypeStep ==
  ASSUME IInv, [Next]_vars
  PROVE  TypeInv'
<1> USE DEF IInv, Places
<1>0. TypeInv /\ SlotInv /\ RecoveryInv
  OBVIOUS
<1>a. sent \in Int /\ bad \in Int /\ after \in Nat /\ recovery \in Nat
  BY <1>0, TypeFacts
<1>b. wave \in Batch /\ wave \in Nat \ {0} /\ Batch = 1..Len(Batches)
      /\ Len(Batches) \in Nat /\ Concurrency \in Nat
  <2>1. wave \in Batch
    BY <1>0, TypeFacts
  <2>2. Batch = 1..Len(Batches) /\ Len(Batches) \in Nat /\ Concurrency \in {1, 2}
    BY ConstantFacts
  <2> QED BY <2>1, <2>2
<1>c. ASSUME NEW i \in Slot PROVE slots[i].attempt \in Int /\ slots[i].bad \in Int
  <2>1. slots[i].attempt \in Nat /\ slots[i].bad \in Nat
    BY <1>0, TypeFacts
  <2> QED BY <2>1
<1>1. CASE Call
  <2>1. SendOne({}, IF mode = "repaired" THEN 1 ELSE 3)
    BY <1>1 DEF Call
  <2>2. /\ slots' \in [Slot -> Calls] /\ sent' \in Int /\ bad' \in Int /\ after' \in Nat
    <3>1. {} \in SUBSET Tasks /\ (IF mode = "repaired" THEN 1 ELSE 3) \in 1..3
      OBVIOUS
    <3>2. PICK n \in 1..3 : n = IF mode = "repaired" THEN 1 ELSE 3
      BY <3>1
    <3>3. /\ slots' \in [Slot -> Calls] /\ sent' = sent + 1 /\ bad' = bad
          /\ after' = IF cancelled THEN after + 1 ELSE after
      BY <2>1, <3>1, <3>2, SendOneEffect, TypeFacts
    <3> QED BY <1>a, <3>3
  <2> QED BY <1>1, <2>2 DEF Call, TypeInv, envVars
<1>2. CASE CallEnds
  <2>1. slots[1] \in Calls
    BY ConstantFacts DEF TypeInv
  <2>2. PICK r \in BOOLEAN : r = Retryable(slots[1].error)
    BY DEF Retryable
  <2>3. slots[1].attempt \in Int /\ slots[1].bad \in Int
    BY <2>1 DEF Calls
  <2>4. result' \in Results
    BY <1>2, <2>2, <2>3 DEF CallEnds, Ended, Results, Outcomes
  <2> QED BY <1>2, <2>4 DEF CallEnds, Ended, TypeInv, envVars, history
<1>3. CASE CheckWave
  <2>1. result' \in Results /\ pc' \in {"send", "ended"}
    BY <1>3, EndFacts DEF CheckWave, TypeInv
  <2> QED BY <1>3, <2>1 DEF CheckWave, TypeInv, envVars, history
<1>4. CASE SendWave
  <2>1. /\ slots' \in [Slot -> Calls] /\ sent' \in Int /\ bad' \in Int /\ after' \in Nat
    <3>1. /\ slots' \in [Slot -> Calls] /\ bad' = bad
          /\ \E n \in 1..Concurrency :
               /\ sent' = sent + n /\ after' = IF cancelled THEN after + n ELSE after
      BY <1>4, SendWaveEffect
    <3> QED BY <1>a, <1>b, <3>1
  <2> QED BY <1>4, <2>1 DEF SendWave, TypeInv, envVars
<1>5. CASE Gather
  <2>1. /\ answered' \in [Batch -> Answers] /\ failures' \in [Batch -> Errors]
        /\ lost' \in [requests : Int, bad : Int]
    BY <1>5, GatherEffect, GatherAccounts
  <2>2. slots' \in [Slot -> Calls]
    BY <1>5, FreeIsACall DEF Gather
  <2>3. /\ pc' \in {"wave", "waves over"}
        /\ wave' = wave \/ (wave' = wave + Concurrency /\ wave' <= Len(Batches))
    BY <1>5 DEF Gather, GoOn
  <2>4. wave' \in Batch
    <3>1. CASE wave' = wave
      BY <3>1, <1>b
    <3>2. CASE wave' = wave + Concurrency /\ wave' <= Len(Batches)
      <4>1. wave + Concurrency \in 1..Len(Batches)
        BY <3>2, <1>b
      <4> QED BY <3>2, <4>1, <1>b
    <3> QED BY <2>3, <3>1, <3>2
  <2> QED BY <1>5, <2>1, <2>2, <2>3, <2>4 DEF Gather, TypeInv, envVars, history
<1>6. CASE WavesOver
  <2>1. result' \in Results /\ pc' \in {"before pause", "ended"}
    <3>1. CASE Finish(answered)
      BY <3>1, FinishFacts, TypeFacts
    <3>2. CASE Fail(failures[First(failures)], FALSE, 0)
      <4>1. FALSE \in BOOLEAN /\ 0 \in Int
        OBVIOUS
      <4> QED BY <3>2, <4>1, FailFacts
    <3> QED BY <1>6, <3>1, <3>2, TypeFacts DEF WavesOver
  <2>2. current' \in Batch \union {None}
    <3>1. CASE Failing(failures) # {}
      <4>1. Min(Failing(failures)) \in Batch
        BY <3>1, NextFailed
      <4> QED BY <1>6, <3>1, <4>1 DEF WavesOver, First, TypeInv, Fail, Ended
    <3>2. CASE Failing(failures) = {}
      BY <1>6, <3>2 DEF WavesOver, TypeInv
    <3> QED BY <3>1, <3>2
  <2> QED BY <1>6, <2>1, <2>2 DEF WavesOver, TypeInv, envVars, history
<1>7. CASE Boundary
  <2>1. result' \in Results /\ pc' \in {"pause", "replay", "half", "ended"}
    <3>1. CASE cancelled
      BY <1>7, <3>1, EndFacts DEF Boundary
    <3>2. CASE ~cancelled
      BY <1>7, <3>2 DEF Boundary, AfterBoundary, TypeInv
    <3> QED BY <3>1, <3>2
  <2> QED BY <1>7, <2>1 DEF Boundary, TypeInv, envVars, history
<1>8. CASE Pause
  <2>1. result' \in Results /\ pc' \in {"after pause", "ended"}
    BY <1>8, GiveUpEffect DEF Pause, TypeInv
  <2> QED BY <1>8, <2>1 DEF Pause, Keep, TypeInv, envVars, history
<1>9. ASSUME NEW tasks \in SUBSET Tasks, NEW next \in {"replaying", "halving"},
             RecoveryCall(tasks, next)
      PROVE  /\ slots' \in [Slot -> Calls] /\ sent' \in Int /\ bad' \in Int /\ after' \in Nat
             /\ recovery' \in 0..MaxRecoveryCalls /\ result' \in Results
             /\ pc' \in {"replaying", "halving", "ended"}
  <2>1. CASE /\ pc' = next /\ result' = result
             /\ recovery' = recovery + 1 /\ recovery < MaxRecoveryCalls
             /\ SendOne(tasks, BatchAttempts)
    <3>1. /\ slots' \in [Slot -> Calls] /\ sent' = sent + 1 /\ bad' = bad
          /\ after' = IF cancelled THEN after + 1 ELSE after
      BY <2>1, SendOneEffect, ConstantFacts DEF TypeInv
    <3>2. recovery' \in 0..MaxRecoveryCalls
      BY <2>1, <1>a, ModelCallsAssumption
    <3>3. result \in Results
      BY <1>0, TypeFacts
    <3> QED BY <1>a, <2>1, <3>1, <3>2, <3>3
  <2>2. CASE /\ pc' = "ended" /\ result' \in Results
             /\ UNCHANGED <<recovery, slots, history>>
    BY <2>2 DEF TypeInv, history
  <2> QED BY <1>9, <2>1, <2>2, RecoveryCallEffect
<1>10. CASE Replay
  <2>1. current \in Batch
    BY <1>10 DEF RecoveryInv, Replay, Recovering, Failing
  <2>2. Batches[current] \in SUBSET Tasks
    BY <2>1, ConstantFacts
  <2>3. RecoveryCall(Batches[current], "replaying")
    BY <1>10 DEF Replay
  <2> QED BY <1>9, <1>10, <2>2, <2>3 DEF Replay, Keep, TypeInv, envVars
<1>11. CASE ReplayEnds
  <2>0. /\ current \in Batch /\ slots[1] \in Calls /\ CallOK(slots[1])
        /\ Batches[current] \in SUBSET Tasks
    BY <1>11, ConstantFacts DEF RecoveryInv, ReplayEnds, Recovering, Failing, TypeInv, SlotInv
  <2>1. slots' \in [Slot -> Calls]
    BY <1>11, FreeIsACall DEF ReplayEnds
  <2>2. CASE slots[1].state = "answered"
    <3>1. Recovered(AnswerOf(slots[1])) /\ UNCHANGED <<failures, half, lost>>
      BY <1>11, <2>2 DEF ReplayEnds
    <3>2. AnswerOf(slots[1]) \in Answers
      BY <2>0 DEF AnswerOf, Answers, Calls
    <3>3. /\ answered' \in [Batch -> Answers] /\ current' \in Batch
          /\ pc' \in {"before pause", "ended"} /\ result' \in Results
      BY <2>0, <3>1, <3>2, RecoveredEffect DEF Failing, TypeInv
    <3> QED BY <1>11, <2>1, <3>1, <3>3 DEF ReplayEnds, TypeInv, envVars, history
  <2>3. CASE slots[1].state = "failed"
    <3>1. /\ Lose(slots[1]) /\ failures' = [failures EXCEPT ![current] = slots[1].error]
          /\ UNCHANGED <<answered, current>>
          /\ IF MaySplit(slots[1])
             THEN /\ half' = [NoHalf EXCEPT !.next = Batches[current]]
                  /\ pc' = "before half" /\ UNCHANGED result
             ELSE GiveUpWith(slots[1]) /\ UNCHANGED half
      BY <1>11, <2>3 DEF ReplayEnds
    <3>2. slots[1].attempt \in Int /\ slots[1].bad \in Int /\ slots[1].error \in Errors
      BY <2>0 DEF Calls
    <3>3. lost' \in [requests : Int, bad : Int] /\ failures' \in [Batch -> Errors]
      BY <2>0, <3>1, <3>2, LoseEffect DEF TypeInv
    <3>4. /\ half' \in Halves /\ pc' \in {"before half", "ended"} /\ result' \in Results
      <4>1. NoHalf \in Halves
        BY DEF NoHalf, Halves
      <4>2. [NoHalf EXCEPT !.next = Batches[current]] \in Halves
        BY <2>0, <4>1 DEF Halves
      <4> QED BY <2>0, <3>1, <4>2, GiveUpWithEffect DEF TypeInv
    <3> QED BY <1>11, <2>1, <3>1, <3>3, <3>4 DEF ReplayEnds, TypeInv, envVars, history
  <2> QED BY <1>11, <2>2, <2>3 DEF ReplayEnds
<1>12. CASE Half
  <2>1. PICK t \in half.next :
          /\ RecoveryCall({t}, "halving")
          /\ half' = IF pc' = "halving" THEN [half EXCEPT !.next = @ \ {t}] ELSE half
    BY <1>12 DEF Half
  <2>2. half \in Halves /\ {t} \in SUBSET Tasks
    BY DEF TypeInv, Halves
  <2>3. half' \in Halves
    BY <2>1, <2>2 DEF Halves
  <2> QED BY <1>9, <1>12, <2>1, <2>2, <2>3 DEF Half, Keep, TypeInv, envVars
<1>13. CASE HalfEnds
  <2>0. /\ current \in Batch /\ slots[1] \in Calls /\ half \in Halves
    BY <1>13, ConstantFacts DEF RecoveryInv, HalfEnds, Recovering, Halving, Failing, TypeInv
  <2>1. slots' \in [Slot -> Calls]
    BY <1>13, FreeIsACall DEF HalfEnds
  <2> DEFINE h == AddHalf(slots[1])
  <2>2. h \in Halves
    <3>1. PICK m \in SUBSET MaybeModel : m = half.models \union {slots[1].model}
      BY <2>0 DEF Halves, Calls
    <3>2. PICK ts \in SUBSET Tasks : ts = half.tasks \union slots[1].tasks
      BY <2>0 DEF Halves, Calls
    <3>3. PICK r \in Nat, n \in Nat : r = half.requests + slots[1].attempt
                                      /\ n = half.bad + slots[1].bad
      <4>1. /\ half.requests \in Nat /\ half.bad \in Nat
            /\ slots[1].attempt \in Nat /\ slots[1].bad \in Nat
        BY <1>0, TypeFacts, ConstantFacts
      <4> QED BY <4>1
    <3>4. h = [half EXCEPT !.tasks = ts, !.requests = r, !.bad = n, !.models = m]
      BY <3>1, <3>2, <3>3 DEF AddHalf
    <3> QED BY <2>0, <3>4 DEF Halves
  <2> HIDE DEF h
  <2>3. CASE slots[1].state = "answered" /\ h.next # {}
    BY <1>13, <2>1, <2>2, <2>3 DEF HalfEnds, TypeInv, envVars, history, h
  <2>4. CASE slots[1].state = "answered" /\ h.next = {}
    <3>1. half' = NoHalf /\ UNCHANGED lost /\ failures' = failures
          /\ IF Cardinality(h.models) = 1 THEN Recovered(Merged(h))
             ELSE End("raised") /\ UNCHANGED <<answered, current>>
      BY <1>13, <2>4 DEF HalfEnds, h
    <3>2. NoHalf \in Halves
      BY DEF NoHalf, Halves
    <3>3. CASE Cardinality(h.models) = 1
      <4>1. h.models # {}
        BY <3>3, FS_EmptySet
      <4>2. PICK m \in MaybeModel : m = CHOOSE x \in h.models : TRUE
        BY <2>2, <4>1 DEF Halves
      <4>3. Merged(h) \in Answers
        BY <2>2, <4>2 DEF Merged, Answers, Halves
      <4>4. /\ answered' \in [Batch -> Answers] /\ current' \in Batch
            /\ pc' \in {"before pause", "ended"} /\ result' \in Results
        BY <2>0, <3>1, <3>3, <4>3, RecoveredEffect DEF Failing, TypeInv
      <4> QED BY <1>13, <2>1, <3>1, <3>2, <4>4 DEF HalfEnds, TypeInv, envVars, history
    <3>4. CASE Cardinality(h.models) # 1
      <4>1. result' \in Results /\ pc' = "ended" /\ UNCHANGED <<answered, current>>
        BY <3>1, <3>4, EndFacts
      <4> QED BY <1>13, <2>1, <3>1, <3>2, <4>1 DEF HalfEnds, TypeInv, envVars, history
    <3> QED BY <3>3, <3>4
  <2>5. CASE slots[1].state = "failed"
    <3>1. Lose(slots[1]) /\ GiveUpWith(slots[1]) /\ UNCHANGED <<half, answered, current>>
      BY <1>13, <2>5 DEF HalfEnds
    <3>2. slots[1].attempt \in Int /\ slots[1].bad \in Int
      BY <2>0 DEF Calls
    <3>3. lost' \in [requests : Int, bad : Int]
      BY <2>0, <3>1, LoseEffect
    <3>4. result' \in Results /\ pc' = "ended"
      BY <2>0, <3>1, GiveUpWithEffect
    <3> QED BY <1>13, <2>1, <3>1, <3>3, <3>4 DEF HalfEnds, TypeInv, envVars, history
  <2> QED BY <1>13, <2>3, <2>4, <2>5 DEF HalfEnds, h
<1>14. ASSUME NEW i \in Slot, Answer(i) PROVE TypeInv'
  <2>1. PICK d \in Calls :
           /\ slots' = [slots EXCEPT ![i] = d]
           /\ sent' = sent + d.attempt - slots[i].attempt
           /\ bad' = bad + d.bad - slots[i].bad
           /\ UNCHANGED <<stageVars, envVars, after>>
    BY <1>14, AnswerEffect
  <2>2. /\ d.attempt \in Int /\ d.bad \in Int
    BY DEF Calls
  <2>3. sent' \in Int /\ bad' \in Int
    BY <1>a, <1>c, <2>1, <2>2
  <2>4. slots' \in [Slot -> Calls]
    BY <2>1 DEF TypeInv
  <2> QED BY <2>1, <2>3, <2>4 DEF TypeInv, stageVars, envVars
<1>15. CASE RequestCancellation
  BY <1>15 DEF RequestCancellation, TypeInv, stageVars, history
<1>16. CASE DeadlinePasses
  BY <1>16 DEF DeadlinePasses, TypeInv, stageVars, history
<1>17. CASE UNCHANGED vars
  BY <1>17 DEF vars, TypeInv, stageVars, envVars, history
<1> QED BY <1>1, <1>2, <1>3, <1>4, <1>5, <1>6, <1>7, <1>8, <1>10, <1>11, <1>12,
           <1>13, <1>14, <1>15, <1>16, <1>17, SomeAction

\* The slots: after each action they are what the place of the stage says.
LEMMA SlotStep ==
  ASSUME IInv, [Next]_vars
  PROVE  SlotInv'
<1>0. TypeInv /\ SlotInv /\ RecoveryInv
  BY DEF IInv
<1>1. ASSUME slots' = slots, pc \notin InFlight \union {"ended"},
             pc' \notin InFlight
      PROVE  SlotInv'
  <2>1. \A i \in Slot : slots[i] = Free /\ CallOK(slots[i])
    BY <1>0, <1>1 DEF SlotInv
  <2> QED BY <1>1, <2>1, FreeIsACall DEF SlotInv, Over, InFlight
<1>2. ASSUME slots' = [i \in Slot |-> Free], pc' \notin InFlight
      PROVE  SlotInv'
  BY <1>2, FreeIsACall DEF SlotInv, Over, InFlight
<1>3. ASSUME NEW tasks \in SUBSET Tasks, NEW limit \in 1..3, SendOne(tasks, limit),
             pc' \in InFlight \ {"gather"}
      PROVE  SlotInv'
  <2>1. /\ slots' = [i \in Slot |-> IF i = 1 THEN NewCall(tasks, limit) ELSE Free]
        /\ \A i \in Slot : CallOK(slots'[i])
    BY <1>0, <1>3, SendOneEffect, TypeFacts
  <2> QED BY <1>3, <2>1 DEF SlotInv, InFlight
<1>4. ASSUME NEW tasks \in SUBSET Tasks, NEW next \in {"replaying", "halving"},
             RecoveryCall(tasks, next), pc \notin InFlight \union {"ended"}
      PROVE  SlotInv'
  <2>1. CASE pc' = next /\ SendOne(tasks, BatchAttempts)
    BY <1>3, <2>1, ConstantFacts DEF InFlight
  <2>2. CASE pc' = "ended" /\ UNCHANGED <<recovery, slots, history>>
    BY <1>1, <1>4, <2>2 DEF InFlight
  <2> QED BY <1>0, <1>4, <2>1, <2>2, RecoveryCallEffect
<1>5. CASE Call
  <2>1. {} \in SUBSET Tasks /\ 1 \in 1..3 /\ 3 \in 1..3
    OBVIOUS
  <2>2. PICK n \in 1..3 : SendOne({}, n)
    BY <1>5, <2>1 DEF Call
  <2>3. pc' \in InFlight \ {"gather"}
    BY <1>5 DEF Call, InFlight
  <2> QED BY <1>3, <2>2, <2>3
<1>6. CASE CallEnds
  BY <1>0, <1>6 DEF CallEnds, Ended, SlotInv, InFlight, Over
<1>7. CASE CheckWave
  <2>1. pc' \in {"send", "ended"} /\ slots' = slots
    BY <1>7 DEF CheckWave, End, Ended
  <2> QED BY <1>1, <1>7, <2>1 DEF CheckWave, InFlight
<1>8. CASE SendWave
  <2>1. \A i \in Slot : /\ CallOK(slots'[i])
                        /\ IF InTheWave(i)
                           THEN /\ slots'[i].state = "waiting"
                                /\ slots'[i].tasks = Batches[wave + i - 1]
                           ELSE slots'[i] = Free
    BY <1>0, <1>8, SendWaveEffect
  <2>2. wave' = wave /\ pc' = "gather"
    BY <1>8 DEF SendWave
  <2> QED BY <2>1, <2>2 DEF SlotInv, InFlight, InTheWave, InWave
<1>9. CASE Gather
  BY <1>2, <1>9 DEF Gather, InFlight
<1>10. CASE WavesOver
  <2>1. pc' \in {"before pause", "ended"} /\ slots' = slots
    BY <1>10 DEF WavesOver, Finish, Fail, End, Ended
  <2> QED BY <1>1, <1>10, <2>1 DEF WavesOver, InFlight
<1>11. CASE Boundary
  <2>1. pc' \in {"pause", "replay", "half", "ended"} /\ slots' = slots
        /\ pc \in {"before pause", "after pause", "before half"}
    BY <1>11 DEF Boundary, AfterBoundary, End, Ended
  <2> QED BY <1>1, <2>1 DEF InFlight
<1>12. CASE Pause
  <2>1. pc' \in {"after pause", "ended"} /\ slots' = slots /\ pc = "pause"
    BY <1>12 DEF Pause, GiveUp, Fail, Ended
  <2> QED BY <1>1, <2>1 DEF InFlight
<1>13. CASE Replay
  <2>1. Batches[current] \in SUBSET Tasks /\ pc = "replay"
    BY <1>0, <1>13, ConstantFacts DEF RecoveryInv, Replay, Recovering, Failing
  <2> QED BY <1>4, <1>13, <2>1 DEF Replay, InFlight
<1>14. CASE ReplayEnds
  <2>1. slots' = [i \in Slot |-> Free] /\ pc' \notin InFlight
    BY <1>14 DEF ReplayEnds, Recovered, Resume, Finish, End, Ended, GiveUpWith, Fail, InFlight
  <2> QED BY <1>2, <2>1
<1>15. CASE Half
  <2>1. PICK t \in half.next : RecoveryCall({t}, "halving")
    BY <1>15 DEF Half
  <2>2. {t} \in SUBSET Tasks /\ pc = "half"
    BY <1>0, <1>15, TypeFacts DEF Halves, Half
  <2> QED BY <1>4, <2>1, <2>2 DEF InFlight
<1>16. CASE HalfEnds
  <2>1. slots' = [i \in Slot |-> Free] /\ pc' \notin InFlight
    BY <1>16 DEF HalfEnds, Recovered, Resume, Finish, End, Ended, GiveUpWith, Fail, InFlight
  <2> QED BY <1>2, <2>1
<1>17. ASSUME NEW i \in Slot, Answer(i) PROVE SlotInv'
  <2>1. PICK d \in Calls :
           /\ CallOK(d) /\ d.state # "free" /\ d.tasks = slots[i].tasks
           /\ slots[i].state = "waiting" /\ slots[i] # Free
           /\ slots' = [slots EXCEPT ![i] = d]
           /\ UNCHANGED <<stageVars, envVars, after>>
    BY <1>0, <1>17, AnswerEffect
  <2>2. /\ slots'[i] = d /\ \A j \in Slot \ {i} : slots'[j] = slots[j]
        /\ pc' = pc /\ wave' = wave
    BY <1>0, <2>1 DEF TypeInv, stageVars
  <2>3. pc # "ended" /\ pc \in InFlight
    BY <1>0, <2>1 DEF SlotInv, Over
  <2>4. \A j \in Slot : CallOK(slots'[j])
    BY <1>0, <2>1, <2>2 DEF SlotInv
  <2>5. pc' \in InFlight \ {"gather"} => \A j \in Slot \ {1} : slots'[j] = Free
    BY <1>0, <2>1, <2>2, <2>3 DEF SlotInv
  <2>6. pc' = "gather" => \A j \in Slot :
          IF wave + j - 1 \in InWave
          THEN slots'[j].state # "free" /\ slots'[j].tasks = Batches[wave + j - 1]
          ELSE slots'[j] = Free
    BY <1>0, <2>1, <2>2 DEF SlotInv
  <2> QED BY <2>2, <2>3, <2>4, <2>5, <2>6 DEF SlotInv, InWave
<1>18. CASE RequestCancellation
  BY <1>0, <1>18 DEF RequestCancellation, SlotInv, stageVars, Over, InWave
<1>19. CASE DeadlinePasses
  BY <1>0, <1>19 DEF DeadlinePasses, SlotInv, stageVars, Over, InWave
<1>20. CASE UNCHANGED vars
  BY <1>0, <1>20 DEF vars, SlotInv, stageVars, Over, InWave
<1> QED BY <1>5, <1>6, <1>7, <1>8, <1>9, <1>10, <1>11, <1>12, <1>13, <1>14, <1>15,
           <1>16, <1>17, <1>18, <1>19, <1>20, SomeAction

\* Where the stage is and what kind of stage it is.
LEMMA PlaceStep ==
  ASSUME IInv, [Next]_vars
  PROVE  PlaceInv'
<1>0. PlaceInv
  BY DEF IInv
<1>1. CASE Call \/ CallEnds
  BY <1>0, <1>1 DEF Call, CallEnds, Ended, PlaceInv
<1>2. ASSUME mode' = mode, pc \notin {"call", "called", "ended"},
             \/ pc' \notin {"call", "called", "ended"} /\ result' = result
             \/ pc' = "ended"
      PROVE  PlaceInv'
  BY <1>0, <1>2 DEF PlaceInv
<1>3. CASE CheckWave \/ SendWave \/ Gather \/ WavesOver
  BY <1>2, <1>3 DEF CheckWave, SendWave, Gather, WavesOver, End, Ended, Finish, Fail
<1>4. CASE Boundary \/ Pause \/ Replay
  BY <1>2, <1>4 DEF Boundary, AfterBoundary, Pause, Replay, RecoveryCall, GiveUp, Keep,
                    End, Ended, Fail
<1>5. CASE ReplayEnds
  BY <1>2, <1>5 DEF ReplayEnds, Recovered, Resume, Finish, GiveUpWith, End, Ended, Fail
<1>6. CASE Half
  BY <1>2, <1>6 DEF Half, RecoveryCall, GiveUp, Keep, Ended, Fail
<1>7. CASE HalfEnds
  BY <1>2, <1>7 DEF HalfEnds, Recovered, Resume, Finish, GiveUpWith, End, Ended, Fail
<1>8. CASE \E i \in Slot : Answer(i)
  BY <1>0, <1>8 DEF Answer, stageVars, PlaceInv
<1>9. CASE RequestCancellation \/ DeadlinePasses \/ UNCHANGED vars
  BY <1>0, <1>9 DEF RequestCancellation, DeadlinePasses, vars, stageVars, PlaceInv
<1> QED BY <1>1, <1>3, <1>4, <1>5, <1>6, <1>7, <1>8, <1>9, SomeAction

\* A cancellation is looked for before each wave, pause, replay and half, so no
\* call has begun since when the next ones are sent.
LEMMA CancelStep ==
  ASSUME IInv, [Next]_vars
  PROVE  CancelInv'
<1>0. TypeInv /\ CancelInv
  BY DEF IInv
<1>a. after \in Nat /\ cancelled \in BOOLEAN /\ Concurrency \in {1, 2}
  BY <1>0, ConstantFacts DEF TypeInv
<1>1. ASSUME pc \in Sending, pc' \notin Sending, cancelled' = cancelled,
             NEW n \in 1..Concurrency, after' = IF cancelled THEN after + n ELSE after
      PROVE  CancelInv'
  <2>1. after = 0
    BY <1>0, <1>1 DEF CancelInv
  <2> QED BY <1>a, <1>1, <2>1 DEF CancelInv
<1>2. ASSUME after' = after, cancelled' = cancelled,
             pc' \in Sending => ~cancelled
      PROVE  CancelInv'
  BY <1>0, <1>2 DEF CancelInv
<1>3. ASSUME NEW tasks \in SUBSET Tasks, NEW next \in {"replaying", "halving"},
             RecoveryCall(tasks, next), cancelled' = cancelled, pc \in Sending
      PROVE  CancelInv'
  <2>1. CASE pc' = next /\ SendOne(tasks, BatchAttempts)
    <3>1. after' = (IF cancelled THEN after + 1 ELSE after) /\ 1 \in 1..Concurrency
      BY <1>0, <1>a, <2>1, SendOneEffect, TypeFacts, ConstantFacts
    <3> QED BY <1>1, <1>3, <2>1, <3>1 DEF Sending
  <2>2. CASE pc' = "ended" /\ UNCHANGED <<recovery, slots, history>>
    BY <1>2, <1>3, <2>2 DEF history, Sending
  <2> QED BY <1>0, <1>3, <2>1, <2>2, RecoveryCallEffect
<1>4. CASE Call
  <2>1. {} \in SUBSET Tasks /\ 1 \in 1..3 /\ 3 \in 1..3 /\ 1 \in 1..Concurrency
    BY <1>a
  <2>2. PICK n \in 1..3 : SendOne({}, n)
    BY <1>4, <2>1 DEF Call
  <2>3. after' = IF cancelled THEN after + 1 ELSE after
    BY <1>0, <2>1, <2>2, SendOneEffect, TypeFacts
  <2> QED BY <1>1, <1>4, <2>1, <2>3 DEF Call, Sending, envVars
<1>5. CASE SendWave
  <2>1. PICK n \in 1..Concurrency : after' = IF cancelled THEN after + n ELSE after
    BY <1>0, <1>5, SendWaveEffect
  <2> QED BY <1>1, <1>5, <2>1 DEF SendWave, Sending, envVars
<1>6. CASE Replay
  <2>1. Batches[current] \in SUBSET Tasks
    BY <1>6, ConstantFacts DEF IInv, RecoveryInv, Replay, Recovering, Failing
  <2> QED BY <1>3, <1>6, <2>1 DEF Replay, Keep, Sending, envVars
<1>7. CASE Half
  <2>1. PICK t \in half.next : RecoveryCall({t}, "halving")
    BY <1>7 DEF Half
  <2>2. {t} \in SUBSET Tasks /\ cancelled' = cancelled /\ pc \in Sending
    BY <1>0, <1>7, TypeFacts DEF Halves, Half, Keep, envVars, Sending
  <2> QED BY <1>3, <2>1, <2>2
<1>8. CASE CheckWave
  BY <1>2, <1>8 DEF CheckWave, End, Ended, Sending, envVars, history
<1>9. CASE Boundary
  BY <1>2, <1>9 DEF Boundary, AfterBoundary, End, Ended, Sending, envVars, history
<1>10. CASE CallEnds \/ Gather \/ WavesOver \/ Pause
  BY <1>2, <1>10 DEF CallEnds, Gather, WavesOver, Pause, GiveUp, Keep, Finish, Fail,
                     End, Ended, Sending, envVars, history
<1>11. CASE ReplayEnds \/ HalfEnds
  BY <1>2, <1>11 DEF ReplayEnds, HalfEnds, Recovered, Resume, Finish, GiveUpWith, Fail,
                     End, Ended, Sending, envVars, history
<1>12. CASE \E i \in Slot : Answer(i)
  BY <1>0, <1>12 DEF Answer, stageVars, envVars, CancelInv
<1>13. CASE RequestCancellation
  BY <1>0, <1>13 DEF RequestCancellation, stageVars, history, CancelInv
<1>14. CASE DeadlinePasses \/ UNCHANGED vars
  BY <1>0, <1>14 DEF DeadlinePasses, vars, stageVars, envVars, history, CancelInv
<1> QED BY <1>4, <1>5, <1>6, <1>7, <1>8, <1>9, <1>10, <1>11, <1>12, <1>13, <1>14,
           SomeAction

LEMMA LastWave ==
  ASSUME wave \in Batch
  PROVE  /\ wave + Concurrency <= Len(Batches) \/ wave + Concurrency > Len(Batches)
         /\ wave + Concurrency > Len(Batches) => \A b \in Batch : b < wave + Concurrency
BY BatchNumbers

LEMMA BatchOrder ==
  ASSUME NEW a \in Batch, NEW b \in Batch, NEW c \in Batch
  PROVE  /\ a <= b => ~(b < a)
         /\ b > a /\ ~(c < b) => c # a /\ ~(c < a)
         /\ (c > a => b <= c) /\ c < b => c <= a
BY BatchNumbers

\* What is known of the batches while their waves are sent.
LEMMA WaveStep ==
  ASSUME IInv, [Next]_vars
  PROVE  WaveInv'
<1>0. TypeInv /\ SlotInv /\ WaveInv
  BY DEF IInv
<1>1. ASSUME pc' \notin Waves \union {"waves over"} PROVE WaveInv'
  BY <1>1 DEF WaveInv
<1>2. ASSUME UNCHANGED <<mode, wave, answered, failures>>,
             pc' = pc \/ (pc \in Waves /\ pc' \in Waves)
      PROVE  WaveInv'
  BY <1>0, <1>2 DEF WaveInv, Waves, Settled, Untouched, Failing
<1>3. CASE CheckWave
  <2>1. pc = "wave" /\ pc' \in {"send", "ended"} /\ UNCHANGED <<mode, wave, answered, failures>>
    BY <1>3 DEF CheckWave, End, Ended
  <2> QED BY <1>1, <1>2, <2>1 DEF Waves
<1>4. CASE SendWave
  BY <1>2, <1>4 DEF SendWave, Waves
<1>5. CASE Gather
  <2>1. wave \in Batch /\ pc = "gather" /\ mode' = mode
    BY <1>0, <1>5 DEF TypeInv, Gather
  <2>2. ASSUME NEW b \in Batch
        PROVE  IF b < wave + Concurrency THEN Settled(b)' ELSE Untouched(b)'
    <3>1. b < wave + Concurrency <=> b < wave \/ b \in InWave
      BY <2>1, WaveFacts
    <3>2. IF b < wave THEN Settled(b) ELSE Untouched(b)
      BY <1>0, <2>1 DEF WaveInv, Waves
    <3>3. CASE b \in InWave
      BY <1>0, <1>5, <3>1, <3>3, GatherEffect DEF Settled
    <3>4. CASE b \notin InWave
      <4>1. answered'[b] = answered[b] /\ failures'[b] = failures[b]
        BY <1>0, <1>5, <3>4, GatherEffect
      <4> QED BY <3>1, <3>2, <3>4, <4>1 DEF Settled, Untouched
    <3> QED BY <3>3, <3>4
  <2>3. CASE wave' = wave + Concurrency /\ pc' = "wave"
    BY <2>2, <2>3 DEF WaveInv, Waves
  <2>4. CASE wave' = wave /\ pc' = "waves over" /\ ~GoOn(failures')
    <3>0. wave + Concurrency <= Len(Batches) \/ wave + Concurrency > Len(Batches)
      BY <2>1, LastWave
    <3>1. /\ wave + Concurrency > Len(Batches) \/ Failing(failures') # {}
          /\ mode = "citation" => wave + Concurrency > Len(Batches)
      BY <2>4, <3>0 DEF GoOn
    <3> QED BY <2>1, <2>2, <2>4, <3>1 DEF WaveInv, Waves, Failing
  <2> QED BY <1>5, <2>3, <2>4 DEF Gather
<1>6. CASE Call \/ CallEnds \/ WavesOver
  BY <1>1, <1>6 DEF Call, CallEnds, WavesOver, Finish, Fail, End, Ended, Waves
<1>7. CASE Boundary \/ Pause \/ Replay
  BY <1>1, <1>7 DEF Boundary, AfterBoundary, Pause, Replay, RecoveryCall, GiveUp, Fail,
                    End, Ended, Waves
<1>8. CASE ReplayEnds \/ Half \/ HalfEnds
  BY <1>1, <1>8 DEF ReplayEnds, Half, HalfEnds, RecoveryCall, GiveUp, Recovered, Resume,
                    Finish, GiveUpWith, Fail, End, Ended, Waves
<1>9. CASE \E i \in Slot : Answer(i)
  BY <1>2, <1>9 DEF Answer, stageVars
<1>10. CASE RequestCancellation \/ DeadlinePasses \/ UNCHANGED vars
  BY <1>2, <1>10 DEF RequestCancellation, DeadlinePasses, vars, stageVars
<1> QED BY <1>3, <1>4, <1>5, <1>6, <1>7, <1>8, <1>9, <1>10, SomeAction

\* While batches are recovered: the first conjunct of RecoveryInv.
Progress(at, got, f) ==
  /\ at \in Failing(f)
  /\ \A b \in Batch : IF f[b] = "none" \/ b < at THEN got[b].tasks = Batches[b]
                                                 ELSE got[b] = NoAnswer

\* When the waves are over every batch has its answer or its failure.
LEMMA WavesOverFacts ==
  ASSUME TypeInv, WaveInv, pc = "waves over",
         Failing(failures) = {} \/ mode = "citation"
  PROVE  \A b \in Batch : Settled(b)
<1>1. wave + Concurrency > Len(Batches) /\ wave \in Nat
  BY TypeFacts, ConstantFacts DEF WaveInv
<1>2. \A b \in Batch : b < wave + Concurrency
  BY <1>1, TypeFacts, LastWave
<1> QED BY <1>2 DEF WaveInv

\* An answer to the batch in recovery leaves one batch less to recover, or none.
LEMMA RecoveredProgress ==
  ASSUME TypeInv, Progress(current, answered, failures), NEW a \in Answers,
         a.tasks = Batches[current], Recovered(a), lost' = lost, failures' = failures
  PROVE  \/ pc' = "before pause" /\ Progress(current', answered', failures')
         \/ pc' = "ended" /\ \A b \in Batch : answered'[b].tasks = Batches[b]
<1>1. current \in Batch
  BY DEF Progress, Failing
<1>2. /\ answered' = [answered EXCEPT ![current] = a]
      /\ answered'[current].tasks = Batches[current]
      /\ \A b \in Batch \ {current} : answered'[b] = answered[b]
  BY <1>1, RecoveredEffect DEF TypeInv
<1>3. ASSUME NEW b \in Batch, failures[b] = "none" \/ b <= current
      PROVE  answered'[b].tasks = Batches[b]
  BY <1>1, <1>2, <1>3, ConstantFacts DEF Progress
<1>4. CASE /\ pc' = "before pause" /\ current' \in Failing(failures) /\ current' > current
           /\ \A b \in Failing(failures) : b > current => current' <= b
  <2>1. ASSUME NEW b \in Batch, failures[b] # "none", ~(b < current')
        PROVE  answered'[b] = NoAnswer
    <3>1. b # current /\ ~(b < current)
      <4>1. current' \in Batch
        BY <1>4 DEF Failing
      <4> QED BY <1>1, <1>4, <2>1, <4>1, BatchOrder
    <3> QED BY <1>2, <2>1, <3>1 DEF Progress
  <2>2. ASSUME NEW b \in Batch, b < current' PROVE failures[b] = "none" \/ b <= current
    <3>1. CASE b \in Failing(failures)
      <4>1. current' \in Batch /\ (b > current => current' <= b)
        BY <1>4, <3>1 DEF Failing
      <4> QED BY <1>1, <2>2, <4>1, BatchOrder
    <3>2. CASE b \notin Failing(failures)
      BY <3>2 DEF Failing
    <3> QED BY <3>1, <3>2
  <2> QED BY <1>3, <1>4, <2>1, <2>2 DEF Progress
<1>5. CASE pc' = "ended" /\ \A b \in Failing(failures) : b <= current
  <2>1. \A b \in Batch : failures[b] = "none" \/ b <= current
    BY <1>5 DEF Failing
  <2> QED BY <1>3, <1>5, <2>1
<1> QED BY <1>1, <1>4, <1>5, RecoveredEffect

\* The answer put together from the halves of a batch.
LEMMA MergedFacts ==
  ASSUME TypeInv, Cardinality(AddHalf(slots[1]).models) = 1
  PROVE  /\ Merged(AddHalf(slots[1])) \in Answers
         /\ Merged(AddHalf(slots[1])).tasks = half.tasks \union slots[1].tasks
         /\ Merged(AddHalf(slots[1])).requests = half.requests + slots[1].attempt
         /\ Merged(AddHalf(slots[1])).bad = half.bad + slots[1].bad
<1> DEFINE h == AddHalf(slots[1])
<1>0. half \in Halves /\ slots[1] \in Calls
  BY TypeFacts, ConstantFacts
<1>1. /\ h.tasks = half.tasks \union slots[1].tasks
      /\ h.requests = half.requests + slots[1].attempt
      /\ h.bad = half.bad + slots[1].bad
      /\ h.models = half.models \union {slots[1].model}
  BY <1>0 DEF AddHalf, Halves
<1>2. h.tasks \in SUBSET Tasks /\ h.requests \in Nat /\ h.bad \in Nat
      /\ h.models \in SUBSET MaybeModel
  BY <1>0, <1>1 DEF Halves, Calls
<1> HIDE DEF h
<1>3. h.models # {}
  BY FS_EmptySet DEF h
<1>4. PICK m \in MaybeModel : m = CHOOSE x \in h.models : TRUE
  BY <1>2, <1>3
<1>5. Merged(h) = [tasks |-> h.tasks, requests |-> h.requests, bad |-> h.bad, model |-> m]
  BY <1>4 DEF Merged
<1>6. Merged(h) \in Answers
  BY <1>2, <1>5 DEF Answers
<1> QED BY <1>1, <1>5, <1>6 DEF h

\* The recovery: which batches are answered, and what makes up the one at hand.
LEMMA RecoveryStep ==
  ASSUME IInv, [Next]_vars
  PROVE  RecoveryInv'
<1>0. TypeInv /\ SlotInv /\ WaveInv /\ RecoveryInv
  BY DEF IInv
<1>p. pc \in Recovering => Progress(current, answered, failures) /\ current \in Batch
  BY <1>0 DEF RecoveryInv, Progress, Failing
<1>a. CASE pc' = "ended"
  BY <1>a DEF RecoveryInv, Recovering, Halving
<1>b. ASSUME half' = half, pc \notin Halving \union {"ended"}, pc' \notin Recovering
      PROVE  RecoveryInv'
  BY <1>0, <1>b DEF RecoveryInv, Recovering, Halving
<1>c. ASSUME UNCHANGED <<answered, failures, current, half>>,
             \/ pc \in Halving /\ pc' \in {"before half", "half"} /\ pc # "halving"
             \/ pc \in Recovering \ Halving /\ pc' \in Recovering \ (Halving \union {"replaying"})
      PROVE  RecoveryInv'
  BY <1>0, <1>c DEF RecoveryInv, Recovering, Halving, Failing
<1>d. ASSUME pc' \in Recovering \ (Halving \union {"replaying"}), half' = NoHalf,
             Progress(current', answered', failures')
      PROVE  RecoveryInv'
  BY <1>d DEF RecoveryInv, Recovering, Halving, Failing, Progress
<1>e. ASSUME pc \in Recovering, UNCHANGED <<answered, failures, current>>
      PROVE  Progress(current', answered', failures')
  BY <1>p, <1>e
<1>1. CASE Call \/ CallEnds \/ CheckWave
  BY <1>b, <1>1 DEF Call, CallEnds, CheckWave, End, Ended, Recovering, Halving
<1>2. CASE SendWave \/ Gather
  BY <1>b, <1>2 DEF SendWave, Gather, Recovering, Halving
<1>3. CASE WavesOver
  <2>0. half' = half /\ half = NoHalf
    BY <1>0, <1>3 DEF WavesOver, RecoveryInv, Halving
  <2>1. CASE Finish(answered) \/ Fail(failures[First(failures)], FALSE, 0)
    BY <1>a, <2>1 DEF Finish, Fail, End, Ended
  <2>2. CASE /\ Failing(failures) # {} /\ mode = "citation"
             /\ pc' = "before pause" /\ current' = First(failures)
    <3>1. /\ current' \in Failing(failures) /\ current' \in Batch
          /\ \A b \in Failing(failures) : current' <= b
      BY <1>0, <2>2, NextFailed DEF First
    <3>2. \A b \in Batch : Settled(b)
      BY <1>0, <1>3, <2>2, WavesOverFacts DEF WavesOver
    <3>3. \A b \in Batch : failures[b] # "none" => ~(b < current')
      BY <3>1, BatchOrder DEF Failing
    <3>4. Progress(current', answered, failures)
      BY <3>1, <3>2, <3>3 DEF Progress, Settled
    <3> QED BY <1>3, <1>d, <2>0, <2>2, <3>4 DEF WavesOver, Recovering, Halving
  <2> QED BY <1>3, <2>1, <2>2 DEF WavesOver, Recoverable
<1>4. CASE Boundary
  <2>1. /\ UNCHANGED <<answered, failures, current, half>>
        /\ \/ pc = "before pause" /\ pc' \in {"pause", "ended"}
           \/ pc = "after pause" /\ pc' \in {"replay", "ended"}
           \/ pc = "before half" /\ pc' \in {"half", "ended"}
    BY <1>4 DEF Boundary, AfterBoundary, End, Ended
  <2> QED BY <1>a, <1>c, <2>1 DEF Recovering, Halving
<1>5. CASE Pause
  <2>1. /\ UNCHANGED <<answered, failures, current, half>>
        /\ pc = "pause" /\ pc' \in {"after pause", "ended"}
    BY <1>5 DEF Pause, Keep, GiveUp, Fail, Ended
  <2> QED BY <1>a, <1>c, <2>1 DEF Recovering, Halving
<1>6. CASE Replay
  <2>0. pc = "replay" /\ pc \in Recovering
    BY <1>6 DEF Replay, Recovering
  <2>1. /\ UNCHANGED <<answered, failures, current, half>> /\ half = NoHalf
        /\ Batches[current] \in SUBSET Tasks
        /\ RecoveryCall(Batches[current], "replaying")
    BY <1>0, <1>6, <1>p, <2>0, ConstantFacts DEF Replay, Keep, RecoveryInv, Halving
  <2>2. CASE pc' = "replaying" /\ SendOne(Batches[current], BatchAttempts)
    <3>1. slots'[1] = NewCall(Batches[current], BatchAttempts)
      BY <1>0, <2>1, <2>2, SendOneEffect, TypeFacts, ConstantFacts
    <3>2. slots'[1].tasks = Batches[current]
      BY <1>0, <2>1, <3>1, NewCallFacts, TypeFacts, ConstantFacts
    <3>3. Progress(current', answered', failures')
      BY <1>e, <2>0, <2>1
    <3> QED BY <2>1, <2>2, <3>2, <3>3 DEF RecoveryInv, Halving, Progress, Failing
  <2> QED BY <1>0, <1>a, <2>1, <2>2, RecoveryCallEffect
<1>7. CASE ReplayEnds
  <2>0. /\ pc = "replaying" /\ pc \in Recovering /\ current \in Batch /\ half = NoHalf
        /\ slots[1].tasks = Batches[current] /\ slots[1] \in Calls /\ CallOK(slots[1])
        /\ Progress(current, answered, failures)
    BY <1>0, <1>7, <1>p, TypeFacts, ConstantFacts
       DEF ReplayEnds, Recovering, Halving, RecoveryInv, SlotInv
  <2>1. CASE slots[1].state = "answered"
    <3>1. Recovered(AnswerOf(slots[1])) /\ UNCHANGED <<failures, half, lost>>
      BY <1>7, <2>1 DEF ReplayEnds
    <3>2. AnswerOf(slots[1]) \in Answers /\ AnswerOf(slots[1]).tasks = Batches[current]
      BY <2>0 DEF AnswerOf, Answers, Calls
    <3>3. pc' = "ended" \/ (pc' = "before pause" /\ Progress(current', answered', failures'))
      BY <1>0, <2>0, <3>1, <3>2, RecoveredProgress
    <3> QED BY <1>a, <1>d, <2>0, <3>1, <3>3 DEF Recovering, Halving
  <2>2. CASE slots[1].state = "failed"
    <3>1. /\ failures' = [failures EXCEPT ![current] = slots[1].error]
          /\ UNCHANGED <<answered, current>>
          /\ \/ /\ half' = [NoHalf EXCEPT !.next = Batches[current]]
                /\ pc' = "before half"
             \/ GiveUpWith(slots[1])
      BY <1>7, <2>2 DEF ReplayEnds
    <3>2. slots[1].error # "none" /\ failures \in [Batch -> Errors]
      BY <1>0, <2>0, <2>2 DEF CallOK, TypeInv
    <3>3. CASE pc' = "before half" /\ half' = [NoHalf EXCEPT !.next = Batches[current]]
      <4>1. half'.tasks \union half'.next = Batches[current']
        BY <3>1, <3>3 DEF NoHalf
      <4>2. \A b \in Batch : failures'[b] = "none" <=> failures[b] = "none"
        BY <2>0, <3>1, <3>2 DEF Progress, Failing
      <4>3. Progress(current', answered', failures')
        BY <2>0, <3>1, <4>2 DEF Progress, Failing
      <4> QED BY <3>3, <4>1, <4>3 DEF RecoveryInv, Halving, Progress, Failing
    <3> QED BY <1>a, <3>1, <3>3 DEF GiveUpWith, Fail, Ended
  <2> QED BY <1>7, <2>1, <2>2 DEF ReplayEnds
<1>8. CASE Half
  <2>0. /\ pc = "half" /\ pc \in Recovering /\ half \in Halves
        /\ half.tasks \union half.next = Batches[current]
        /\ UNCHANGED <<answered, failures, current>>
    BY <1>0, <1>8, TypeFacts DEF Half, Keep, Recovering, Halving, RecoveryInv
  <2>1. PICK t \in half.next :
          /\ RecoveryCall({t}, "halving")
          /\ half' = IF pc' = "halving" THEN [half EXCEPT !.next = @ \ {t}] ELSE half
    BY <1>8 DEF Half
  <2>2. {t} \in SUBSET Tasks
    BY <2>0 DEF Halves
  <2>3. CASE pc' = "halving" /\ SendOne({t}, BatchAttempts)
    <3>1. slots'[1] = NewCall({t}, BatchAttempts)
      BY <1>0, <2>2, <2>3, SendOneEffect, TypeFacts, ConstantFacts
    <3>2. slots'[1].tasks = {t}
      BY <1>0, <2>2, <3>1, NewCallFacts, TypeFacts, ConstantFacts
    <3>3. half'.tasks = half.tasks /\ half'.next = half.next \ {t}
      BY <2>0, <2>1, <2>3 DEF Halves
    <3>4. half'.tasks \union half'.next \union slots'[1].tasks = Batches[current']
      BY <2>0, <3>2, <3>3
    <3>5. Progress(current', answered', failures')
      BY <1>e, <2>0
    <3> QED BY <2>3, <3>4, <3>5 DEF RecoveryInv, Halving, Progress, Failing
  <2> QED BY <1>0, <1>a, <2>1, <2>2, <2>3, RecoveryCallEffect
<1>9. CASE HalfEnds
  <2> DEFINE h == AddHalf(slots[1])
  <2>0. /\ pc = "halving" /\ pc \in Recovering /\ half \in Halves /\ current \in Batch
        /\ half.tasks \union half.next \union slots[1].tasks = Batches[current]
        /\ failures' = failures /\ Progress(current, answered, failures)
    BY <1>0, <1>9, <1>p, TypeFacts DEF HalfEnds, Recovering, Halving, RecoveryInv
  <2>1. h.tasks = half.tasks \union slots[1].tasks /\ h.next = half.next
    BY <2>0 DEF AddHalf, Halves
  <2>2. CASE slots[1].state = "answered" /\ h.next # {}
    <3>1. half' = h /\ pc' = "before half" /\ UNCHANGED <<answered, current>>
      BY <1>9, <2>2 DEF HalfEnds
    <3>2. half'.tasks \union half'.next = Batches[current']
      BY <2>0, <2>1, <3>1
    <3>3. Progress(current', answered', failures')
      BY <1>e, <2>0, <3>1
    <3> HIDE DEF h
    <3> QED BY <3>1, <3>2, <3>3 DEF RecoveryInv, Halving, Progress, Failing
  <2>3. CASE slots[1].state = "answered" /\ h.next = {}
    <3>1. /\ half' = NoHalf /\ lost' = lost
          /\ \/ Cardinality(h.models) = 1 /\ Recovered(Merged(h))
             \/ End("raised")
      BY <1>9, <2>3 DEF HalfEnds
    <3>2. CASE Cardinality(h.models) = 1 /\ Recovered(Merged(h))
      <4>1. Merged(h) \in Answers /\ Merged(h).tasks = half.tasks \union slots[1].tasks
        BY <1>0, <3>2, MergedFacts
      <4>2. Merged(h).tasks = Batches[current]
        BY <2>0, <2>1, <2>3, <4>1
      <4>3. pc' = "ended" \/ (pc' = "before pause" /\ Progress(current', answered', failures'))
        BY <1>0, <2>0, <3>1, <3>2, <4>1, <4>2, RecoveredProgress
      <4> QED BY <1>a, <1>d, <3>1, <4>3 DEF Recovering, Halving
    <3> QED BY <1>a, <3>1, <3>2 DEF End, Ended
  <2>4. CASE slots[1].state = "failed"
    BY <1>9, <1>a, <2>4 DEF HalfEnds, GiveUpWith, Fail, Ended
  <2> QED BY <1>9, <2>2, <2>3, <2>4 DEF HalfEnds
<1>10. ASSUME NEW i \in Slot, Answer(i) PROVE RecoveryInv'
  <2>1. PICK d \in Calls :
          /\ d.tasks = slots[i].tasks /\ slots' = [slots EXCEPT ![i] = d]
          /\ UNCHANGED <<stageVars, envVars, after>>
    BY <1>0, <1>10, AnswerEffect
  <2>2. slots'[1].tasks = slots[1].tasks
    BY <1>0, <2>1, ConstantFacts DEF TypeInv
  <2>3. UNCHANGED <<pc, answered, failures, current, half>>
    BY <2>1 DEF stageVars
  <2> QED BY <1>0, <2>2, <2>3 DEF RecoveryInv, Failing
<1>11. CASE RequestCancellation \/ DeadlinePasses \/ UNCHANGED vars
  <2>1. UNCHANGED <<pc, answered, failures, current, half, slots>>
    BY <1>11 DEF RequestCancellation, DeadlinePasses, vars, stageVars
  <2> QED BY <1>0, <2>1 DEF RecoveryInv, Failing
<1> QED BY <1>1, <1>2, <1>3, <1>4, <1>5, <1>6, <1>7, <1>8, <1>9, <1>10, <1>11, SomeAction

\* A stage that ends well has answered everything.
LEMMA AnsweredStep ==
  ASSUME IInv, [Next]_vars
  PROVE  EveryTaskIsAnswered'
<1>0. TypeInv /\ WaveInv /\ RecoveryInv /\ PlaceInv /\ EveryTaskIsAnswered
  BY DEF IInv
<1>p. pc \in Recovering => Progress(current, answered, failures) /\ current \in Batch
  BY <1>0 DEF RecoveryInv, Progress, Failing
<1>a. CASE result'.outcome # "done"
  BY <1>a DEF EveryTaskIsAnswered
<1>b. ASSUME pc # "ended", result' = result PROVE EveryTaskIsAnswered'
  <2>1. result'.outcome = "none"
    BY <1>0, <1>b DEF PlaceInv, NoResult
  <2> QED BY <2>1, <1>a
<1>c. ASSUME \A b \in Batch : answered'[b].tasks = Batches[b] PROVE EveryTaskIsAnswered'
  BY <1>c DEF EveryTaskIsAnswered
<1>1. CASE Call \/ SendWave \/ Gather
  BY <1>b, <1>1 DEF Call, SendWave, Gather
<1>2. CASE CallEnds
  <2>1. mode' \notin Batched
    BY <1>0, <1>2 DEF CallEnds, PlaceInv
  <2> QED BY <2>1 DEF EveryTaskIsAnswered
<1>e. ASSUME End("cancelled") \/ End("raised") PROVE EveryTaskIsAnswered'
  BY <1>a, <1>e, EndFacts
<1>3. CASE CheckWave
  BY <1>b, <1>e, <1>3 DEF CheckWave
<1>4. CASE WavesOver
  <2>1. CASE Failing(failures) = {}
    <3>1. \A b \in Batch : Settled(b) /\ failures[b] = "none"
      BY <1>0, <1>4, <2>1, WavesOverFacts DEF WavesOver, Failing
    <3>2. answered' = answered
      BY <1>4 DEF WavesOver
    <3> QED BY <1>c, <3>1, <3>2 DEF Settled
  <2>2. CASE Fail(failures[First(failures)], FALSE, 0)
    <3>1. FALSE \in BOOLEAN /\ 0 \in Int
      OBVIOUS
    <3>2. result'.outcome = "failed"
      BY <2>2, <3>1, FailFacts
    <3> QED BY <1>a, <3>2
  <2>3. CASE result' = result
    BY <1>b, <1>4, <2>3 DEF WavesOver
  <2> QED BY <1>4, <2>1, <2>2, <2>3 DEF WavesOver
<1>5. CASE Boundary
  BY <1>b, <1>e, <1>5 DEF Boundary, AfterBoundary
<1>6. CASE Pause
  BY <1>0, <1>a, <1>b, <1>6, GiveUpEffect DEF Pause
<1>7. ASSUME NEW tasks \in SUBSET Tasks, NEW next \in {"replaying", "halving"},
             RecoveryCall(tasks, next), pc # "ended"
      PROVE  EveryTaskIsAnswered'
  BY <1>0, <1>a, <1>b, <1>7, RecoveryCallEffect
<1>8. CASE Replay
  <2>1. Batches[current] \in SUBSET Tasks
    BY <1>8, <1>p, ConstantFacts DEF Replay, Recovering
  <2> QED BY <1>7, <1>8, <2>1 DEF Replay
<1>9. CASE Half
  <2>1. PICK t \in half.next : RecoveryCall({t}, "halving")
    BY <1>9 DEF Half
  <2>2. {t} \in SUBSET Tasks /\ pc # "ended"
    BY <1>0, <1>9, TypeFacts DEF Halves, Half
  <2> QED BY <1>7, <2>1, <2>2
<1>r. ASSUME NEW a \in Answers, a.tasks = Batches[current], Recovered(a),
             lost' = lost, failures' = failures, pc \in Recovering, pc # "ended"
      PROVE  EveryTaskIsAnswered'
  <2>1. CASE pc' = "ended" /\ \A b \in Batch : answered'[b].tasks = Batches[b]
    BY <1>c, <2>1
  <2>2. CASE pc' = "before pause"
    <3>1. result' = result
      BY <1>0, <1>p, <1>r, <2>2, RecoveredEffect
    <3> QED BY <1>b, <1>r, <3>1
  <2> QED BY <1>0, <1>p, <1>r, <2>1, <2>2, RecoveredProgress
<1>10. CASE ReplayEnds
  <2>0. /\ pc = "replaying" /\ pc \in Recovering /\ slots[1] \in Calls
        /\ slots[1].tasks = Batches[current]
    BY <1>0, <1>10, TypeFacts, ConstantFacts DEF ReplayEnds, Recovering, RecoveryInv
  <2>1. CASE slots[1].state = "answered"
    <3>1. Recovered(AnswerOf(slots[1])) /\ UNCHANGED <<failures, half, lost>>
      BY <1>10, <2>1 DEF ReplayEnds
    <3>2. AnswerOf(slots[1]) \in Answers /\ AnswerOf(slots[1]).tasks = Batches[current]
      BY <2>0 DEF AnswerOf, Answers, Calls
    <3> QED BY <1>r, <2>0, <3>1, <3>2
  <2>2. CASE slots[1].state = "failed"
    <3>1. result' = result \/ GiveUpWith(slots[1])
      BY <1>10, <2>2 DEF ReplayEnds
    <3>2. GiveUpWith(slots[1]) => result'.outcome # "done"
      BY <1>0, <2>0, GiveUpWithEffect
    <3> QED BY <1>a, <1>b, <2>0, <3>1, <3>2
  <2> QED BY <1>10, <2>1, <2>2 DEF ReplayEnds
<1>11. CASE HalfEnds
  <2> DEFINE h == AddHalf(slots[1])
  <2>0. /\ pc = "halving" /\ pc \in Recovering /\ half \in Halves /\ slots[1] \in Calls
        /\ half.tasks \union half.next \union slots[1].tasks = Batches[current]
        /\ failures' = failures
    BY <1>0, <1>11, TypeFacts, ConstantFacts DEF HalfEnds, Recovering, Halving, RecoveryInv
  <2>1. h.next = half.next
    BY <2>0 DEF AddHalf, Halves
  <2>2. CASE slots[1].state = "answered" /\ h.next # {}
    BY <1>11, <1>b, <2>0, <2>2 DEF HalfEnds
  <2>3. CASE slots[1].state = "answered" /\ h.next = {}
    <3>1. /\ lost' = lost
          /\ \/ Cardinality(h.models) = 1 /\ Recovered(Merged(h))
             \/ End("raised")
      BY <1>11, <2>3 DEF HalfEnds
    <3>2. CASE Cardinality(h.models) = 1 /\ Recovered(Merged(h))
      <4>1. Merged(h) \in Answers /\ Merged(h).tasks = half.tasks \union slots[1].tasks
        BY <1>0, <3>2, MergedFacts
      <4>2. Merged(h).tasks = Batches[current]
        BY <2>0, <2>1, <2>3, <4>1
      <4> QED BY <1>r, <2>0, <3>1, <3>2, <4>1, <4>2
    <3> QED BY <1>e, <3>1, <3>2
  <2>4. CASE slots[1].state = "failed"
    <3>1. GiveUpWith(slots[1])
      BY <1>11, <2>4 DEF HalfEnds
    <3>2. result'.outcome # "done"
      BY <1>0, <2>0, <3>1, GiveUpWithEffect
    <3> QED BY <1>a, <3>2
  <2> QED BY <1>11, <2>2, <2>3, <2>4 DEF HalfEnds
<1>12. CASE \E i \in Slot : Answer(i)
  BY <1>0, <1>12 DEF Answer, stageVars, EveryTaskIsAnswered
<1>13. CASE RequestCancellation \/ DeadlinePasses \/ UNCHANGED vars
  BY <1>0, <1>13 DEF RequestCancellation, DeadlinePasses, vars, stageVars, EveryTaskIsAnswered
<1> QED BY <1>1, <1>2, <1>3, <1>4, <1>5, <1>6, <1>8, <1>9, <1>10, <1>11, <1>12, <1>13,
           SomeAction

\* What the calls in flight have cost so far.
LEMMA CallSums ==
  ASSUME NEW s \in [Slot -> Calls]
  PROVE  /\ AttemptsOf(s) = s[1].attempt + (IF 2 \in Slot THEN s[2].attempt ELSE 0)
         /\ BadOf(s) = s[1].bad + (IF 2 \in Slot THEN s[2].bad ELSE 0)
         /\ AttemptsOf(s) \in Int /\ BadOf(s) \in Int
         /\ \A i \in Slot : s[i].attempt \in Int /\ s[i].bad \in Int
<1> DEFINE at == [i \in Slot |-> s[i].attempt]
           ba == [i \in Slot |-> s[i].bad]
<1>1. \A i \in Slot : s[i].attempt \in Int /\ s[i].bad \in Int
  BY DEF Calls
<1>2. at \in [Slot -> Int] /\ ba \in [Slot -> Int]
      /\ \A i \in Slot : at[i] = s[i].attempt /\ ba[i] = s[i].bad
  BY <1>1
<1> HIDE DEF at, ba
<1>3. /\ SumFunction(at) = at[1] + (IF 2 \in Slot THEN at[2] ELSE 0)
      /\ SumFunction(ba) = ba[1] + (IF 2 \in Slot THEN ba[2] ELSE 0)
  BY <1>2, SumOverSlots
<1>4. AttemptsOf(s) = SumFunction(at) /\ BadOf(s) = SumFunction(ba)
  BY DEF AttemptsOf, BadOf, at, ba
<1>5. 1 \in Slot
  BY ConstantFacts
<1>6. /\ AttemptsOf(s) = s[1].attempt + (IF 2 \in Slot THEN s[2].attempt ELSE 0)
      /\ BadOf(s) = s[1].bad + (IF 2 \in Slot THEN s[2].bad ELSE 0)
  BY <1>2, <1>3, <1>4, <1>5
<1>7. AttemptsOf(s) \in Int /\ BadOf(s) \in Int
  BY <1>1, <1>5, <1>6
<1> QED BY <1>1, <1>6, <1>7

LEMMA OneCallSums ==
  ASSUME NEW s \in [Slot -> Calls], \A i \in Slot \ {1} : s[i] = Free
  PROVE  AttemptsOf(s) = s[1].attempt /\ BadOf(s) = s[1].bad
<1>1. 2 \in Slot => s[2].attempt = 0 /\ s[2].bad = 0
  BY FreeIsACall
<1>2. s[1].attempt \in Int /\ s[1].bad \in Int
  BY CallSums, ConstantFacts
<1> QED BY <1>1, <1>2, CallSums

LEMMA FreeSums ==
  ASSUME NEW s \in [Slot -> Calls], \A i \in Slot : s[i] = Free
  PROVE  AttemptsOf(s) = 0 /\ BadOf(s) = 0
BY OneCallSums, FreeIsACall, ConstantFacts

LEMMA UpdatedSums ==
  ASSUME NEW s \in [Slot -> Calls], NEW i \in Slot, NEW d \in Calls
  PROVE  /\ AttemptsOf([s EXCEPT ![i] = d]) = AttemptsOf(s) + d.attempt - s[i].attempt
         /\ BadOf([s EXCEPT ![i] = d]) = BadOf(s) + d.bad - s[i].bad
<1>1. PICK e \in [Slot -> Calls] : e = [s EXCEPT ![i] = d]
  OBVIOUS
<1>2. /\ e[i] = d /\ \A j \in Slot \ {i} : e[j] = s[j]
      /\ \A j \in Slot : s[j].attempt \in Int /\ s[j].bad \in Int
      /\ d.attempt \in Int /\ d.bad \in Int
  BY <1>1, CallSums DEF Calls
<1>3. i = 1 \/ i = 2
  BY ConstantFacts
<1>4. 1 \in Slot
  BY ConstantFacts
<1>5. /\ AttemptsOf(s) = s[1].attempt + (IF 2 \in Slot THEN s[2].attempt ELSE 0)
      /\ BadOf(s) = s[1].bad + (IF 2 \in Slot THEN s[2].bad ELSE 0)
      /\ AttemptsOf(e) = e[1].attempt + (IF 2 \in Slot THEN e[2].attempt ELSE 0)
      /\ BadOf(e) = e[1].bad + (IF 2 \in Slot THEN e[2].bad ELSE 0)
  BY CallSums
<1>6. CASE i = 1
  <2>1. e[1] = d /\ (2 \in Slot => e[2] = s[2])
    BY <1>2, <1>6
  <2> QED BY <1>1, <1>2, <1>4, <1>5, <1>6, <2>1
<1>7. CASE i = 2
  <2>1. 2 \in Slot /\ e[2] = d /\ e[1] = s[1]
    BY <1>2, <1>4, <1>7
  <2> QED BY <1>1, <1>2, <1>4, <1>5, <1>7, <2>1
<1> QED BY <1>3, <1>6, <1>7

LEMMA NoHalvesYet ==
  ASSUME RecoveryInv, pc \notin Halving \union {"ended"}
  PROVE  half.requests = 0 /\ half.bad = 0
<1>1. half = NoHalf
  BY DEF RecoveryInv
<1>2. NoHalf.requests = 0 /\ NoHalf.bad = 0
  BY DEF NoHalf
<1> QED BY <1>1, <1>2

\* Before the stage is over it has paid for what its accounts say.
LEMMA AccountFacts ==
  ASSUME TypeInv, SlotInv, RecoveryInv, AccountInv, pc # "ended"
  PROVE  /\ Requests(answered) \in Int /\ BadAnswers(answered) \in Int
         /\ half.requests \in Int /\ half.bad \in Int
         /\ lost.requests \in Int /\ lost.bad \in Int
         /\ RequestsSoFar = Requests(answered) + half.requests + lost.requests
         /\ pc \notin InFlight =>
              /\ sent = Requests(answered) + half.requests + lost.requests
              /\ bad = BadAnswers(answered) + half.bad + lost.bad
         /\ pc \in InFlight \ {"gather"} =>
              /\ sent = Requests(answered) + half.requests + lost.requests + slots[1].attempt
              /\ bad = BadAnswers(answered) + half.bad + lost.bad + slots[1].bad
              /\ slots[1].attempt \in Int /\ slots[1].bad \in Int
         /\ pc \notin Halving => half.requests = 0 /\ half.bad = 0
<1>1. /\ Requests(answered) \in Int /\ BadAnswers(answered) \in Int
      /\ half.requests \in Int /\ half.bad \in Int
      /\ lost.requests \in Int /\ lost.bad \in Int
      /\ slots \in [Slot -> Calls]
  <2>1. /\ answered \in [Batch -> Answers] /\ slots \in [Slot -> Calls]
        /\ half.requests \in Nat /\ half.bad \in Nat
        /\ lost.requests \in Int /\ lost.bad \in Int
    BY TypeFacts DEF TypeInv
  <2>2. Requests(answered) \in Int /\ BadAnswers(answered) \in Int
    BY <2>1, RequestsFacts
  <2> QED BY <2>1, <2>2
<1>2. /\ sent = Requests(answered) + half.requests + lost.requests + AttemptsOf(slots)
      /\ bad = BadAnswers(answered) + half.bad + lost.bad + BadOf(slots)
  BY DEF AccountInv, Accounts
<1>6. RequestsSoFar = Requests(answered) + half.requests + lost.requests
  BY DEF RequestsSoFar
<1>7. pc \notin Halving => half.requests = 0 /\ half.bad = 0
  BY NoHalvesYet
<1>3. CASE pc \notin InFlight
  <2>1. AttemptsOf(slots) = 0 /\ BadOf(slots) = 0
    BY <1>1, <1>3, FreeSums DEF SlotInv
  <2>2. /\ sent = Requests(answered) + half.requests + lost.requests
        /\ bad = BadAnswers(answered) + half.bad + lost.bad
    BY <1>1, <1>2, <2>1
  <2>3. pc \notin InFlight \ {"gather"}
    BY <1>3
  <2> QED BY <1>1, <1>6, <1>7, <2>2, <2>3
<1>4. CASE pc \in InFlight \ {"gather"}
  <2>1. AttemptsOf(slots) = slots[1].attempt /\ BadOf(slots) = slots[1].bad
    BY <1>1, <1>4, OneCallSums DEF SlotInv
  <2>2. slots[1].attempt \in Int /\ slots[1].bad \in Int
    BY <1>1, CallSums, ConstantFacts
  <2>3. /\ sent = Requests(answered) + half.requests + lost.requests + slots[1].attempt
        /\ bad = BadAnswers(answered) + half.bad + lost.bad + slots[1].bad
    BY <1>2, <2>1
  <2> QED BY <1>1, <1>4, <1>6, <1>7, <2>2, <2>3
<1>5. CASE pc = "gather"
  BY <1>1, <1>5, <1>6, <1>7 DEF InFlight
<1> QED BY <1>3, <1>4, <1>5

\* The accounts, and what the stage makes of them when it ends.
LEMMA AccountStep ==
  ASSUME IInv, [Next]_vars
  PROVE  AccountInv' /\ AccountsAreExact'
<1>0. /\ TypeInv /\ SlotInv /\ WaveInv /\ RecoveryInv /\ PlaceInv /\ AccountInv
      /\ AccountsAreExact
  BY DEF IInv
<1>p. pc \in Recovering => Progress(current, answered, failures) /\ current \in Batch
  BY <1>0 DEF RecoveryInv, Progress, Failing
<1>t. TypeInv' /\ slots' \in [Slot -> Calls]
  BY TypeStep DEF TypeInv
<1>n. pc # "ended" => result.outcome = "none"
  BY <1>0 DEF PlaceInv, NoResult
<1>i. /\ sent \in Int /\ bad \in Int
  BY <1>0, TypeFacts
\* The stage goes on: its result has nothing to say yet.
<1>a. ASSUME pc # "ended", pc' \notin {"call", "called"}, result' = result,
             Accounts(sent', bad', answered', half', lost', slots')
      PROVE  AccountInv' /\ AccountsAreExact'
  BY <1>n, <1>a DEF AccountInv, AccountsAreExact
\* The stage ends with a result that says nothing of its cost.
<1>b. ASSUME pc' = "ended", result'.outcome \notin {"done", "exhausted"}
      PROVE  AccountInv' /\ AccountsAreExact'
  BY <1>b DEF AccountInv, AccountsAreExact
\* The stage ends with its account.
<1>c. ASSUME pc' = "ended", result'.outcome = "exhausted", result'.requests = sent'
      PROVE  AccountInv' /\ AccountsAreExact'
  BY <1>c DEF AccountInv, AccountsAreExact
<1>d. ASSUME pc' = "ended", result'.outcome \in {"done", "raised"},
             result'.outcome = "done" => result'.requests = sent' /\ result'.bad = bad'
      PROVE  AccountInv' /\ AccountsAreExact'
  BY <1>d DEF AccountInv, AccountsAreExact
<1>e. ASSUME pc # "ended", pc' \notin {"call", "called"},
             UNCHANGED <<sent, bad, answered, half, lost, slots>>,
             result' = result \/ (pc' = "ended" /\ result'.outcome \notin {"done", "exhausted"})
      PROVE  AccountInv' /\ AccountsAreExact'
  BY <1>0, <1>a, <1>b, <1>e DEF AccountInv
\* All calls are over.
<1>f. ASSUME pc # "ended", pc' \notin {"call", "called"}, result' = result,
             slots' = [i \in Slot |-> Free],
             sent' = Requests(answered') + half'.requests + lost'.requests,
             bad' = BadAnswers(answered') + half'.bad + lost'.bad
      PROVE  AccountInv' /\ AccountsAreExact'
  <2>1. AttemptsOf(slots') = 0 /\ BadOf(slots') = 0
    BY <1>f, <1>t, FreeSums
  <2>2. /\ Requests(answered') + half'.requests + lost'.requests \in Int
        /\ BadAnswers(answered') + half'.bad + lost'.bad \in Int
    <3>1. /\ sent' \in Int /\ bad' \in Int
      BY <1>t DEF TypeInv
    <3> QED BY <3>1, <1>f
  <2>3. Accounts(sent', bad', answered', half', lost', slots')
    BY <1>f, <2>1, <2>2 DEF Accounts
  <2> QED BY <1>a, <1>f, <2>3
\* One call is sent where none was in flight.
<1>g. ASSUME NEW tasks \in SUBSET Tasks, NEW limit \in 1..3, SendOne(tasks, limit),
             pc \notin InFlight \union {"ended"}, UNCHANGED <<answered, lost>>,
             half'.requests = half.requests, half'.bad = half.bad
      PROVE  Accounts(sent', bad', answered', half', lost', slots')
  <2>1. /\ slots' = [i \in Slot |-> IF i = 1 THEN NewCall(tasks, limit) ELSE Free]
        /\ slots'[1] = NewCall(tasks, limit)
        /\ sent' = sent + 1 /\ bad' = bad
    BY <1>0, <1>g, SendOneEffect, TypeFacts
  <2>2. slots'[1].attempt = 1 /\ slots'[1].bad = 0
    BY <1>0, <2>1, NewCallFacts, TypeFacts
  <2>3. AttemptsOf(slots') = 1 /\ BadOf(slots') = 0
    BY <1>t, <2>1, <2>2, OneCallSums
  <2>4. /\ sent = Requests(answered) + half.requests + lost.requests
        /\ bad = BadAnswers(answered) + half.bad + lost.bad
    BY <1>0, <1>g, AccountFacts
  <2> QED BY <1>0, <1>g, <1>i, <2>1, <2>3, <2>4, AccountFacts DEF Accounts
<1>h. ASSUME NEW tasks \in SUBSET Tasks, NEW next \in {"replaying", "halving"},
             RecoveryCall(tasks, next), pc \in {"replay", "half"}, UNCHANGED <<answered, lost>>,
             half'.requests = half.requests, half'.bad = half.bad
      PROVE  AccountInv' /\ AccountsAreExact'
  <2>0. pc \notin InFlight \union {"ended"}
    BY <1>h DEF InFlight
  <2>1. CASE pc' = next /\ result' = result /\ SendOne(tasks, BatchAttempts)
    BY <1>a, <1>g, <1>h, <2>0, <2>1, ConstantFacts
  <2>2. CASE /\ pc' = "ended" /\ result'.outcome = "exhausted"
             /\ result'.requests = RequestsSoFar /\ UNCHANGED <<recovery, slots, history>>
    <3>1. RequestsSoFar = sent /\ sent' = sent
      BY <1>0, <2>0, <2>2, AccountFacts DEF history
    <3> QED BY <1>c, <2>2, <3>1
  <2> QED BY <1>0, <1>h, <2>1, <2>2, RecoveryCallEffect
<1>1. CASE Call
  <2>1. {} \in SUBSET Tasks /\ 1 \in 1..3 /\ 3 \in 1..3
    OBVIOUS
  <2>2. PICK n \in 1..3 : SendOne({}, n)
    BY <1>1, <2>1 DEF Call
  <2>3. Accounts(sent', bad', answered', half', lost', slots')
    BY <1>1, <1>g, <2>1, <2>2 DEF Call, InFlight
  <2> QED BY <1>0, <1>1, <1>n, <2>3 DEF Call, AccountInv, AccountsAreExact
<1>2. CASE CallEnds
  <2>1. /\ pc = "called" /\ pc' = "ended" /\ sent' = sent /\ bad' = bad
        /\ result' = [outcome |-> IF slots[1].state = "answered" THEN "done" ELSE "failed",
                      retryable |-> Retryable(slots[1].error),
                      requests |-> slots[1].attempt, bad |-> slots[1].bad]
    BY <1>2 DEF CallEnds, Ended, history
  <2>2. /\ Requests(answered) = 0 /\ BadAnswers(answered) = 0
        /\ lost.requests = 0 /\ lost.bad = 0
    BY <1>0, <2>1 DEF AccountInv
  <2>3. half.requests = 0 /\ half.bad = 0
    BY <1>0, <2>1 DEF RecoveryInv, NoHalf, Halving
  <2>4. /\ sent = Requests(answered) + half.requests + lost.requests + slots[1].attempt
        /\ bad = BadAnswers(answered) + half.bad + lost.bad + slots[1].bad
        /\ slots[1].attempt \in Int /\ slots[1].bad \in Int
    BY <1>0, <2>1, AccountFacts DEF InFlight
  <2>5. sent = slots[1].attempt /\ bad = slots[1].bad
    BY <2>2, <2>3, <2>4
  <2> QED BY <2>1, <2>5 DEF AccountInv, AccountsAreExact
<1>3. CASE CheckWave
  BY <1>3, <1>e, EndFacts DEF CheckWave, history
<1>4. CASE SendWave
  <2>0. pc = "send" /\ wave \in Batch /\ UNCHANGED <<answered, half, lost, result>>
        /\ pc' = "gather"
    BY <1>0, <1>4, TypeFacts DEF SendWave
  <2>1. /\ \A i \in Slot :
              /\ slots'[i].bad = 0
              /\ IF InTheWave(i) THEN slots'[i].attempt = 1 ELSE slots'[i] = Free
        /\ bad' = bad
        /\ sent' = sent + IF 2 \in Slot /\ InTheWave(2) THEN 2 ELSE 1
    BY <1>0, <1>4, SendWaveEffect
  <2>2. InTheWave(1) /\ 1 \in Slot
    BY <2>0, WaveFacts, ConstantFacts
  <2>3. /\ slots'[1].attempt = 1 /\ slots'[1].bad = 0
        /\ 2 \in Slot => /\ slots'[2].bad = 0
                         /\ slots'[2].attempt = IF InTheWave(2) THEN 1 ELSE 0
    BY <2>1, <2>2, FreeIsACall
  <2>4. /\ AttemptsOf(slots') = IF 2 \in Slot /\ InTheWave(2) THEN 2 ELSE 1
        /\ BadOf(slots') = 0
    BY <1>t, <2>3, CallSums
  <2>5. /\ sent = Requests(answered) + half.requests + lost.requests
        /\ bad = BadAnswers(answered) + half.bad + lost.bad
    BY <1>0, <2>0, AccountFacts DEF InFlight
  <2>6. Accounts(sent', bad', answered', half', lost', slots')
    BY <1>0, <1>i, <2>0, <2>1, <2>4, <2>5, AccountFacts DEF Accounts
  <2> QED BY <1>a, <2>0, <2>6
<1>5. CASE Gather
  <2>0. /\ pc = "gather" /\ slots' = [i \in Slot |-> Free] /\ sent' = sent /\ bad' = bad
        /\ half' = half /\ result' = result /\ pc' \in {"wave", "waves over"}
    BY <1>5 DEF Gather, history
  <2>1. /\ Requests(answered') + lost'.requests =
              Requests(answered) + lost.requests + AttemptsOf(slots)
        /\ BadAnswers(answered') + lost'.bad = BadAnswers(answered) + lost.bad + BadOf(slots)
    BY <1>0, <1>5, GatherAccounts DEF AttemptsOf, BadOf
  <2>2. /\ sent = Requests(answered) + half.requests + lost.requests + AttemptsOf(slots)
        /\ bad = BadAnswers(answered) + half.bad + lost.bad + BadOf(slots)
    BY <1>0, <2>0 DEF AccountInv, Accounts
  <2>3. half.requests = 0 /\ half.bad = 0
    BY <1>0, <2>0, NoHalvesYet DEF Halving
  <2>4. /\ Requests(answered') \in Int /\ BadAnswers(answered') \in Int
        /\ lost'.requests \in Int /\ lost'.bad \in Int
    BY <1>t, RequestsFacts DEF TypeInv
  <2>5. /\ Requests(answered) \in Int /\ BadAnswers(answered) \in Int
        /\ lost.requests \in Int /\ lost.bad \in Int
        /\ AttemptsOf(slots) \in Int /\ BadOf(slots) \in Int
    BY <1>0, <2>0, AccountFacts, CallSums DEF TypeInv
  <2>6. /\ sent' = Requests(answered') + half'.requests + lost'.requests
        /\ bad' = BadAnswers(answered') + half'.bad + lost'.bad
    <3>0. half'.requests = 0 /\ half'.bad = 0
      BY <2>0, <2>3
    <3>1. /\ sent = Requests(answered) + lost.requests + AttemptsOf(slots)
          /\ bad = BadAnswers(answered) + lost.bad + BadOf(slots)
      BY <2>2, <2>3, <2>5
    <3>2. /\ sent' = Requests(answered') + lost'.requests
          /\ bad' = BadAnswers(answered') + lost'.bad
      BY <2>0, <2>1, <3>1
    <3> QED BY <2>4, <3>0, <3>2
  <2> QED BY <1>f, <2>0, <2>6
<1>6. CASE WavesOver
  <2>0. /\ pc = "waves over" /\ UNCHANGED <<sent, bad, answered, half, lost, slots>>
    BY <1>6 DEF WavesOver, history
  <2>1. CASE Finish(answered)
    <3>1. /\ sent = Requests(answered) + half.requests + lost.requests
          /\ bad = BadAnswers(answered) + half.bad + lost.bad
          /\ half.requests = 0 /\ half.bad = 0
          /\ Requests(answered) \in Int /\ BadAnswers(answered) \in Int
          /\ lost.requests \in Int /\ lost.bad \in Int
      BY <1>0, <2>0, AccountFacts DEF InFlight, Halving
    <3>2. /\ sent = Requests(answered) + lost.requests
          /\ bad = BadAnswers(answered) + lost.bad
      BY <3>1
    <3>3. /\ pc' = "ended" /\ result'.outcome \in {"done", "raised"}
          /\ result'.outcome = "done" =>
              /\ result'.requests = Requests(answered) + lost.requests
              /\ result'.bad = BadAnswers(answered) + lost.bad
      BY <1>0, <2>1, FinishFacts, TypeFacts
    <3> QED BY <1>d, <2>0, <3>2, <3>3
  <2>2. CASE Fail(failures[First(failures)], FALSE, 0)
    <3>1. FALSE \in BOOLEAN /\ 0 \in Int
      OBVIOUS
    <3>2. result'.outcome = "failed" /\ pc' = "ended"
      BY <2>2, <3>1, FailFacts
    <3> QED BY <1>b, <3>2
  <2>3. CASE pc' = "before pause" /\ result' = result
    BY <1>e, <2>0, <2>3
  <2> QED BY <1>6, <2>1, <2>2, <2>3 DEF WavesOver
<1>7. CASE Boundary
  BY <1>e, <1>7, EndFacts DEF Boundary, AfterBoundary, history
<1>8. CASE Pause
  <2>0. /\ pc = "pause" /\ UNCHANGED <<sent, bad, answered, half, lost, slots>>
    BY <1>8 DEF Pause, Keep, history
  <2>1. CASE pc' = "after pause" /\ result' = result
    BY <1>e, <2>0, <2>1
  <2>2. CASE GiveUp
    <3>1. RequestsSoFar = sent
      BY <1>0, <2>0, AccountFacts DEF InFlight
    <3> QED BY <1>0, <1>c, <2>0, <2>2, <3>1, GiveUpEffect
  <2> QED BY <1>8, <2>1, <2>2 DEF Pause
<1>9. CASE Replay
  <2>1. Batches[current] \in SUBSET Tasks
    BY <1>9, <1>p, ConstantFacts DEF Replay, Recovering
  <2> QED BY <1>9, <1>h, <2>1 DEF Replay, Keep
<1>10. CASE Half
  <2>0. half \in Halves /\ pc = "half" /\ UNCHANGED <<answered, lost>>
    BY <1>0, <1>10, TypeFacts DEF Half, Keep
  <2>1. PICK t \in half.next :
          /\ RecoveryCall({t}, "halving")
          /\ half' = IF pc' = "halving" THEN [half EXCEPT !.next = @ \ {t}] ELSE half
    BY <1>10 DEF Half
  <2>2. {t} \in SUBSET Tasks /\ half'.requests = half.requests /\ half'.bad = half.bad
    BY <2>0, <2>1 DEF Halves
  <2> QED BY <1>h, <2>0, <2>1, <2>2
\* An answer to the batch in recovery, in one piece or in two.
<1>r. ASSUME NEW a \in Answers, Recovered(a), lost' = lost, failures' = failures,
             half' = NoHalf, slots' = [i \in Slot |-> Free], UNCHANGED <<sent, bad>>,
             pc \in {"replaying", "halving"},
             a.requests = half.requests + slots[1].attempt, a.bad = half.bad + slots[1].bad
      PROVE  AccountInv' /\ AccountsAreExact'
  <2>0. pc \in Recovering /\ pc \in InFlight \ {"gather"} /\ pc # "ended"
    BY <1>r DEF Recovering, Halving, InFlight
  <2>1. current \in Batch /\ answered[current] = NoAnswer
    <3>1. current \in Batch /\ ~(current < current)
      BY <1>p, <2>0, BatchNumbers
    <3> QED BY <1>p, <2>0, <3>1 DEF Progress, Failing
  <2>2. /\ Requests(answered) \in Int /\ BadAnswers(answered) \in Int
        /\ half.requests \in Int /\ half.bad \in Int
        /\ lost.requests \in Int /\ lost.bad \in Int
        /\ sent = Requests(answered) + half.requests + lost.requests + slots[1].attempt
        /\ bad = BadAnswers(answered) + half.bad + lost.bad + slots[1].bad
        /\ slots[1].attempt \in Int /\ slots[1].bad \in Int
    BY <1>0, <2>0, AccountFacts
  <2>3. /\ answered' = [answered EXCEPT ![current] = a] /\ answered' \in [Batch -> Answers]
        /\ answered \in [Batch -> Answers]
    BY <1>0, <1>r, <2>1, RecoveredEffect, TypeFacts
  <2>4. /\ Requests(answered') = Requests(answered) + a.requests - answered[current].requests
        /\ BadAnswers(answered') = BadAnswers(answered) + a.bad - answered[current].bad
    BY <2>1, <2>3, RequestsFacts
  <2>5. /\ Requests(answered') = Requests(answered) + half.requests + slots[1].attempt
        /\ BadAnswers(answered') = BadAnswers(answered) + half.bad + slots[1].bad
    BY <1>r, <2>1, <2>2, <2>4, NoAnswerIsAnAnswer
  <2>6. /\ sent' = Requests(answered') + lost.requests
        /\ bad' = BadAnswers(answered') + lost.bad
    BY <1>r, <2>2, <2>5
  <2>7. CASE pc' = "before pause" /\ result' = result
    <3>1. half'.requests = 0 /\ half'.bad = 0
      BY <1>r DEF NoHalf
    <3>2. Requests(answered') \in Int /\ BadAnswers(answered') \in Int
      BY <2>3, RequestsFacts
    <3>3. /\ sent' = Requests(answered') + half'.requests + lost'.requests
          /\ bad' = BadAnswers(answered') + half'.bad + lost'.bad
      BY <1>r, <2>2, <2>6, <3>1, <3>2
    <3> QED BY <1>f, <1>r, <2>0, <2>7, <3>3
  <2>8. CASE /\ pc' = "ended" /\ result'.outcome \in {"done", "raised"}
             /\ result'.outcome = "done" =>
                    /\ result'.requests = Requests(answered') + lost.requests
                    /\ result'.bad = BadAnswers(answered') + lost.bad
    BY <1>d, <2>6, <2>8
  <2> QED BY <1>0, <1>r, <2>1, <2>7, <2>8, RecoveredEffect
\* A failure in recovery.
<1>s. ASSUME pc \in {"replaying", "halving"}, Lose(slots[1]), UNCHANGED <<answered, sent, bad>>
      PROVE  /\ sent' = RequestsSoFar + slots[1].attempt
             /\ sent' = Requests(answered') + half.requests + lost'.requests
             /\ bad' = BadAnswers(answered') + half.bad + lost'.bad
             /\ slots[1] \in Calls
  <2>0. pc \in InFlight \ {"gather"} /\ pc # "ended"
    BY <1>s DEF InFlight
  <2>1. slots[1] \in Calls
    BY <1>0, TypeFacts, ConstantFacts
  <2>2. lost'.requests = lost.requests + slots[1].attempt /\ lost'.bad = lost.bad + slots[1].bad
    BY <1>0, <1>s, <2>1, LoseEffect
  <2>3. /\ Requests(answered) \in Int /\ BadAnswers(answered) \in Int
        /\ half.requests \in Int /\ half.bad \in Int
        /\ lost.requests \in Int /\ lost.bad \in Int
        /\ RequestsSoFar = Requests(answered) + half.requests + lost.requests
        /\ sent = Requests(answered) + half.requests + lost.requests + slots[1].attempt
        /\ bad = BadAnswers(answered) + half.bad + lost.bad + slots[1].bad
        /\ slots[1].attempt \in Int /\ slots[1].bad \in Int
    BY <1>0, <2>0, AccountFacts
  <2>4. answered' = answered /\ sent' = sent /\ bad' = bad
    BY <1>s
  <2> QED BY <2>1, <2>2, <2>3, <2>4
<1>11. CASE ReplayEnds
  <2>0. /\ pc = "replaying" /\ slots[1] \in Calls /\ slots' = [i \in Slot |-> Free]
        /\ half = NoHalf /\ sent' = sent /\ bad' = bad
    BY <1>0, <1>11, TypeFacts, ConstantFacts DEF ReplayEnds, RecoveryInv, Halving, history
  <2>1. CASE slots[1].state = "answered"
    <3>1. Recovered(AnswerOf(slots[1])) /\ UNCHANGED <<failures, half, lost>>
      BY <1>11, <2>1 DEF ReplayEnds
    <3>2. AnswerOf(slots[1]) \in Answers
          /\ AnswerOf(slots[1]).requests = slots[1].attempt
          /\ AnswerOf(slots[1]).bad = slots[1].bad
      BY <2>0 DEF AnswerOf, Answers, Calls
    <3>3. half.requests + slots[1].attempt = slots[1].attempt
          /\ half.bad + slots[1].bad = slots[1].bad
      BY <2>0 DEF NoHalf, Calls
    <3> QED BY <1>r, <2>0, <3>1, <3>2, <3>3
  <2>2. CASE slots[1].state = "failed"
    <3>1. /\ Lose(slots[1]) /\ answered' = answered
          /\ \/ /\ half' = [NoHalf EXCEPT !.next = Batches[current]]
                /\ pc' = "before half" /\ result' = result
             \/ GiveUpWith(slots[1])
      BY <1>11, <2>2 DEF ReplayEnds
    <3>2. /\ sent' = RequestsSoFar + slots[1].attempt
          /\ sent' = Requests(answered') + half.requests + lost'.requests
          /\ bad' = BadAnswers(answered') + half.bad + lost'.bad
      BY <1>s, <2>0, <3>1
    <3>3. CASE GiveUpWith(slots[1])
      BY <1>0, <1>c, <2>0, <3>2, <3>3, GiveUpWithEffect
    <3>4. CASE /\ half' = [NoHalf EXCEPT !.next = Batches[current]]
               /\ pc' = "before half" /\ result' = result
      <4>1. half'.requests = half.requests /\ half'.bad = half.bad
        BY <2>0, <3>4 DEF NoHalf
      <4> QED BY <1>f, <2>0, <3>2, <3>4, <4>1
    <3> QED BY <3>1, <3>3, <3>4
  <2> QED BY <1>11, <2>1, <2>2 DEF ReplayEnds
<1>12. CASE HalfEnds
  <2> DEFINE h == AddHalf(slots[1])
  <2>0. /\ pc = "halving" /\ slots[1] \in Calls /\ slots' = [i \in Slot |-> Free]
        /\ half \in Halves /\ sent' = sent /\ bad' = bad /\ failures' = failures
    BY <1>0, <1>12, TypeFacts, ConstantFacts DEF HalfEnds, history
  <2>1. CASE slots[1].state = "answered" /\ h.next # {}
    <3>1. half' = h /\ pc' = "before half" /\ UNCHANGED <<answered, lost, result>>
      BY <1>12, <2>1 DEF HalfEnds
    <3>2. h.requests = half.requests + slots[1].attempt /\ h.bad = half.bad + slots[1].bad
      BY <2>0 DEF AddHalf, Halves
    <3>3. pc \in InFlight \ {"gather"} /\ pc # "ended"
      BY <2>0 DEF InFlight
    <3>4. /\ Requests(answered) \in Int /\ BadAnswers(answered) \in Int
          /\ half.requests \in Int /\ half.bad \in Int
          /\ lost.requests \in Int /\ lost.bad \in Int
          /\ sent = Requests(answered) + half.requests + lost.requests + slots[1].attempt
          /\ bad = BadAnswers(answered) + half.bad + lost.bad + slots[1].bad
          /\ slots[1].attempt \in Int /\ slots[1].bad \in Int
      BY <1>0, <3>3, AccountFacts
    <3> HIDE DEF h
    <3>5. /\ sent' = Requests(answered') + half'.requests + lost'.requests
          /\ bad' = BadAnswers(answered') + half'.bad + lost'.bad
      <4>1. /\ half'.requests = half.requests + slots[1].attempt
            /\ half'.bad = half.bad + slots[1].bad
        BY <3>1, <3>2
      <4>2. /\ Requests(answered') = Requests(answered) /\ BadAnswers(answered') = BadAnswers(answered)
            /\ lost' = lost
        BY <3>1
      <4> QED BY <2>0, <3>4, <4>1, <4>2
    <3> QED BY <1>f, <2>0, <3>1, <3>5
  <2>2. CASE slots[1].state = "answered" /\ h.next = {}
    <3>1. /\ half' = NoHalf /\ lost' = lost
          /\ \/ Cardinality(h.models) = 1 /\ Recovered(Merged(h))
             \/ End("raised")
      BY <1>12, <2>2 DEF HalfEnds
    <3>2. CASE Cardinality(h.models) = 1 /\ Recovered(Merged(h))
      <4>1. /\ Merged(h) \in Answers
            /\ Merged(h).requests = half.requests + slots[1].attempt
            /\ Merged(h).bad = half.bad + slots[1].bad
        BY <1>0, <3>2, MergedFacts
      <4> HIDE DEF h
      <4> QED BY <1>r, <2>0, <3>1, <3>2, <4>1
    <3>3. CASE End("raised")
      BY <1>b, <3>3, EndFacts
    <3> QED BY <3>1, <3>2, <3>3
  <2>3. CASE slots[1].state = "failed"
    <3>1. Lose(slots[1]) /\ GiveUpWith(slots[1]) /\ answered' = answered
      BY <1>12, <2>3 DEF HalfEnds
    <3>2. sent' = RequestsSoFar + slots[1].attempt
      BY <1>s, <2>0, <3>1
    <3> QED BY <1>0, <1>c, <2>0, <3>1, <3>2, GiveUpWithEffect
  <2> QED BY <1>12, <2>1, <2>2, <2>3 DEF HalfEnds
<1>13. ASSUME NEW i \in Slot, Answer(i) PROVE AccountInv' /\ AccountsAreExact'
  <2>1. PICK d \in Calls :
          /\ slots[i].state = "waiting" /\ slots' = [slots EXCEPT ![i] = d]
          /\ sent' = sent + d.attempt - slots[i].attempt
          /\ bad' = bad + d.bad - slots[i].bad
          /\ UNCHANGED <<stageVars, envVars, after>>
    BY <1>0, <1>13, AnswerEffect
  <2>2. UNCHANGED <<pc, answered, half, lost, result>> /\ pc # "ended"
    BY <1>0, <2>1 DEF stageVars, SlotInv, Over
  <2>3. /\ AttemptsOf(slots') = AttemptsOf(slots) + d.attempt - slots[i].attempt
        /\ BadOf(slots') = BadOf(slots) + d.bad - slots[i].bad
    BY <1>0, <2>1, UpdatedSums DEF TypeInv
  <2>4. /\ sent = Requests(answered) + half.requests + lost.requests + AttemptsOf(slots)
        /\ bad = BadAnswers(answered) + half.bad + lost.bad + BadOf(slots)
    BY <1>0, <2>2 DEF AccountInv, Accounts
  <2>5. /\ Requests(answered) \in Int /\ BadAnswers(answered) \in Int
        /\ half.requests \in Int /\ half.bad \in Int
        /\ lost.requests \in Int /\ lost.bad \in Int
    BY <1>0, <2>2, AccountFacts
  <2>6. /\ AttemptsOf(slots) \in Int /\ BadOf(slots) \in Int
        /\ slots[i].attempt \in Int /\ slots[i].bad \in Int
        /\ d.attempt \in Int /\ d.bad \in Int
    BY <1>0, CallSums DEF TypeInv, Calls
  <2>7. Accounts(sent', bad', answered', half', lost', slots')
    BY <2>1, <2>2, <2>3, <2>4, <2>5, <2>6 DEF Accounts
  <2> QED BY <1>0, <1>n, <2>2, <2>7 DEF AccountInv, AccountsAreExact
<1>14. CASE RequestCancellation \/ DeadlinePasses \/ UNCHANGED vars
  <2>1. UNCHANGED <<pc, sent, bad, answered, half, lost, slots, result>>
    BY <1>14 DEF RequestCancellation, DeadlinePasses, vars, stageVars, history
  <2> QED BY <1>0, <2>1 DEF AccountInv, AccountsAreExact
<1> QED BY <1>1, <1>2, <1>3, <1>4, <1>5, <1>6, <1>7, <1>8, <1>9, <1>10, <1>11, <1>12,
           <1>13, <1>14, SomeAction

------------------------------------------------------------------------------
(* The theorems *)

LEMMA InitInv == Init => IInv
<1> SUFFICES ASSUME Init PROVE IInv
  OBVIOUS
<1>0. mode \in Modes /\ Modes \subseteq Mode
  BY ModelCallsAssumption DEF Init
<1>1. TypeInv
  <2>1. slots \in [Slot -> Calls] /\ answered \in [Batch -> Answers]
    BY FreeIsACall, NoAnswerIsAnAnswer DEF Init
  <2>2. failures \in [Batch -> Errors] /\ wave \in Batch /\ pc \in Places
    BY ConstantFacts DEF Init, Errors, Places
  <2>3. half \in Halves /\ lost \in [requests : Int, bad : Int] /\ result \in Results
    BY DEF Init, NoHalf, Halves, NoResult, Results, Outcomes
  <2>4. recovery \in 0..MaxRecoveryCalls
    BY ModelCallsAssumption DEF Init
  <2> QED BY <1>0, <2>1, <2>2, <2>3, <2>4 DEF Init, TypeInv
<1>2. SlotInv
  BY FreeIsACall DEF Init, SlotInv, InFlight
<1>3. WaveInv
  <2>1. \A b \in Batch : ~(b < wave) /\ Untouched(b)
    BY BatchNumbers, ConstantFacts DEF Init, Untouched
  <2> QED BY <2>1 DEF WaveInv, Init
<1>4. RecoveryInv
  BY DEF Init, RecoveryInv, Recovering, Halving
<1>5. PlaceInv
  BY <1>0 DEF Init, PlaceInv
<1>6. CancelInv
  BY ConstantFacts DEF Init, CancelInv
<1>7. AccountInv
  <2>1. AttemptsOf(slots) = 0 /\ BadOf(slots) = 0
    BY <1>1, FreeSums DEF Init, TypeInv
  <2>2. Requests(answered) = 0 /\ BadAnswers(answered) = 0
    <3> DEFINE r == [b \in Batch |-> answered[b].requests]
               w == [b \in Batch |-> answered[b].bad]
    <3>1. DOMAIN r = Batch /\ DOMAIN w = Batch /\ \A b \in Batch : r[b] = 0 /\ w[b] = 0
      BY NoAnswerIsAnAnswer DEF Init
    <3> HIDE DEF r, w
    <3>2. SumFunction(r) = 0 /\ SumFunction(w) = 0
      BY <3>1, ConstantFacts, SumOfZeros
    <3> QED BY <3>2 DEF Requests, BadAnswers, r, w
  <2>3. half.requests = 0 /\ half.bad = 0 /\ lost.requests = 0 /\ lost.bad = 0
    BY DEF Init, NoHalf
  <2>4. sent = 0 /\ bad = 0
    BY DEF Init
  <2> QED BY <2>1, <2>2, <2>3, <2>4 DEF AccountInv, Accounts
<1>8. EveryTaskIsAnswered /\ AccountsAreExact
  BY DEF Init, EveryTaskIsAnswered, AccountsAreExact, NoResult
<1> QED BY <1>1, <1>2, <1>3, <1>4, <1>5, <1>6, <1>7, <1>8 DEF IInv

LEMMA Invariance == Spec => []IInv
<1>1. ASSUME IInv, [Next]_vars PROVE IInv'
  BY <1>1, TypeStep, SlotStep, WaveStep, RecoveryStep, PlaceStep, CancelStep,
     AccountStep, AnsweredStep DEF IInv
<1> QED BY <1>1, InitInv, PTL DEF Spec

\* The calls of a stage stay within their attempts, its waves within the batches,
\* its recovery within the budget of calls, and a half asks for the tasks of the
\* stage only, whatever the provider answers.
THEOREM TypeCorrect == Spec => []TypeOK
<1>1. IInv => TypeOK
  <2> SUFFICES ASSUME IInv PROVE TypeOK
    OBVIOUS
  <2>1. TypeInv /\ SlotInv
    BY DEF IInv
  <2>2. \A i \in Slot : slots[i].attempt \in 0..slots[i].limit /\ slots[i].limit \in 0..3
    <3> TAKE i \in Slot
    <3>1. slots[i].attempt \in 0..3 /\ slots[i].limit \in 0..3
          /\ slots[i].attempt <= slots[i].limit
      BY <2>1 DEF TypeInv, SlotInv, Calls, CallOK
    <3> QED BY <3>1
  <2>3. wave \in 1..Len(Batches)
    BY <2>1, ConstantFacts DEF TypeInv
  <2>4. half.tasks \union half.next \subseteq UNION {Batches[b] : b \in Batch}
    BY <2>1 DEF TypeInv, Halves, Tasks
  <2>5. result.outcome \in {"none", "done", "failed", "exhausted", "cancelled", "raised"}
    BY <2>1 DEF TypeInv, Results, Outcomes
  <2> QED BY <2>1, <2>2, <2>3, <2>4, <2>5 DEF TypeInv, TypeOK
<1> QED BY <1>1, Invariance, PTL

\* A stage of batches that reports success has, for every batch, an answer to
\* exactly its tasks: after failed waves, replays and halves too.
THEOREM TasksAnswered == Spec => []EveryTaskIsAnswered
<1>1. IInv => EveryTaskIsAnswered
  BY DEF IInv
<1> QED BY <1>1, Invariance, PTL

\* What a stage reports it has spent is what it has sent, and what it reports was
\* refused is what was refused: no request is dropped or counted twice on the way
\* through answers, failures, replays and halves.
THEOREM AccountsKept == Spec => []AccountsAreExact
<1>1. IInv => AccountsAreExact
  BY DEF IInv
<1> QED BY <1>1, Invariance, PTL

\* After the owner has cancelled, no more calls begin than fit in one wave.
THEOREM SpendingStops == Spec => []CancelBoundsSpending
<1>1. IInv => CancelBoundsSpending
  BY DEF IInv, CancelInv, CancelBoundsSpending
<1> QED BY <1>1, Invariance, PTL
=============================================================================
