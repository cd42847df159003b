-------------------------- MODULE AdmissionProofs --------------------------
(***************************************************************************)
(* For any number of machines of any sizes: what admission has let in fits, *)
(* and after a reboot there is room for all that was on.                    *)
(***************************************************************************)
EXTENDS Admission, FiniteSetTheorems, WellFoundedInduction, TLAPS

-----------------------------------------------------------------------------
(* The inductive invariant.  It says nothing of a run in which one of the    *)
(* things has happened that admission does not see.                          *)

Calm == upset \subseteq {"reboot"}

\* What a machine may come to use without asking again.
Claim == [m \in Machines |-> IF api[m].pc = "grow" THEN api[m].size ELSE row[m].size]

\* What is counted would fit, growths under way included.
ClaimsFit == Total(Claim, Counted) <= Host

\* A request finds its row as it left it, and a machine that is ON has its memory and
\* is meant to run.
RowAgrees(m) ==
    /\ row[m].state # "error"
    /\ row[m].state = "on" => row[m].desired /\ limit[m] = row[m].size /\ api[m].pc \in {"idle", "grow"}
    /\ api[m].pc = "on" => row[m].state = "starting" /\ api[m].size = row[m].size
    /\ api[m].pc = "off" => row[m].state = "stopping"
    /\ api[m].pc = "grow" => row[m].state \in {"on", "off"} /\ row[m].size < api[m].size

\* What runs is ON or being stopped.
RunsOn(m) == m \in running => row[m].state = "on" \/ api[m].pc = "off"

\* Only a reboot leaves a row in between with no request at work on it, and whoever
\* has looked since has seen the machine down.
SeenDown(m) ==
    row[m].state \in {"starting", "stopping"} /\ api[m] = Idle => ~(wk.pc = "observed" /\ wk.m = m /\ wk.on)

MachinesAgree == \A m \in Machines : RowAgrees(m) /\ RunsOn(m) /\ SeenDown(m)

\* The reconciler's copies, and what it has decided by them.
CopiesAgree == wk.pc # "idle" => \A m \in Machines :
    wk.rows[m].state # "error" /\ (wk.rows[m].state = "on" => wk.rows[m].desired)
DecisionsStand ==
    /\ wk.pc = "start" => wk.rows[wk.m].state = "on" /\ row[wk.m].state = "on"
    /\ wk.pc = "stop" => wk.rows[wk.m].state = "off"

CalmInv == ClaimsFit /\ MachinesAgree /\ CopiesAgree /\ DecisionsStand
IInv == TypeOK /\ (Calm => CalmInv)
-----------------------------------------------------------------------------
(* Sums of memory.  MapThenSumSet adds up in an order of its choice; these   *)
(* lemmas say that the order does not matter, by the smallest set for which  *)
(* it would.                                                                 *)

\* The machine that is added next.
Any(s) == CHOOSE x \in s : TRUE
Adds(f, g, s) == IF s = {} THEN 0 ELSE f[Any(s)] + g[s \ {Any(s)}]
AddsUp(f, g, D) == g = [s \in D |-> Adds(f, g, s)]
Upto(S, n) == {t \in SUBSET S : Cardinality(t) <= n}
Weighs(f, S) == \A x \in S : f[x] \in Nat

LEMMA Least == ASSUME NEW A \in SUBSET Nat, A # {} PROVE \E n \in A : \A k \in A : n <= k
  <1>1. IsWellFoundedOn(OpToRel(<, Nat), Nat)
    BY NatLessThanWellFounded
  <1>2. PICK n \in A : \A k \in A : ~ (<<k, n>> \in OpToRel(<, Nat))
    BY <1>1, WFMin
  <1>3. \A k \in A : ~(k < n)
    BY <1>2 DEF OpToRel
  <1> QED
    BY <1>3

\* Up to every size, there is a function that adds up.
LEMMA Partial ==
    ASSUME NEW f, NEW S, IsFiniteSet(S), NEW n \in Nat
    PROVE  \E g : AddsUp(f, g, Upto(S, n))
  <1> DEFINE Sums(k) == \E g : AddsUp(f, g, Upto(S, k))
             Bad == {k \in Nat : ~ Sums(k)}
  <1>1. SUFFICES ASSUME Bad # {} PROVE FALSE
    BY Zenon
  <1>2. PICK k \in Bad : \A j \in Bad : k <= j
    BY <1>1, Least
  <1>3. \A t \in SUBSET S : IsFiniteSet(t) /\ Cardinality(t) \in Nat
    BY FS_Subset, FS_CardinalityType
  <1>4. \A t \in SUBSET S : t # {} =>
          Any(t) \in t /\ t \ {Any(t)} \in SUBSET S /\ Cardinality(t \ {Any(t)}) = Cardinality(t) - 1
    <2>1. ASSUME NEW t \in SUBSET S, t # {}
          PROVE  Any(t) \in t /\ t \ {Any(t)} \in SUBSET S /\ Cardinality(t \ {Any(t)}) = Cardinality(t) - 1
      <3>1. Any(t) \in t
        BY <2>1 DEF Any
      <3>2. Cardinality(t \ {Any(t)}) = Cardinality(t) - 1
        BY <3>1, <1>3, FS_RemoveElement
      <3> QED
        BY <3>1, <3>2
    <2> QED
      BY <2>1
  <1>5. CASE k = 0
    <2> DEFINE g == [s \in Upto(S, 0) |-> 0]
    <2>1. \A s \in Upto(S, 0) : s = {}
      BY <1>3, FS_EmptySet DEF Upto
    <2>2. AddsUp(f, g, Upto(S, 0))
      BY <2>1 DEF Adds, AddsUp
    <2> QED
      BY <1>2, <1>5, <2>2
  <1>6. CASE k # 0
    <2>1. k - 1 \in Nat /\ Sums(k - 1)
      <3> HIDE DEF Sums
      <3> QED
        BY <1>2, <1>6
    <2>2. PICK g : AddsUp(f, g, Upto(S, k - 1))
      BY <2>1
    <2> DEFINE h == [s \in Upto(S, k) |-> Adds(f, g, s)]
    <2>3. \A s \in Upto(S, k) : s # {} => s \ {Any(s)} \in Upto(S, k - 1)
      BY <1>2, <1>3, <1>4 DEF Upto
    <2>4. \A s \in Upto(S, k - 1) : h[s] = g[s]
      <3>1. Upto(S, k - 1) \subseteq Upto(S, k)
        BY <1>2, <1>3 DEF Upto
      <3> QED
        BY <2>2, <3>1 DEF AddsUp
    <2>5. \A s \in Upto(S, k) : Adds(f, h, s) = Adds(f, g, s)
      <3> HIDE DEF h
      <3> QED
        BY <2>3, <2>4 DEF Adds
    <2>6. AddsUp(f, h, Upto(S, k))
      BY <2>5 DEF AddsUp
    <2> QED
      BY <1>2, <2>6
  <1> QED
    BY <1>5, <1>6

\* What Total computes: g goes through the machines one by one.
LEMMA TotalSteps ==
    ASSUME NEW f, NEW S, IsFiniteSet(S)
    PROVE  \E g : AddsUp(f, g, SUBSET S) /\ Total(f, S) = g[S]
  <1>1. \E g : AddsUp(f, g, SUBSET S)
    <2>1. \A t \in SUBSET S : Cardinality(t) <= Cardinality(S)
      BY FS_Subset
    <2>2. PICK n \in Nat : n = Cardinality(S)
      BY FS_CardinalityType
    <2>3. Upto(S, n) = SUBSET S
      BY <2>1, <2>2 DEF Upto
    <2>4. \E g : AddsUp(f, g, Upto(S, n))
      BY Partial
    <2> QED
      BY <2>3, <2>4
  <1>2. Total(f, S) = (CHOOSE g : AddsUp(f, g, SUBSET S))[S]
    BY DEF Total, MapThenSumSet, MapThenFoldSet, Any, Adds, AddsUp
  <1> QED
    BY <1>1, <1>2

LEMMA Smallest ==
    ASSUME NEW S, IsFiniteSet(S), NEW W \in SUBSET SUBSET S, W # {}
    PROVE  \E s \in W : \A t \in W : t \subseteq s => t = s
  <1> DEFINE Counts == {n \in Nat : \E s \in W : Cardinality(s) = n}
  <1>1. \A s \in W : IsFiniteSet(s) /\ Cardinality(s) \in Nat
    BY FS_Subset, FS_CardinalityType
  <1>2. Counts \in SUBSET Nat /\ Counts # {}
    BY <1>1
  <1>3. PICK n \in Counts : \A k \in Counts : n <= k
    <2> HIDE DEF Counts
    <2> QED
      BY <1>2, Least
  <1>4. PICK s \in W : Cardinality(s) = n
    BY <1>3
  <1>5. ASSUME NEW t \in W, t \subseteq s, t # s PROVE FALSE
    <2>1. n <= Cardinality(t)
      BY <1>1, <1>3
    <2>2. IsFiniteSet(s) /\ t \in SUBSET s
      BY <1>1, <1>5
    <2>3. Cardinality(t) <= Cardinality(s) /\ (Cardinality(s) = Cardinality(t) => s = t)
      BY <2>2, FS_Subset
    <2> QED
      BY <1>1, <1>4, <1>5, <2>1, <2>3
  <1> QED
    BY <1>5

LEMMA SumsAreNat ==
    ASSUME NEW f, NEW S, IsFiniteSet(S), Weighs(f, S), NEW g, AddsUp(f, g, SUBSET S)
    PROVE  \A s \in SUBSET S : g[s] \in Nat
  <1> DEFINE W == {s \in SUBSET S : g[s] \notin Nat}
  <1>1. SUFFICES ASSUME W # {} PROVE FALSE
    OBVIOUS
  <1>2. PICK s \in W : \A t \in W : t \subseteq s => t = s
    <2>1. W \in SUBSET SUBSET S
      OBVIOUS
    <2> HIDE DEF W
    <2> QED
      BY <1>1, <2>1, Smallest
  <1>3. g[s] = Adds(f, g, s)
    BY <1>2 DEF AddsUp
  <1>4. s # {}
    BY <1>2, <1>3 DEF Adds
  <1>5. Any(s) \in s
    BY <1>4 DEF Any
  <1>6. g[s \ {Any(s)}] \in Nat
    BY <1>2, <1>5
  <1> QED
    BY <1>2, <1>3, <1>4, <1>5, <1>6 DEF Adds, Weighs

\* Any machine may be added last.
LEMMA AnyOrder ==
    ASSUME NEW f, NEW S, IsFiniteSet(S), Weighs(f, S), NEW g, AddsUp(f, g, SUBSET S)
    PROVE  \A s \in SUBSET S : \A x \in s : g[s] = f[x] + g[s \ {x}]
  <1> DEFINE W == {s \in SUBSET S : \E x \in s : g[s] # f[x] + g[s \ {x}]}
  <1>1. SUFFICES ASSUME W # {} PROVE FALSE
    OBVIOUS
  <1>2. PICK s \in W : \A t \in W : t \subseteq s => t = s
    <2>1. W \in SUBSET SUBSET S
      OBVIOUS
    <2> HIDE DEF W
    <2> QED
      BY <1>1, <2>1, Smallest
  <1>3. PICK x \in s : g[s] # f[x] + g[s \ {x}]
    BY <1>2
  <1>4. Any(s) \in s
    BY <1>3 DEF Any
  <1>5. PICK y \in s : y = Any(s)
    BY <1>4
  <1>6. g[s] = f[y] + g[s \ {y}]
    BY <1>2, <1>3, <1>5 DEF Adds, AddsUp
  <1>7. g[s \ {y}] = f[x] + g[(s \ {y}) \ {x}]
    BY <1>2, <1>3, <1>5, <1>6
  <1>8. g[s \ {x}] = f[y] + g[(s \ {x}) \ {y}]
    BY <1>2, <1>3, <1>5, <1>6
  <1>9. g[(s \ {y}) \ {x}] = g[(s \ {x}) \ {y}]
    <2>1. (s \ {y}) \ {x} = (s \ {x}) \ {y}
      OBVIOUS
    <2> QED
      BY <2>1, Zenon
  <1>10. f[x] \in Nat /\ f[y] \in Nat /\ g[(s \ {x}) \ {y}] \in Nat
    BY <1>2, <1>3, SumsAreNat DEF Weighs
  <1> QED
    BY <1>3, <1>6, <1>7, <1>8, <1>9, <1>10

LEMMA TotalIsNat ==
    ASSUME NEW f, NEW S, IsFiniteSet(S), Weighs(f, S)
    PROVE  Total(f, S) \in Nat
  <1>1. PICK g : AddsUp(f, g, SUBSET S) /\ Total(f, S) = g[S]
    BY TotalSteps
  <1>2. \A s \in SUBSET S : g[s] \in Nat
    BY <1>1, SumsAreNat
  <1> QED
    BY <1>1, <1>2

\* The sum over some machines is what one of them has and the sum over the others.
LEMMA TotalRemove ==
    ASSUME NEW f, NEW S, IsFiniteSet(S), Weighs(f, S), NEW x \in S
    PROVE  Total(f, S) = f[x] + Total(f, S \ {x})
  <1> DEFINE U == S \ {x}
  <1>1. IsFiniteSet(U) /\ Weighs(f, U)
    BY FS_Subset DEF Weighs
  <1>2. PICK g : AddsUp(f, g, SUBSET S) /\ Total(f, S) = g[S]
    BY TotalSteps
  <1>3. PICK h : AddsUp(f, h, SUBSET U) /\ Total(f, U) = h[U]
    BY <1>1, TotalSteps
  <1>4. \A s \in SUBSET U : g[s] = h[s]
    <2> DEFINE W == {s \in SUBSET U : g[s] # h[s]}
    <2>1. SUFFICES ASSUME W # {} PROVE FALSE
      OBVIOUS
    <2>2. PICK s \in W : \A t \in W : t \subseteq s => t = s
      <3>1. W \in SUBSET SUBSET U
        OBVIOUS
      <3> HIDE DEF W
      <3> QED
        BY <1>1, <2>1, <3>1, Smallest
    <2>3. g[s] = Adds(f, g, s) /\ h[s] = Adds(f, h, s)
      BY <1>2, <1>3, <2>2 DEF AddsUp
    <2>4. s # {}
      BY <2>2, <2>3 DEF Adds
    <2>5. Any(s) \in s
      BY <2>4 DEF Any
    <2>6. g[s \ {Any(s)}] = h[s \ {Any(s)}]
      BY <2>2, <2>5
    <2> QED
      BY <2>2, <2>3, <2>6 DEF Adds
  <1>5. g[S] = f[x] + g[U]
    BY <1>2, AnyOrder
  <1> QED
    BY <1>2, <1>3, <1>4, <1>5

LEMMA TotalEmpty == ASSUME NEW f PROVE Total(f, {}) = 0
  <1>1. IsFiniteSet({})
    BY FS_EmptySet
  <1>2. PICK g : AddsUp(f, g, SUBSET {}) /\ Total(f, {}) = g[{}]
    BY <1>1, TotalSteps
  <1> QED
    BY <1>2 DEF AddsUp, Adds

\* Fewer machines of no larger size take no more memory.
LEMMA TotalGrows ==
    ASSUME NEW f, NEW h, NEW S, IsFiniteSet(S), Weighs(h, S), NEW T \in SUBSET S,
           Weighs(f, T), \A x \in T : f[x] <= h[x]
    PROVE  Total(f, T) <= Total(h, S)
  <1> DEFINE W == {u \in SUBSET S : ~ (Total(f, T \cap u) <= Total(h, u))}
  <1>1. SUFFICES ASSUME W # {} PROVE FALSE
    <2>1. S \notin W
      BY <1>1
    <2>2. T \cap S = T
      OBVIOUS
    <2> QED
      BY <2>1, <2>2, Zenon
  <1>2. PICK u \in W : \A t \in W : t \subseteq u => t = u
    <2>1. W \in SUBSET SUBSET S
      OBVIOUS
    <2> HIDE DEF W
    <2> QED
      BY <1>1, <2>1, Smallest
  <1>3. IsFiniteSet(u) /\ IsFiniteSet(T \cap u) /\ Weighs(h, u) /\ Weighs(f, T \cap u)
    BY <1>2, FS_Subset DEF Weighs
  <1>4. u # {}
    <2>1. Total(f, T \cap {}) = 0 /\ Total(h, {}) = 0
      <3>1. T \cap {} = {}
        OBVIOUS
      <3> QED
        BY <3>1, TotalEmpty, Zenon
    <2>2. Total(f, T \cap {}) <= Total(h, {})
      BY <2>1
    <2> QED
      BY <1>2, <2>2, Zenon
  <1>5. PICK x \in u : TRUE
    BY <1>4
  <1>6. Total(f, T \cap (u \ {x})) <= Total(h, u \ {x})
    BY <1>2, <1>5
  <1>7. Total(h, u) = h[x] + Total(h, u \ {x})
    BY <1>3, <1>5, TotalRemove
  <1>8. /\ h[x] \in Nat
        /\ Total(h, u \ {x}) \in Nat
        /\ Total(f, T \cap (u \ {x})) \in Nat
    <2>1. /\ IsFiniteSet(u \ {x}) /\ Weighs(h, u \ {x})
          /\ IsFiniteSet(T \cap (u \ {x})) /\ Weighs(f, T \cap (u \ {x}))
      BY <1>3, FS_Subset DEF Weighs
    <2> QED
      BY <2>1, <1>3, <1>5, TotalIsNat DEF Weighs
  <1>9. CASE x \in T
    <2>1. Total(f, T \cap u) = f[x] + Total(f, (T \cap u) \ {x})
      BY <1>3, <1>5, <1>9, TotalRemove
    <2>2. Total(f, (T \cap u) \ {x}) = Total(f, T \cap (u \ {x}))
      <3>1. (T \cap u) \ {x} = T \cap (u \ {x})
        OBVIOUS
      <3> QED
        BY <3>1, Zenon
    <2>3. f[x] \in Nat /\ f[x] <= h[x]
      BY <1>9 DEF Weighs
    <2> QED
      BY <1>2, <1>6, <1>7, <1>8, <2>1, <2>2, <2>3
  <1>10. CASE x \notin T
    <2>1. Total(f, T \cap (u \ {x})) = Total(f, T \cap u)
      <3>1. T \cap (u \ {x}) = T \cap u
        BY <1>10
      <3> QED
        BY <3>1, Zenon
    <2> QED
      BY <1>2, <1>6, <1>7, <1>8, <2>1
  <1> QED
    BY <1>9, <1>10

-----------------------------------------------------------------------------
(* Types.                                                                    *)

Request == {Idle, [pc |-> "off"]} \cup [pc : {"on", "grow"}, size : Sizes]
Passing == [pc : {"next"}, rows : [Machines -> Row], todo : SUBSET Machines]
AtWork == [pc : {"observed", "stop", "start"}, rows : [Machines -> Row], todo : SUBSET Machines,
           m : Machines, on : BOOLEAN]

LEMMA RequestPcs == ASSUME NEW r \in Request
    PROVE  /\ r.pc \in {"idle", "off", "on", "grow"}
           /\ r.pc = "idle" <=> r = Idle
           /\ r.pc \in {"on", "grow"} => r.size \in Sizes
  BY DEF Request, Idle

LEMMA WorkerPcs == ASSUME TypeOK
    PROVE  /\ wk.pc \in {"idle", "next", "observed", "stop", "start"}
           /\ wk.pc = "idle" <=> wk = Idle
           /\ wk.pc = "next" => wk \in Passing
           /\ wk.pc \in {"observed", "stop", "start"} => wk \in AtWork
  <1>1. wk = Idle \/ wk \in Passing \/ wk \in AtWork
    BY DEF TypeOK, Passing, AtWork
  <1> QED
    BY <1>1 DEF Idle, Passing, AtWork

LEMMA RowWithState == ASSUME NEW r \in [Machines -> Row], NEW m \in Machines, NEW s \in States
    PROVE  [r EXCEPT ![m].state = s] \in [Machines -> Row]
  BY DEF Row

LEMMA RowSwitched == ASSUME NEW r \in [Machines -> Row], NEW m \in Machines, NEW s \in States
    PROVE  /\ [r EXCEPT ![m].state = s, ![m].desired = TRUE] \in [Machines -> Row]
           /\ [r EXCEPT ![m].state = s, ![m].desired = FALSE] \in [Machines -> Row]
  BY DEF Row

LEMMA RowResized == ASSUME NEW r \in [Machines -> Row], NEW m \in Machines, NEW size \in Sizes
    PROVE  [r EXCEPT ![m].size = size] \in [Machines -> Row]
  BY DEF Row

\* The parts of TypeOK that a step changes seldom or in one way.
LEMMA FaultTyped == ASSUME TypeOK, NEW kind, Fault(kind)
    PROVE  upset' \subseteq Faults \cup {"grow", "resize", "stale"} /\ faults' \in 0 .. MaxFaults
  BY AdmissionAssumption DEF TypeOK, Fault, Upset, Faults

LEMMA AskTyped == ASSUME TypeOK, Ask PROVE requests' \in 0 .. MaxRequests
  BY AdmissionAssumption DEF TypeOK, Ask

LEMMA PowerType == ASSUME TypeOK, NEW m \in Machines,
                          PowerOn(m) \/ PowerOnEnds(m) \/ PowerOff(m) \/ PowerOffEnds(m)
                   PROVE  TypeOK'
  <1>1. api[m] \in Request /\ row[m] \in Row
    BY DEF TypeOK, Request
  <1>2. CASE PowerOn(m)
    <2>1. row' \in [Machines -> Row]
      BY <1>2, RowWithState DEF TypeOK, PowerOn, Set, States
    <2>2. api' \in [Machines -> Request]
      BY <1>1, <1>2 DEF TypeOK, PowerOn, To, Request, Row
    <2>3. upset' \subseteq Faults \cup {"grow", "resize", "stale"}
      BY <1>2 DEF TypeOK, PowerOn, Upset
    <2> QED
      BY <1>2, <2>1, <2>2, <2>3, AskTyped DEF TypeOK, PowerOn, Request
  <1>3. CASE PowerOnEnds(m)
    <2>1. row' \in [Machines -> Row]
      <3>1. \/ row' = [row EXCEPT ![m].state = "on", ![m].desired = TRUE]
            \/ row' = [row EXCEPT ![m].state = "error"]
        BY <1>3 DEF PowerOnEnds, Set
      <3>2. row \in [Machines -> Row] /\ "on" \in States /\ "error" \in States
        BY DEF TypeOK, States
      <3>3. [row EXCEPT ![m].state = "on", ![m].desired = TRUE] \in [Machines -> Row]
        BY <3>2, RowSwitched, Zenon
      <3>4. [row EXCEPT ![m].state = "error"] \in [Machines -> Row]
        BY <3>2, RowWithState, Zenon
      <3> QED
        BY <3>1, <3>3, <3>4, Zenon
    <2>2. api' \in [Machines -> Request]
      BY <1>3 DEF TypeOK, PowerOnEnds, To, Request
    <2>3. api[m].size \in Sizes
      BY <1>1, <1>3, RequestPcs DEF PowerOnEnds
    <2>4. limit' \in [Machines -> Sizes]
      BY <1>3, <2>3 DEF TypeOK, PowerOnEnds
    <2>5. upset' \subseteq Faults \cup {"grow", "resize", "stale"} /\ faults' \in 0 .. MaxFaults
      BY <1>3, FaultTyped DEF TypeOK, PowerOnEnds, NoFault
    <2>6. running' \subseteq Machines
      BY <1>3 DEF TypeOK, PowerOnEnds
    <2> QED
      BY <1>3, <2>1, <2>2, <2>4, <2>5, <2>6 DEF TypeOK, PowerOnEnds, Request
  <1>4. CASE PowerOff(m)
    <2>1. row' \in [Machines -> Row]
      BY <1>4, RowWithState DEF TypeOK, PowerOff, Set, States
    <2>2. api' \in [Machines -> Request]
      BY <1>4 DEF TypeOK, PowerOff, To, Request
    <2>3. upset' \subseteq Faults \cup {"grow", "resize", "stale"}
      BY <1>4 DEF TypeOK, PowerOff, Upset
    <2> QED
      BY <1>4, <2>1, <2>2, <2>3, AskTyped DEF TypeOK, PowerOff, Request
  <1>5. CASE PowerOffEnds(m)
    <2>1. row' \in [Machines -> Row]
      <3>1. \/ row' = [row EXCEPT ![m].state = "off", ![m].desired = FALSE]
            \/ row' = [row EXCEPT ![m].state = "error"]
        BY <1>5 DEF PowerOffEnds, Set
      <3>2. row \in [Machines -> Row] /\ "off" \in States /\ "error" \in States
        BY DEF TypeOK, States
      <3>3. [row EXCEPT ![m].state = "off", ![m].desired = FALSE] \in [Machines -> Row]
        BY <3>2, RowSwitched, Zenon
      <3>4. [row EXCEPT ![m].state = "error"] \in [Machines -> Row]
        BY <3>2, RowWithState, Zenon
      <3> QED
        BY <3>1, <3>3, <3>4, Zenon
    <2>2. api' \in [Machines -> Request]
      BY <1>5 DEF TypeOK, PowerOffEnds, To, Request
    <2>3. upset' \subseteq Faults \cup {"grow", "resize", "stale"} /\ faults' \in 0 .. MaxFaults
      BY <1>5, FaultTyped DEF TypeOK, PowerOffEnds, NoFault
    <2>4. running' \subseteq Machines
      BY <1>5 DEF TypeOK, PowerOffEnds
    <2> QED
      BY <1>5, <2>1, <2>2, <2>3, <2>4 DEF TypeOK, PowerOffEnds, Request
  <1> QED
    BY <1>2, <1>3, <1>4, <1>5

LEMMA SizeType == ASSUME TypeOK, NEW m \in Machines, Grow(m) \/ GrowEnds(m) \/ Resize(m) PROVE TypeOK'
  <1>1. api[m] \in Request /\ row[m] \in Row
    BY DEF TypeOK, Request
  <1>2. CASE Grow(m)
    <2>1. api' \in [Machines -> Request]
      BY <1>1, <1>2 DEF TypeOK, Grow, To, Request, Row
    <2>2. upset' \subseteq Faults \cup {"grow", "resize", "stale"}
      BY <1>2 DEF TypeOK, Grow, Upset
    <2> QED
      BY <1>2, <2>1, <2>2, AskTyped DEF TypeOK, Grow, Request
  <1>3. CASE GrowEnds(m)
    <2>1. api[m].size \in Sizes
      BY <1>1, <1>3, RequestPcs DEF GrowEnds
    <2>2. row' \in [Machines -> Row]
      BY <1>3, <2>1, RowResized DEF TypeOK, GrowEnds
    <2>3. api' \in [Machines -> Request]
      BY <1>3 DEF TypeOK, GrowEnds, To, Request
    <2>4. limit' \in [Machines -> Sizes]
      BY <1>3, <2>1 DEF TypeOK, GrowEnds
    <2>5. upset' \subseteq Faults \cup {"grow", "resize", "stale"} /\ faults' \in 0 .. MaxFaults
      BY <1>3, FaultTyped DEF TypeOK, GrowEnds, NoFault
    <2> QED
      BY <1>3, <2>2, <2>3, <2>4, <2>5 DEF TypeOK, GrowEnds, Request
  <1>4. CASE Resize(m)
    <2>1. row' \in [Machines -> Row]
      BY <1>4, RowResized DEF TypeOK, Resize
    <2>2. upset' \subseteq Faults \cup {"grow", "resize", "stale"}
      BY <1>4 DEF TypeOK, Resize, Upset
    <2> QED
      BY <1>4, <2>1, <2>2, AskTyped DEF TypeOK, Resize
  <1> QED
    BY <1>2, <1>3, <1>4

LEMMA StopType == ASSUME TypeOK, NEW m \in Machines, StopRun(m) \/ Archive(m) PROVE TypeOK'
  <1>1. row \in [Machines -> Row] /\ "off" \in States
    BY DEF TypeOK, States
  <1>2. CASE StopRun(m)
    <2>1. row' \in [Machines -> Row]
      <3>1. row' = [row EXCEPT ![m].state = "off", ![m].desired = FALSE] \/ row' = row
        BY <1>2 DEF StopRun
      <3>2. [row EXCEPT ![m].state = "off", ![m].desired = FALSE] \in [Machines -> Row]
        BY <1>1, RowSwitched, Zenon
      <3> QED
        BY <1>1, <3>1, <3>2, Zenon
    <2>2. upset' \subseteq Faults \cup {"grow", "resize", "stale"} /\ faults' \in 0 .. MaxFaults
      BY <1>2, FaultTyped DEF TypeOK, StopRun, NoFault
    <2>3. running' \subseteq Machines
      BY <1>2 DEF TypeOK, StopRun
    <2> QED
      BY <1>2, <2>1, <2>2, <2>3, AskTyped DEF TypeOK, StopRun
  <1>3. CASE Archive(m)
    <2>1. row' \in [Machines -> Row]
      BY <1>1, <1>3, RowWithState DEF Archive, Set
    <2>2. upset' \subseteq Faults \cup {"grow", "resize", "stale"} /\ faults' \in 0 .. MaxFaults
      BY <1>3, FaultTyped DEF Archive
    <2> QED
      BY <1>3, <2>1, <2>2 DEF TypeOK, Archive
  <1> QED
    BY <1>2, <1>3

LEMMA LookType == ASSUME TypeOK, Begin \/ \E m \in Machines : Observe(m) PROVE TypeOK'
  <1>1. CASE Begin
    <2>1. wk' \in Passing
      BY <1>1 DEF TypeOK, Begin, Passing
    <2> QED
      BY <1>1, <2>1 DEF TypeOK, Begin, Passing
  <1>2. ASSUME NEW m \in Machines, Observe(m) PROVE TypeOK'
    <2>1. wk \in Passing
      BY <1>2, WorkerPcs DEF Observe
    <2>2. wk' = Idle \/ wk' \in Passing \/ wk' \in AtWork
      <3>1. CASE wk' = [pc |-> "observed", rows |-> wk.rows, todo |-> wk.todo \ {m}, m |-> m, on |-> m \in running]
        <4>1. (m \in running) \in BOOLEAN
          OBVIOUS
        <4>2. wk.rows \in [Machines -> Row] /\ wk.todo \ {m} \in SUBSET Machines
          BY <2>1 DEF Passing
        <4> DEFINE seen == m \in running
        <4> HIDE DEF seen
        <4>3. seen \in BOOLEAN
          BY <4>1 DEF seen
        <4>4. [pc |-> "observed", rows |-> wk.rows, todo |-> wk.todo \ {m}, m |-> m, on |-> seen] \in AtWork
          BY <4>2, <4>3 DEF AtWork
        <4> QED
          BY <3>1, <4>4 DEF seen
      <3>2. CASE wk' = Idle
        BY <3>2
      <3>3. CASE wk' = [wk EXCEPT !.todo = @ \ {m}]
        BY <2>1, <3>3 DEF Passing
      <3> QED
        BY <1>2, <3>1, <3>2, <3>3 DEF Observe
    <2>3. upset' \subseteq Faults \cup {"grow", "resize", "stale"} /\ faults' \in 0 .. MaxFaults
      BY <1>2, FaultTyped DEF TypeOK, Observe, NoFault
    <2> QED
      BY <1>2, <2>2, <2>3 DEF TypeOK, Observe, Passing, AtWork
  <1> QED
    BY <1>1, <1>2

LEMMA SaveTyped == ASSUME TypeOK, wk \in AtWork, NEW state \in States, Save(state)
    PROVE  row' \in [Machines -> Row]
  <1>1. row \in [Machines -> Row] /\ wk.m \in Machines
    BY DEF TypeOK, AtWork
  <1>2. PICK s : s = IF state = wk.rows[wk.m].state THEN row[wk.m].state ELSE state
    OBVIOUS
  <1>3. s \in States
    BY <1>1, <1>2 DEF Row
  <1>4. row' = [row EXCEPT ![wk.m].state = s]
    BY <1>1, <1>2 DEF Save
  <1> QED
    BY <1>1, <1>3, <1>4, RowWithState

LEMMA GoesOnTyped == ASSUME wk \in AtWork, NEW state \in States, GoOn(state)
    PROVE  wk' = Idle \/ wk' \in Passing
  <1>1. wk.rows \in [Machines -> Row] /\ wk.m \in Machines /\ wk.todo \in SUBSET Machines
    BY DEF AtWork
  <1>2. [wk.rows EXCEPT ![wk.m].state = state] \in [Machines -> Row]
    BY <1>1, RowWithState
  <1> QED
    BY <1>1, <1>2 DEF GoOn, Passing

LEMMA GoesToTyped == ASSUME wk \in AtWork, NEW state \in States, NEW pc \in {"stop", "start"}, Goto(pc, state)
    PROVE  wk' \in AtWork
  <1>1. wk.rows \in [Machines -> Row] /\ wk.m \in Machines
    BY DEF AtWork
  <1>2. [wk.rows EXCEPT ![wk.m].state = state] \in [Machines -> Row]
    BY <1>1, RowWithState
  <1>3. wk' = [wk EXCEPT !.pc = pc, !.rows = [wk.rows EXCEPT ![wk.m].state = state]]
    BY DEF Goto, AtWork
  <1> QED
    BY <1>2, <1>3 DEF AtWork

LEMMA ReconcileType == ASSUME TypeOK, Reconcile \/ ReconcileStops \/ ReconcileStarts PROVE TypeOK'
  <1>1. wk \in AtWork
    BY WorkerPcs DEF Reconcile, ReconcileStops, ReconcileStarts
  <1>2. wk.m \in Machines /\ wk.rows[wk.m] \in Row /\ wk.rows[wk.m].state \in States
    BY <1>1 DEF AtWork, Row
  <1>3. Adopted \in States /\ "on" \in States /\ "off" \in States
    BY <1>2 DEF Adopted, States
  <1>4. CASE Reconcile
    <2>1. row' \in [Machines -> Row]
      <3>1. row' = row \/ Save("off") \/ Save(Adopted)
        BY <1>4, Zenon DEF Reconcile
      <3> QED
        BY <1>1, <1>3, <3>1, SaveTyped DEF TypeOK
    <2>2. wk' = Idle \/ wk' \in Passing \/ wk' \in AtWork
      <3>1. Goto("stop", Adopted) \/ Goto("start", "on") \/ GoOn("off") \/ GoOn(Adopted)
        BY <1>4, Zenon DEF Reconcile
      <3> QED
        BY <1>1, <1>3, <3>1, GoesToTyped, GoesOnTyped
    <2>3. upset' \subseteq Faults \cup {"grow", "resize", "stale"}
      BY <1>4 DEF TypeOK, Reconcile, Upset
    <2> QED
      BY <1>4, <2>1, <2>2, <2>3 DEF TypeOK, Reconcile, Passing, AtWork
  <1>5. CASE ReconcileStops
    <2>1. row' \in [Machines -> Row]
      BY <1>1, <1>3, <1>5, SaveTyped DEF TypeOK, ReconcileStops
    <2>2. wk' = Idle \/ wk' \in Passing
      BY <1>1, <1>2, <1>3, <1>5, GoesOnTyped DEF ReconcileStops
    <2>3. upset' \subseteq Faults \cup {"grow", "resize", "stale"} /\ faults' \in 0 .. MaxFaults
      BY <1>5, FaultTyped DEF TypeOK, ReconcileStops, NoFault
    <2>4. running' \subseteq Machines
      BY <1>5 DEF TypeOK, ReconcileStops
    <2> QED
      BY <1>5, <2>1, <2>2, <2>3, <2>4 DEF TypeOK, ReconcileStops, Passing
  <1>6. CASE ReconcileStarts
    <2>1. row' \in [Machines -> Row]
      BY <1>1, <1>3, <1>6, SaveTyped DEF TypeOK, ReconcileStarts
    <2>2. wk' = Idle \/ wk' \in Passing
      BY <1>1, <1>3, <1>6, GoesOnTyped DEF ReconcileStarts
    <2>3. upset' \subseteq Faults \cup {"grow", "resize", "stale"} /\ faults' \in 0 .. MaxFaults
      BY <1>6, FaultTyped DEF TypeOK, ReconcileStarts, NoFault
    <2>4. running' \subseteq Machines
      BY <1>2, <1>6 DEF TypeOK, ReconcileStarts
    <2> QED
      BY <1>6, <2>1, <2>2, <2>3, <2>4 DEF TypeOK, ReconcileStarts, Passing
  <1> QED
    BY <1>4, <1>5, <1>6

LEMMA DownType == ASSUME TypeOK, ApiDies \/ Reboot PROVE TypeOK'
  <1>1. upset' \subseteq Faults \cup {"grow", "resize", "stale"} /\ faults' \in 0 .. MaxFaults
    BY FaultTyped DEF ApiDies, Reboot
  <1>2. api' \in [Machines -> Request]
    BY DEF ApiDies, Reboot, Request
  <1>3. CASE ApiDies
    <2>1. \A m \in Machines : api[m] # Idle /\ api[m].pc # "off" => api[m].size \in Sizes
      <3>1. \A m \in Machines : api[m] \in Request
        BY DEF TypeOK, Request
      <3> QED
        BY <3>1, RequestPcs
    <2>2. PICK done \in SUBSET {m \in Machines : api[m] # Idle} :
            /\ running' = (running \cup {m \in done : api[m].pc = "on"}) \ {m \in done : api[m].pc = "off"}
            /\ limit' = [m \in Machines |-> IF m \in done /\ api[m].pc # "off" THEN api[m].size ELSE limit[m]]
      BY <1>3 DEF ApiDies
    <2>3. running' \subseteq Machines
      BY <2>2 DEF TypeOK
    <2>4. limit' \in [Machines -> Sizes]
      BY <2>1, <2>2 DEF TypeOK
    <2> QED
      BY <1>1, <1>2, <1>3, <2>3, <2>4 DEF TypeOK, ApiDies, Request
  <1>4. CASE Reboot
    BY <1>1, <1>2, <1>4 DEF TypeOK, Reboot, Request
  <1> QED
    BY <1>3, <1>4

LEMMA InitType == Init => TypeOK
  <1> SUFFICES ASSUME Init PROVE TypeOK
    OBVIOUS
  <1>1. row \in [Machines -> Row]
    BY DEF Init, Row, States
  <1>2. limit \in [Machines -> Sizes]
    BY <1>1 DEF Init, Row
  <1> QED
    BY <1>1, <1>2, AdmissionAssumption DEF Init, TypeOK

LEMMA NextType == ASSUME TypeOK, [Next]_vars PROVE TypeOK'
  <1>1. CASE UNCHANGED vars
    BY <1>1 DEF vars, TypeOK
  <1>2. CASE \E m \in Machines : Handle(m) \/ StopRun(m) \/ Archive(m)
    BY <1>2, PowerType, SizeType, StopType DEF Handle, Ends
  <1>3. CASE Work
    BY <1>3, LookType, ReconcileType DEF Work
  <1>4. CASE ApiDies \/ Reboot
    BY <1>4, DownType
  <1> QED
    BY <1>1, <1>2, <1>3, <1>4 DEF Next

-----------------------------------------------------------------------------
(* What is counted keeps fitting.                                            *)

LEMMA ClaimsAreNat == ASSUME NEW r \in [Machines -> Row], NEW a \in [Machines -> Request]
    PROVE  /\ [m \in Machines |-> IF a[m].pc = "grow" THEN a[m].size ELSE r[m].size] \in [Machines -> Nat]
           /\ SizeIn(r) \in [Machines -> Nat]
  <1>1. Sizes \subseteq Nat
    BY AdmissionAssumption
  <1>2. \A m \in Machines : r[m].size \in Nat /\ (a[m].pc = "grow" => a[m].size \in Nat)
    BY <1>1, RequestPcs DEF Row
  <1> QED
    BY <1>2 DEF SizeIn

LEMMA ClaimTyped == ASSUME TypeOK
    PROVE  /\ Claim \in [Machines -> Nat] /\ SizeIn(row) \in [Machines -> Nat] /\ limit \in [Machines -> Nat]
           /\ Counted \subseteq Machines /\ IsFiniteSet(Machines)
  <1>1. limit \in [Machines -> Nat]
    BY AdmissionAssumption DEF TypeOK
  <1>2. Claim \in [Machines -> Nat] /\ SizeIn(row) \in [Machines -> Nat]
    BY ClaimsAreNat DEF Claim, TypeOK, Request
  <1> QED
    BY <1>1, <1>2, AdmissionAssumption DEF Counted

LEMMA ClaimTypedNext == ASSUME TypeOK'
    PROVE  Claim' \in [Machines -> Nat] /\ Counted' \subseteq Machines
  BY ClaimsAreNat DEF Claim, TypeOK, Request, Counted

\* No machine comes to count and none claims more.
LEMMA ClaimsShrink ==
    ASSUME TypeOK, TypeOK', ClaimsFit, Counted' \subseteq Counted, \A n \in Counted' : Claim'[n] <= Claim[n]
    PROVE  ClaimsFit'
  <1>1. Claim \in [Machines -> Nat] /\ Claim' \in [Machines -> Nat] /\ Counted \subseteq Machines
        /\ IsFiniteSet(Counted)
    <2>1. /\ Claim \in [Machines -> Nat] /\ Counted \subseteq Machines /\ IsFiniteSet(Machines)
          /\ Claim' \in [Machines -> Nat]
      BY ClaimTyped, ClaimTypedNext
    <2> QED
      BY <2>1, FS_Subset
  <1>2. Weighs(Claim, Counted) /\ Weighs(Claim', Counted')
    BY <1>1 DEF Weighs
  <1>3. Total(Claim', Counted') <= Total(Claim, Counted)
    BY <1>1, <1>2, TotalGrows
  <1>4. Total(Claim', Counted') \in Nat /\ Total(Claim, Counted) \in Nat /\ Host \in Nat
    <2>1. IsFiniteSet(Counted')
      BY <1>1, FS_Subset
    <2> QED
      BY <1>1, <1>2, <2>1, TotalIsNat, AdmissionAssumption
  <1> QED
    BY <1>3, <1>4 DEF ClaimsFit

LEMMA ClaimsStay ==
    ASSUME TypeOK, TypeOK', ClaimsFit, Counted' \subseteq Counted, \A n \in Counted' : Claim'[n] = Claim[n]
    PROVE  ClaimsFit'
  <1>1. \A n \in Counted' : Claim[n] \in Nat
    BY ClaimTyped
  <1>2. \A n \in Counted' : Claim'[n] <= Claim[n]
    BY <1>1
  <1> QED
    BY <1>2, ClaimsShrink

\* One machine is admitted with the size it wants, while no growth is under way.
LEMMA ClaimsAdmit ==
    ASSUME TypeOK, TypeOK', NEW m \in Machines, NEW want \in Nat, Fits(m, want, row),
           Counted' = Counted \cup {m}, Claim'[m] = want, \A n \in Counted \ {m} : Claim'[n] = row[n].size
    PROVE  ClaimsFit'
  <1> DEFINE others == Counted \ {m}
  <1>1. /\ Claim' \in [Machines -> Nat] /\ SizeIn(row) \in [Machines -> Nat]
        /\ Counted \subseteq Machines /\ IsFiniteSet(Counted') /\ IsFiniteSet(others)
    <2>1. /\ Claim' \in [Machines -> Nat] /\ SizeIn(row) \in [Machines -> Nat]
          /\ Counted \subseteq Machines /\ Counted' \subseteq Machines /\ IsFiniteSet(Machines)
      BY ClaimTyped, ClaimTypedNext
    <2> QED
      BY <2>1, FS_Subset
  <1>2. Weighs(Claim', Counted') /\ Weighs(Claim', others) /\ Weighs(SizeIn(row), others)
    BY <1>1 DEF Weighs
  <1>3. Total(Claim', Counted') = want + Total(Claim', Counted' \ {m})
    BY <1>1, <1>2, TotalRemove
  <1>4. Total(Claim', Counted' \ {m}) = Total(Claim', others)
    <2>1. Counted' \ {m} = others
      OBVIOUS
    <2> QED
      BY <2>1, Zenon
  <1>5. Total(Claim', others) <= Total(SizeIn(row), others)
    <2>1. \A n \in others : Claim'[n] <= SizeIn(row)[n]
      BY <1>1 DEF SizeIn
    <2> QED
      BY <1>1, <1>2, <2>1, TotalGrows
  <1>6. Total(Claim', others) \in Nat /\ Total(SizeIn(row), others) \in Nat /\ Host \in Nat
    BY <1>1, <1>2, TotalIsNat, AdmissionAssumption
  <1>7. Total(SizeIn(row), others) + want <= Host
    BY DEF Fits
  <1> QED
    BY <1>3, <1>4, <1>5, <1>6, <1>7 DEF ClaimsFit

-----------------------------------------------------------------------------
(* The steps of a calm run.                                                  *)

LEMMA CalmBefore ==
    /\ \A kinds : Upset(kinds) /\ Calm' => Calm /\ kinds \subseteq {"reboot"}
    /\ \A kind : Fault(kind) /\ Calm' => Calm /\ kind = "reboot"
  BY DEF Upset, Fault, Calm

\* A step of one machine leaves the others alone.
LEMMA Elsewhere ==
    ASSUME TypeOK, MachinesAgree, CopiesAgree, DecisionsStand, NEW m \in Machines, wk' = wk,
           \A n \in Machines \ {m} : /\ row'[n] = row[n] /\ api'[n] = api[n] /\ limit'[n] = limit[n]
                                     /\ n \in running' <=> n \in running,
           RowAgrees(m)', RunsOn(m)', SeenDown(m)',
           wk.pc = "start" /\ wk.m = m => row'[m].state = "on"
    PROVE  MachinesAgree' /\ CopiesAgree' /\ DecisionsStand'
  <1>1. \A n \in Machines \ {m} : RowAgrees(n)' /\ RunsOn(n)' /\ SeenDown(n)'
    BY DEF MachinesAgree, RowAgrees, RunsOn, SeenDown
  <1>2. MachinesAgree'
    BY <1>1 DEF MachinesAgree
  <1>3. CopiesAgree'
    BY DEF CopiesAgree
  <1>4. DecisionsStand'
    <2>1. wk.pc = "start" => wk.m \in Machines
      BY WorkerPcs DEF AtWork
    <2> QED
      BY <2>1 DEF DecisionsStand
  <1> QED
    BY <1>2, <1>3, <1>4

LEMMA PowerOnCalm == ASSUME TypeOK, TypeOK', CalmInv, Calm', NEW m \in Machines, PowerOn(m) PROVE CalmInv'
  <1>1. /\ api[m] = Idle /\ row[m].state \in {"off", "error"} /\ Fits(m, row[m].size, row)
        /\ row' = [row EXCEPT ![m].state = "starting"]
        /\ api' = [api EXCEPT ![m] = [pc |-> "on", size |-> row[m].size]]
        /\ UNCHANGED <<running, limit, wk>>
    BY DEF PowerOn, Set, To
  <1>2. Growing = {}
    BY CalmBefore DEF PowerOn
  <1>3. row \in [Machines -> Row] /\ api \in [Machines -> Request] /\ row[m].size \in Nat
    BY AdmissionAssumption DEF TypeOK, Request, Row
  <1>4. RowAgrees(m) /\ RunsOn(m)
    BY DEF CalmInv, MachinesAgree
  <1>5. /\ row'[m].state = "starting" /\ row'[m].size = row[m].size
        /\ api'[m].pc = "on" /\ api'[m].size = row[m].size /\ api'[m] # Idle
        /\ \A n \in Machines \ {m} : row'[n] = row[n] /\ api'[n] = api[n]
    BY <1>1, <1>3 DEF Row, Idle
  <1>6. ClaimsFit'
    <2>1. Counted' = Counted \cup {m}
      BY <1>5 DEF Counted
    <2>2. Claim'[m] = row[m].size /\ \A n \in Counted \ {m} : Claim'[n] = row[n].size
      BY <1>2, <1>5 DEF Claim, Growing, Counted
    <2> QED
      BY <1>1, <1>3, <2>1, <2>2, ClaimsAdmit
  <1>7. m \notin running
    BY <1>1, <1>4 DEF RunsOn, Idle
  <1>8. RowAgrees(m)' /\ RunsOn(m)' /\ SeenDown(m)'
    BY <1>1, <1>5, <1>7 DEF RowAgrees, RunsOn, SeenDown
  <1>9. wk.pc = "start" => wk.m # m
    BY <1>1 DEF CalmInv, DecisionsStand
  <1> QED
    BY <1>1, <1>5, <1>6, <1>8, <1>9, Elsewhere DEF CalmInv

LEMMA PowerOnEndsCalm == ASSUME TypeOK, TypeOK', CalmInv, Calm', NEW m \in Machines, PowerOnEnds(m) PROVE CalmInv'
  <1>1. /\ api[m].pc = "on" /\ api' = [api EXCEPT ![m] = Idle]
        /\ limit' = [limit EXCEPT ![m] = api[m].size] /\ running' = running \cup {m}
        /\ row' = [row EXCEPT ![m].state = "on", ![m].desired = TRUE]
        /\ wk' = wk
    <2>1. ~ Fault("incus")
      BY CalmBefore
    <2> QED
      BY <2>1 DEF PowerOnEnds, To
  <1>2. row \in [Machines -> Row] /\ api \in [Machines -> Request] /\ limit \in [Machines -> Sizes]
    BY DEF TypeOK, Request
  <1>3. RowAgrees(m)
    BY DEF CalmInv, MachinesAgree
  <1>4. /\ row'[m].state = "on" /\ row'[m].desired /\ row'[m].size = row[m].size
        /\ limit'[m] = row[m].size /\ api'[m] = Idle /\ api'[m].pc = "idle"
        /\ \A n \in Machines \ {m} : row'[n] = row[n] /\ api'[n] = api[n] /\ limit'[n] = limit[n]
    BY <1>1, <1>2, <1>3 DEF Row, Idle, RowAgrees
  <1>5. ClaimsFit'
    <2>1. Counted' \subseteq Counted
      BY <1>1, <1>3, <1>4 DEF Counted, RowAgrees
    <2>2. \A n \in Machines : Claim'[n] = Claim[n]
      <3>1. api[m].pc = "on"
        BY <1>1
      <3> QED
        BY <1>4, <3>1 DEF Claim
    <2> QED
      BY <2>1, <2>2, ClaimsStay, ClaimTyped DEF CalmInv
  <1>6. RowAgrees(m)' /\ RunsOn(m)' /\ SeenDown(m)'
    BY <1>4 DEF RowAgrees, RunsOn, SeenDown
  <1> QED
    BY <1>1, <1>4, <1>5, <1>6, Elsewhere DEF CalmInv

LEMMA PowerOffCalm == ASSUME TypeOK, TypeOK', CalmInv, Calm', NEW m \in Machines, PowerOff(m) PROVE CalmInv'
  <1>1. /\ api[m] = Idle /\ row' = [row EXCEPT ![m].state = "stopping"]
        /\ api' = [api EXCEPT ![m] = [pc |-> "off"]]
        /\ UNCHANGED <<running, limit, wk>>
    BY DEF PowerOff, Set, To
  <1>2. ~ (wk.pc = "start" /\ wk.m = m)
    BY CalmBefore DEF PowerOff
  <1>3. row \in [Machines -> Row] /\ api \in [Machines -> Request]
    BY DEF TypeOK, Request
  <1>4. /\ row'[m].state = "stopping" /\ row'[m].size = row[m].size
        /\ api'[m].pc = "off" /\ api'[m] # Idle
        /\ \A n \in Machines \ {m} : row'[n] = row[n] /\ api'[n] = api[n]
    BY <1>1, <1>3 DEF Row, Idle
  <1>5. ClaimsFit'
    <2>1. Counted' \subseteq Counted
      BY <1>4 DEF Counted
    <2>2. \A n \in Machines : Claim'[n] = Claim[n]
      BY <1>1, <1>4 DEF Claim, Idle
    <2> QED
      BY <2>1, <2>2, ClaimsStay, ClaimTyped DEF CalmInv
  <1>6. RowAgrees(m)' /\ RunsOn(m)' /\ SeenDown(m)'
    BY <1>4 DEF RowAgrees, RunsOn, SeenDown
  <1> QED
    BY <1>1, <1>2, <1>4, <1>5, <1>6, Elsewhere DEF CalmInv

LEMMA PowerOffEndsCalm == ASSUME TypeOK, TypeOK', CalmInv, Calm', NEW m \in Machines, PowerOffEnds(m) PROVE CalmInv'
  <1>1. /\ api[m].pc = "off" /\ api' = [api EXCEPT ![m] = Idle]
        /\ running' = running \ {m}
        /\ row' = [row EXCEPT ![m].state = "off", ![m].desired = FALSE]
        /\ UNCHANGED <<limit, wk>>
    <2>1. ~ Fault("incus")
      BY CalmBefore
    <2> QED
      BY <2>1 DEF PowerOffEnds, To
  <1>2. row \in [Machines -> Row] /\ api \in [Machines -> Request]
    BY DEF TypeOK, Request
  <1>3. RowAgrees(m)
    BY DEF CalmInv, MachinesAgree
  <1>4. /\ row'[m].state = "off" /\ row'[m].size = row[m].size
        /\ api'[m] = Idle /\ api'[m].pc = "idle"
        /\ \A n \in Machines \ {m} : row'[n] = row[n] /\ api'[n] = api[n]
    BY <1>1, <1>2 DEF Row, Idle
  <1>5. ClaimsFit'
    <2>1. Counted' \subseteq Counted
      BY <1>4 DEF Counted
    <2>2. \A n \in Machines : Claim'[n] = Claim[n]
      <3>1. api[m].pc = "off"
        BY <1>1
      <3> QED
        BY <1>4, <3>1 DEF Claim
    <2> QED
      BY <2>1, <2>2, ClaimsStay, ClaimTyped DEF CalmInv
  <1>6. RowAgrees(m)' /\ RunsOn(m)' /\ SeenDown(m)'
    BY <1>1, <1>4 DEF RowAgrees, RunsOn, SeenDown
  <1>7. wk.pc = "start" => wk.m # m
    BY <1>1, <1>3 DEF CalmInv, DecisionsStand, RowAgrees
  <1> QED
    BY <1>1, <1>4, <1>5, <1>6, <1>7, Elsewhere DEF CalmInv

LEMMA GrowCalm == ASSUME TypeOK, TypeOK', CalmInv, Calm', NEW m \in Machines, Grow(m) PROVE CalmInv'
  <1>1. PICK size \in Sizes :
          /\ size > row[m].size /\ Fits(m, size, row)
          /\ api' = [api EXCEPT ![m] = [pc |-> "grow", size |-> size]]
    BY DEF Grow, To
  <1>2. api[m] = Idle /\ row[m].state = "on" /\ UNCHANGED <<row, running, limit, wk>>
    BY DEF Grow
  <1>3. Growing = {}
    BY CalmBefore DEF Grow
  <1>4. row \in [Machines -> Row] /\ api \in [Machines -> Request] /\ size \in Nat
    BY <1>1, AdmissionAssumption DEF TypeOK, Request
  <1>5. /\ api'[m].pc = "grow" /\ api'[m].size = size /\ api'[m] # Idle
        /\ \A n \in Machines \ {m} : api'[n] = api[n]
    BY <1>1, <1>4 DEF Idle
  <1>6. RowAgrees(m)
    BY DEF CalmInv, MachinesAgree
  <1>7. ClaimsFit'
    <2>1. Counted' = Counted \cup {m}
      BY <1>2 DEF Counted
    <2>2. Claim'[m] = size /\ \A n \in Counted \ {m} : Claim'[n] = row[n].size
      BY <1>2, <1>3, <1>5 DEF Claim, Growing, Counted
    <2> QED
      BY <1>1, <1>4, <2>1, <2>2, ClaimsAdmit
  <1>8. RowAgrees(m)'
    <2>1. row[m].size \in Nat
      BY <1>4, AdmissionAssumption DEF Row
    <2> QED
      BY <1>1, <1>2, <1>4, <1>5, <1>6, <2>1 DEF RowAgrees
  <1>9. RunsOn(m)' /\ SeenDown(m)'
    BY <1>2, <1>5 DEF RunsOn, SeenDown
  <1> QED
    BY <1>2, <1>5, <1>7, <1>8, <1>9, Elsewhere DEF CalmInv

LEMMA GrowEndsCalm == ASSUME TypeOK, TypeOK', CalmInv, Calm', NEW m \in Machines, GrowEnds(m) PROVE CalmInv'
  <1>1. /\ api[m].pc = "grow" /\ api' = [api EXCEPT ![m] = Idle]
        /\ limit' = [limit EXCEPT ![m] = api[m].size]
        /\ row' = [row EXCEPT ![m].size = api[m].size]
        /\ UNCHANGED <<running, wk>>
    <2>1. ~ Fault("incus")
      BY CalmBefore
    <2> QED
      BY <2>1 DEF GrowEnds, To
  <1>2. row \in [Machines -> Row] /\ api \in [Machines -> Request] /\ limit \in [Machines -> Sizes]
    BY DEF TypeOK, Request
  <1>3. RowAgrees(m) /\ RunsOn(m)
    BY DEF CalmInv, MachinesAgree
  <1>4. /\ row'[m].state = row[m].state /\ row'[m].desired = row[m].desired /\ row'[m].size = api[m].size
        /\ limit'[m] = api[m].size /\ api'[m] = Idle /\ api'[m].pc = "idle"
        /\ \A n \in Machines \ {m} : row'[n] = row[n] /\ api'[n] = api[n] /\ limit'[n] = limit[n]
    BY <1>1, <1>2 DEF Row, Idle
  <1>5. row[m].state \in {"on", "off"} /\ api[m].pc = "grow"
    BY <1>1, <1>3 DEF RowAgrees
  <1>6. ClaimsFit'
    <2>1. Counted' \subseteq Counted
      BY <1>4 DEF Counted
    <2>2. \A n \in Machines : Claim'[n] = Claim[n]
      BY <1>4, <1>5 DEF Claim
    <2> QED
      BY <2>1, <2>2, ClaimsStay, ClaimTyped DEF CalmInv
  <1>7. RowAgrees(m)' /\ RunsOn(m)' /\ SeenDown(m)'
    BY <1>1, <1>3, <1>4, <1>5 DEF RowAgrees, RunsOn, SeenDown
  <1>8. wk.pc = "start" /\ wk.m = m => row'[m].state = "on"
    BY <1>4 DEF CalmInv, DecisionsStand
  <1> QED
    BY <1>1, <1>4, <1>6, <1>7, <1>8, Elsewhere DEF CalmInv

LEMMA ResizeCalm == ASSUME TypeOK, TypeOK', CalmInv, Calm', NEW m \in Machines, Resize(m) PROVE CalmInv'
  <1>1. PICK size \in Sizes : row' = [row EXCEPT ![m].size = size]
    BY DEF Resize
  <1>2. row[m].state # "on" /\ api[m].pc \in {"idle", "on", "off"} /\ UNCHANGED <<running, limit, api, wk>>
    BY DEF Resize
  <1>3. m \notin running /\ row[m].state # "starting" /\ api[m].pc # "on"
    BY CalmBefore DEF Resize
  <1>4. row \in [Machines -> Row]
    BY DEF TypeOK
  <1>5. /\ row'[m].state = row[m].state /\ \A n \in Machines \ {m} : row'[n] = row[n]
    BY <1>1, <1>4 DEF Row
  <1>6. RowAgrees(m) /\ SeenDown(m)
    BY DEF CalmInv, MachinesAgree
  <1>7. ClaimsFit'
    <2>1. Counted' = Counted /\ m \notin Counted
      BY <1>2, <1>3, <1>5 DEF Counted
    <2>2. \A n \in Machines \ {m} : Claim'[n] = Claim[n]
      BY <1>2, <1>5 DEF Claim
    <2> QED
      BY <2>1, <2>2, ClaimsStay, ClaimTyped DEF CalmInv
  <1>8. RowAgrees(m)' /\ RunsOn(m)' /\ SeenDown(m)'
    BY <1>2, <1>3, <1>5, <1>6 DEF RowAgrees, RunsOn, SeenDown
  <1>9. wk.pc = "start" /\ wk.m = m => row'[m].state = "on"
    BY <1>5 DEF CalmInv, DecisionsStand
  <1> QED
    BY <1>2, <1>5, <1>7, <1>8, <1>9, Elsewhere DEF CalmInv

LEMMA StopRunCalm == ASSUME TypeOK, TypeOK', CalmInv, Calm', NEW m \in Machines, StopRun(m) PROVE CalmInv'
  <1>1. /\ wk = Idle /\ row[m].state = "on" /\ running' = running \ {m}
        /\ row' = [row EXCEPT ![m].state = "off", ![m].desired = FALSE]
        /\ UNCHANGED <<limit, api, wk>>
    <2>1. ~ Fault("incus")
      BY CalmBefore
    <2> QED
      BY <2>1 DEF StopRun
  <1>2. row \in [Machines -> Row]
    BY DEF TypeOK
  <1>3. /\ row'[m].state = "off" /\ row'[m].size = row[m].size
        /\ \A n \in Machines \ {m} : row'[n] = row[n]
    BY <1>1, <1>2 DEF Row
  <1>4. RowAgrees(m)
    BY DEF CalmInv, MachinesAgree
  <1>5. ClaimsFit'
    <2>1. Counted' \subseteq Counted
      BY <1>3 DEF Counted
    <2>2. \A n \in Machines : Claim'[n] = Claim[n]
      <3>1. api' = api
        BY <1>1
      <3> QED
        BY <1>3, <3>1 DEF Claim
    <2> QED
      BY <2>1, <2>2, ClaimsStay, ClaimTyped DEF CalmInv
  <1>6. RowAgrees(m)' /\ RunsOn(m)' /\ SeenDown(m)'
    BY <1>1, <1>3, <1>4 DEF RowAgrees, RunsOn, SeenDown, Idle
  <1>7. wk.pc = "idle"
    BY <1>1 DEF Idle
  <1> QED
    BY <1>1, <1>3, <1>5, <1>6, <1>7, Elsewhere DEF CalmInv

LEMMA LookCalm == ASSUME TypeOK, TypeOK', CalmInv, Calm', Begin \/ \E m \in Machines : Observe(m) PROVE CalmInv'
  <1>1. UNCHANGED <<row, running, limit, api>>
    BY DEF Begin, Observe
  <1>2. ClaimsFit'
    BY <1>1 DEF CalmInv, ClaimsFit, Claim, Counted
  <1>3. CASE Begin
    <2>1. wk'.pc = "next" /\ wk'.rows = row
      BY <1>3 DEF Begin
    <2>2. MachinesAgree' /\ CopiesAgree' /\ DecisionsStand'
      BY <1>1, <2>1 DEF CalmInv, MachinesAgree, RowAgrees, RunsOn, SeenDown, CopiesAgree, DecisionsStand
    <2> QED
      BY <1>2, <2>2 DEF CalmInv
  <1>4. ASSUME NEW m \in Machines, Observe(m) PROVE CalmInv'
    <2>1. /\ wk' = [pc |-> "observed", rows |-> wk.rows, todo |-> wk.todo \ {m}, m |-> m, on |-> m \in running]
          /\ wk.pc = "next"
      <3>1. ~ Fault("incus")
        BY CalmBefore
      <3> QED
        BY <1>4, <3>1 DEF Observe
    <2>2. wk'.pc = "observed" /\ wk'.rows = wk.rows /\ wk'.m = m
      BY <2>1
    <2>3. wk'.on = (m \in running)
      BY <2>1, Zenon
    <2>4. \A n \in Machines : RowAgrees(n) /\ RunsOn(n)
      BY DEF CalmInv, MachinesAgree
    <2>5. \A n \in Machines : SeenDown(n)'
      <3>1. ASSUME NEW n \in Machines, row[n].state \in {"starting", "stopping"}, api[n] = Idle
            PROVE  n \notin running
        BY <2>4, <3>1 DEF RunsOn, Idle
      <3> QED
        BY <1>1, <2>2, <2>3, <3>1 DEF SeenDown
    <2>6. MachinesAgree'
      BY <1>1, <2>4, <2>5 DEF MachinesAgree, RowAgrees, RunsOn
    <2>7. CopiesAgree' /\ DecisionsStand'
      BY <2>1, <2>2 DEF CalmInv, CopiesAgree, DecisionsStand
    <2> QED
      BY <1>2, <2>6, <2>7 DEF CalmInv
  <1> QED
    BY <1>3, <1>4

\* There is room for a machine that is already counted.
LEMMA RoomToReturn ==
    ASSUME TypeOK, ClaimsFit, MachinesAgree, wk \in AtWork, row[wk.m].state = "on",
           \A n \in Machines : wk.rows[n].size = row[n].size
    PROVE  Fits(wk.m, wk.rows[wk.m].size, wk.rows)
  <1> DEFINE others == Counted \ {wk.m}
  <1>1. wk.m \in Machines /\ wk.m \in Counted /\ wk.rows \in [Machines -> Row]
    BY DEF AtWork, Counted
  <1>2. /\ Claim \in [Machines -> Nat] /\ SizeIn(row) \in [Machines -> Nat]
        /\ IsFiniteSet(Counted) /\ IsFiniteSet(others) /\ Counted \subseteq Machines
    BY ClaimTyped, FS_Subset
  <1>3. SizeIn(wk.rows) = SizeIn(row)
    BY DEF SizeIn
  <1>4. \A n \in Machines : SizeIn(row)[n] = row[n].size /\ row[n].size <= Claim[n]
    <2>1. ASSUME NEW n \in Machines PROVE SizeIn(row)[n] <= Claim[n]
      <3>1. RowAgrees(n) /\ SizeIn(row)[n] = row[n].size /\ SizeIn(row)[n] \in Nat /\ Claim[n] \in Nat
        BY <1>2 DEF MachinesAgree, SizeIn
      <3>2. Claim[n] = IF api[n].pc = "grow" THEN api[n].size ELSE row[n].size
        BY DEF Claim
      <3> QED
        BY <3>1, <3>2 DEF RowAgrees
    <2> QED
      BY <2>1 DEF SizeIn
  <1>5. /\ Weighs(Claim, Counted) /\ Weighs(Claim, others) /\ Weighs(SizeIn(row), others)
    BY <1>2 DEF Weighs
  <1>6. Total(Claim, Counted) = Claim[wk.m] + Total(Claim, others)
    BY <1>1, <1>2, <1>5, TotalRemove
  <1>7. Total(SizeIn(row), others) <= Total(Claim, others)
    BY <1>2, <1>4, <1>5, TotalGrows
  <1>8. Total(Claim, others) \in Nat /\ Total(SizeIn(row), others) \in Nat /\ Host \in Nat
    BY <1>2, <1>5, TotalIsNat, AdmissionAssumption
  <1>9. row[wk.m].size \in Nat /\ Claim[wk.m] \in Nat
    BY <1>1, <1>2, <1>4
  <1>10. Total(SizeIn(row), others) + row[wk.m].size <= Host
    BY <1>1, <1>4, <1>6, <1>7, <1>8, <1>9 DEF ClaimsFit
  <1>11. wk.rows[wk.m].size = row[wk.m].size
    BY <1>1
  <1> QED
    BY <1>3, <1>10, <1>11, Zenon DEF Fits

\* All the reconciler decides in a calm run.
LEMMA Decides ==
    ASSUME TypeOK, CalmInv, Calm', Reconcile
    PROVE  /\ wk \in AtWork /\ wk.pc = "observed" /\ api[wk.m] = Idle /\ wk.rows[wk.m].state = row[wk.m].state
           /\ UNCHANGED <<running, limit, api>>
           /\ \/ /\ row[wk.m].state \in {"starting", "stopping"} /\ GoOn("off")
                 /\ row' = [row EXCEPT ![wk.m].state = "off"]
              \/ row[wk.m].state = "off" /\ row' = row /\ (Goto("stop", "off") \/ GoOn("off"))
              \/ row[wk.m].state = "on" /\ row' = row /\ (Goto("start", "on") \/ GoOn("on"))
  <1> DEFINE copy == wk.rows[wk.m]
             stray == wk.on /\ (Adopted = "off" \/ ~copy.desired)
             lost == ~wk.on /\ Adopted = "on"
             returns == copy.desired /\ Fits(wk.m, copy.size, wk.rows)
  <1>1. wk \in AtWork /\ wk.pc = "observed"
    BY WorkerPcs DEF Reconcile
  <1>2. wk.m \in Machines /\ copy \in Row /\ row \in [Machines -> Row]
    BY <1>1 DEF AtWork, TypeOK
  <1>3. ~Stale /\ "credit" \notin upset
    <2>1. Calm /\ (IF Stale THEN {"stale"} ELSE {}) \subseteq {"reboot"}
      BY CalmBefore DEF Reconcile
    <2> QED
      BY <2>1 DEF Calm
  <1>4. copy.state = row[wk.m].state /\ api[wk.m] = Idle /\ \A n \in Machines : wk.rows[n].size = row[n].size
    BY <1>3 DEF Stale
  <1>5. copy.state # "error" /\ (copy.state = "on" => copy.desired)
    BY <1>1, <1>2 DEF CalmInv, CopiesAgree
  <1>6. SeenDown(wk.m)
    BY <1>2 DEF CalmInv, MachinesAgree
  <1>7. /\ UNCHANGED <<running, limit, api>>
        /\ \/ stray /\ Save(Adopted) /\ Goto("stop", Adopted)
           \/ lost /\ returns /\ Goto("start", "on") /\ UNCHANGED row
           \/ lost /\ (~returns \/ "credit" \in upset) /\ Save("off") /\ GoOn("off")
           \/ ~stray /\ ~lost /\ Save(Adopted) /\ GoOn(Adopted)
    BY Zenon DEF Reconcile
  <1>8. Save(copy.state) => row' = row
    <2>1. Save(copy.state) => row' = [row EXCEPT ![wk.m].state = @]
      BY DEF Save
    <2> QED
      BY <1>2, <2>1 DEF Row
  <1>9. CASE copy.state \in {"starting", "stopping"}
    <2>1. ~wk.on
      BY <1>1, <1>4, <1>6, <1>9 DEF SeenDown
    <2>2. Adopted = "off"
      BY <1>9, <2>1 DEF Adopted
    <2>3. Save("off") /\ GoOn("off")
      BY <1>7, <2>1, <2>2
    <2>4. row' = [row EXCEPT ![wk.m].state = "off"]
      BY <1>9, <2>3 DEF Save
    <2> QED
      BY <1>1, <1>4, <1>7, <1>9, <2>3, <2>4
  <1>10. CASE copy.state = "off"
    <2>1. Adopted = "off"
      BY <1>10 DEF Adopted
    <2>2. Save(copy.state) /\ (Goto("stop", "off") \/ GoOn("off"))
      BY <1>7, <1>10, <2>1
    <2> QED
      BY <1>1, <1>4, <1>7, <1>8, <1>10, <2>2
  <1>11. CASE copy.state = "on"
    <2>1. Adopted = "on"
      BY <1>11 DEF Adopted
    <2>2. copy.desired
      BY <1>5, <1>11
    <2>3. returns
      <3>1. Fits(wk.m, copy.size, wk.rows)
        BY <1>1, <1>4, <1>11, RoomToReturn DEF CalmInv
      <3> QED
        BY <2>2, <3>1
    <2>4. row' = row /\ (Goto("start", "on") \/ GoOn("on"))
      <3>1. CASE stray /\ Save(Adopted) /\ Goto("stop", Adopted)
        BY <2>1, <2>2, <3>1
      <3>2. CASE lost /\ returns /\ Goto("start", "on") /\ UNCHANGED row
        BY <3>2
      <3>3. CASE lost /\ (~returns \/ "credit" \in upset) /\ Save("off") /\ GoOn("off")
        BY <1>3, <2>3, <3>3, Zenon
      <3>4. CASE ~stray /\ ~lost /\ Save(Adopted) /\ GoOn(Adopted)
        <4>1. Save(copy.state) /\ GoOn("on")
          BY <1>11, <2>1, <3>4
        <4> QED
          BY <1>8, <4>1
      <3> QED
        BY <1>7, <3>1, <3>2, <3>3, <3>4, Zenon
    <2> QED
      BY <1>1, <1>4, <1>7, <1>11, <2>4
  <1> QED
    BY <1>2, <1>5, <1>9, <1>10, <1>11 DEF Row, States

\* What the pass does to its copies when it leaves a machine, or is about to act on it.
LEMMA CopiesGoOn ==
    ASSUME wk \in AtWork, CopiesAgree, NEW state \in {"on", "off"}, GoOn(state),
           state = "on" => wk.rows[wk.m].state = "on"
    PROVE  CopiesAgree' /\ wk'.pc \in {"idle", "next"}
  <1>1. wk.m \in Machines /\ wk.rows \in [Machines -> Row] /\ wk.pc # "idle"
    BY DEF AtWork
  <1> DEFINE copies == [wk.rows EXCEPT ![wk.m].state = state]
  <1>2. \A n \in Machines : copies[n].state # "error" /\ (copies[n].state = "on" => copies[n].desired)
    BY <1>1 DEF CopiesAgree, Row
  <1>3. CASE wk.todo = {}
    BY <1>3 DEF GoOn, Idle, CopiesAgree
  <1>4. CASE wk.todo # {}
    <2>1. wk'.pc = "next" /\ wk'.rows = copies
      BY <1>4 DEF GoOn
    <2> QED
      BY <1>2, <2>1 DEF CopiesAgree
  <1> QED
    BY <1>3, <1>4

LEMMA CopiesGoTo ==
    ASSUME wk \in AtWork, CopiesAgree, NEW pc \in {"stop", "start"}, NEW state \in {"on", "off"}, Goto(pc, state),
           state = wk.rows[wk.m].state
    PROVE  CopiesAgree' /\ wk'.pc = pc /\ wk'.m = wk.m /\ wk'.rows[wk.m].state = state
  <1>1. wk.m \in Machines /\ wk.rows \in [Machines -> Row] /\ wk.pc # "idle"
    BY DEF AtWork
  <1>2. wk' = [wk EXCEPT !.pc = pc, !.rows = [wk.rows EXCEPT ![wk.m].state = state]]
    BY DEF Goto, AtWork
  <1> DEFINE copies == [wk.rows EXCEPT ![wk.m].state = state]
  <1>3. wk'.pc = pc /\ wk'.m = wk.m /\ wk'.rows = copies
    BY <1>2 DEF AtWork
  <1>4. \A n \in Machines : copies[n].state = wk.rows[n].state /\ copies[n].desired = wk.rows[n].desired
    BY <1>1 DEF Row
  <1> HIDE DEF copies
  <1> QED
    BY <1>1, <1>3, <1>4 DEF CopiesAgree

LEMMA ReconcileCalm == ASSUME TypeOK, TypeOK', CalmInv, Calm', Reconcile PROVE CalmInv'
  <1>1. /\ wk \in AtWork /\ wk.pc = "observed" /\ api[wk.m] = Idle /\ wk.rows[wk.m].state = row[wk.m].state
        /\ UNCHANGED <<running, limit, api>>
    BY Decides
  <1>2. wk.m \in Machines /\ row \in [Machines -> Row]
    BY <1>1 DEF AtWork, TypeOK
  <1>3. /\ wk'.pc # "observed" /\ CopiesAgree' /\ DecisionsStand'
        /\ \/ row' = row
           \/ row[wk.m].state \in {"starting", "stopping"} /\ row' = [row EXCEPT ![wk.m].state = "off"]
    <2>1. CASE row[wk.m].state \in {"starting", "stopping"} /\ GoOn("off") /\ row' = [row EXCEPT ![wk.m].state = "off"]
      <3>1. CopiesAgree /\ ("off" = "on" => wk.rows[wk.m].state = "on")
        BY DEF CalmInv
      <3>2. CopiesAgree' /\ wk'.pc \in {"idle", "next"}
        BY <1>1, <2>1, <3>1, CopiesGoOn
      <3> QED
        BY <2>1, <3>2 DEF DecisionsStand
    <2>2. CASE row[wk.m].state = "off" /\ row' = row /\ Goto("stop", "off")
      <3>1. CopiesAgree /\ wk.rows[wk.m].state = "off"
        BY <1>1, <2>2 DEF CalmInv
      <3>2. CopiesAgree' /\ wk'.pc = "stop" /\ wk'.m = wk.m /\ wk'.rows[wk.m].state = "off"
        BY <1>1, <2>2, <3>1, CopiesGoTo
      <3> QED
        BY <2>2, <3>2 DEF DecisionsStand
    <2>3. CASE row[wk.m].state = "on" /\ row' = row /\ Goto("start", "on")
      <3>1. CopiesAgree /\ wk.rows[wk.m].state = "on"
        BY <1>1, <2>3 DEF CalmInv
      <3>2. CopiesAgree' /\ wk'.pc = "start" /\ wk'.m = wk.m /\ wk'.rows[wk.m].state = "on"
        BY <1>1, <2>3, <3>1, CopiesGoTo
      <3> QED
        BY <2>3, <3>2 DEF DecisionsStand
    <2>4. CASE row[wk.m].state \in {"on", "off"} /\ row' = row /\ GoOn(row[wk.m].state)
      <3>1. CopiesAgree' /\ wk'.pc \in {"idle", "next"}
        BY <1>1, <2>4, CopiesGoOn DEF CalmInv
      <3> QED
        BY <2>4, <3>1 DEF DecisionsStand
    <2> QED
      BY <2>1, <2>2, <2>3, <2>4, Decides
  <1>4. \A n \in Machines : /\ row'[n].size = row[n].size /\ row'[n].desired = row[n].desired
                            /\ \/ row'[n].state = row[n].state
                               \/ row'[n].state = "off" /\ row[n].state \in {"starting", "stopping"} /\ api[n] = Idle
    BY <1>1, <1>2, <1>3 DEF Row
  <1>5. MachinesAgree'
    <2>1. \A n \in Machines : RowAgrees(n) /\ RunsOn(n)
      BY DEF CalmInv, MachinesAgree
    <2>2. \A n \in Machines : RowAgrees(n)' /\ RunsOn(n)'
      BY <1>1, <1>4, <2>1 DEF RowAgrees, RunsOn, Idle
    <2>3. \A n \in Machines : SeenDown(n)'
      BY <1>3 DEF SeenDown
    <2> QED
      BY <2>2, <2>3 DEF MachinesAgree
  <1>6. ClaimsFit'
    <2>1. Counted' \subseteq Counted
      BY <1>4 DEF Counted
    <2>2. \A n \in Machines : Claim'[n] = Claim[n]
      BY <1>1, <1>4 DEF Claim
    <2> QED
      BY <2>1, <2>2, ClaimsStay, ClaimTyped DEF CalmInv
  <1> QED
    BY <1>3, <1>5, <1>6 DEF CalmInv

LEMMA ReconcileActsCalm == ASSUME TypeOK, TypeOK', CalmInv, Calm', ReconcileStops \/ ReconcileStarts PROVE CalmInv'
  <1>1. ~ Fault("incus")
    BY CalmBefore
  <1>2. wk \in AtWork /\ wk.m \in Machines /\ row \in [Machines -> Row]
    BY WorkerPcs DEF ReconcileStops, ReconcileStarts, AtWork, TypeOK
  <1>3. /\ UNCHANGED <<row, limit, api>>
        /\ CopiesAgree' /\ wk'.pc \in {"idle", "next"}
        /\ \/ running' = running \ {wk.m}
           \/ running' = running \cup {wk.m} /\ row[wk.m].state = "on"
    <2>1. CASE ReconcileStops
      <3>1. wk.pc = "stop" /\ running' = running \ {wk.m} /\ Save("off") /\ GoOn("off") /\ UNCHANGED <<limit, api>>
        BY <1>1, <2>1 DEF ReconcileStops
      <3>2. wk.rows[wk.m].state = "off"
        BY <3>1 DEF CalmInv, DecisionsStand
      <3>3. row' = row
        <4>1. row' = [row EXCEPT ![wk.m].state = @]
          BY <3>1, <3>2 DEF Save
        <4> QED
          BY <1>2, <4>1 DEF Row
      <3> QED
        BY <1>2, <3>1, <3>3, CopiesGoOn DEF CalmInv
    <2>2. CASE ReconcileStarts
      <3>1. wk.pc = "start" /\ running' = running \cup {wk.m} /\ GoOn("on") /\ UNCHANGED <<row, limit, api>>
        BY <1>1, <2>2 DEF ReconcileStarts
      <3> QED
        BY <1>2, <3>1, CopiesGoOn DEF CalmInv, DecisionsStand
    <2> QED
      BY <2>1, <2>2
  <1>4. ClaimsFit'
    BY <1>3 DEF CalmInv, ClaimsFit, Claim, Counted
  <1>5. MachinesAgree'
    BY <1>2, <1>3 DEF CalmInv, MachinesAgree, RowAgrees, RunsOn, SeenDown
  <1>6. DecisionsStand'
    BY <1>3 DEF DecisionsStand
  <1> QED
    BY <1>3, <1>4, <1>5, <1>6 DEF CalmInv

LEMMA RebootCalm == ASSUME TypeOK, CalmInv, Reboot PROVE CalmInv'
  <1>1. running' = {} /\ api' = [m \in Machines |-> Idle] /\ wk' = Idle /\ UNCHANGED <<row, limit>>
    BY DEF Reboot
  <1>2. \A n \in Machines : api'[n] = Idle /\ api'[n].pc = "idle"
    BY <1>1 DEF Idle
  <1>3. TypeOK'
    BY DownType
  <1>4. ClaimsFit'
    <2>1. Counted' \subseteq Counted
      BY <1>1 DEF Counted
    <2>2. \A n \in Machines : Claim'[n] <= Claim[n]
      <3>1. ASSUME NEW n \in Machines PROVE Claim'[n] <= Claim[n]
        <4>1. RowAgrees(n) /\ Claim[n] \in Nat /\ SizeIn(row)[n] \in Nat /\ SizeIn(row)[n] = row[n].size
          BY ClaimTyped DEF CalmInv, MachinesAgree, SizeIn
        <4>2. Claim'[n] = row[n].size
          BY <1>1, <1>2 DEF Claim
        <4>3. Claim[n] = IF api[n].pc = "grow" THEN api[n].size ELSE row[n].size
          BY DEF Claim
        <4> QED
          BY <4>1, <4>2, <4>3 DEF RowAgrees
      <3> QED
        BY <3>1
    <2> QED
      BY <1>3, <2>1, <2>2, ClaimsShrink, ClaimTyped DEF CalmInv
  <1>5. MachinesAgree'
    BY <1>1, <1>2 DEF CalmInv, MachinesAgree, RowAgrees, RunsOn, SeenDown, Idle
  <1>6. CopiesAgree' /\ DecisionsStand'
    BY <1>1 DEF CopiesAgree, DecisionsStand, Idle
  <1> QED
    BY <1>4, <1>5, <1>6 DEF CalmInv

LEMMA InitInv == Init => IInv
  <1> SUFFICES ASSUME Init PROVE IInv
    OBVIOUS
  <1>1. TypeOK
    BY InitType
  <1>2. \A m \in Machines : row[m].state = "off" /\ api[m].pc = "idle"
    BY DEF Init, Idle
  <1>3. ClaimsFit
    <2>1. Counted = {}
      BY <1>2 DEF Counted
    <2>2. Total(Claim, Counted) = 0
      BY <2>1, TotalEmpty
    <2> QED
      BY <2>2, AdmissionAssumption DEF ClaimsFit
  <1>4. MachinesAgree
    BY <1>2 DEF Init, MachinesAgree, RowAgrees, RunsOn, SeenDown
  <1>5. CopiesAgree /\ DecisionsStand
    BY DEF Init, Idle, CopiesAgree, DecisionsStand
  <1> QED
    BY <1>1, <1>3, <1>4, <1>5 DEF IInv, CalmInv

LEMMA NextInv == ASSUME IInv, [Next]_vars PROVE IInv'
  <1>1. TypeOK /\ TypeOK'
    BY NextType DEF IInv
  <1>2. SUFFICES ASSUME Calm' PROVE CalmInv'
    BY <1>1 DEF IInv
  <1>3. CASE UNCHANGED vars
    <2>1. Calm
      BY <1>2, <1>3 DEF vars, Calm
    <2> QED
      BY <1>3, <2>1 DEF vars, IInv, CalmInv, ClaimsFit, Claim, Counted, MachinesAgree, RowAgrees, RunsOn,
                        SeenDown, CopiesAgree, DecisionsStand
  <1>4. CASE Next
    <2>1. Calm
      BY <1>2, <1>4, CalmBefore DEF Next, Handle, Ends, Work, PowerOn, PowerOnEnds, PowerOff, PowerOffEnds,
            Grow, GrowEnds, Resize, StopRun, Archive, Begin, Observe, Reconcile, ReconcileStops,
            ReconcileStarts, ApiDies, Reboot, NoFault, Calm
    <2>2. CalmInv
      BY <2>1 DEF IInv
    <2>3. ASSUME NEW m \in Machines, Handle(m) \/ StopRun(m) \/ Archive(m) PROVE CalmInv'
      <3>1. ~ Archive(m)
        BY <1>2, CalmBefore DEF Archive
      <3> QED
        BY <1>1, <1>2, <2>2, <2>3, <3>1, PowerOnCalm, PowerOnEndsCalm, PowerOffCalm, PowerOffEndsCalm,
           GrowCalm, GrowEndsCalm, ResizeCalm, StopRunCalm DEF Handle, Ends
    <2>4. CASE Work
      BY <1>1, <1>2, <2>2, <2>4, LookCalm, ReconcileCalm, ReconcileActsCalm DEF Work
    <2>5. CASE ApiDies \/ Reboot
      <3>1. ~ ApiDies
        BY <1>2, CalmBefore DEF ApiDies
      <3> QED
        BY <1>1, <2>2, <2>5, <3>1, RebootCalm
    <2> QED
      BY <1>4, <2>3, <2>4, <2>5 DEF Next
  <1> QED
    BY <1>3, <1>4

LEMMA Invariance == Spec => []IInv
  BY InitInv, NextInv, PTL DEF Spec

\* Type correctness, for any number of machines, sizes, requests and faults.
THEOREM Typing == Spec => []TypeOK
  <1>1. IInv => TypeOK
    BY DEF IInv
  <1> QED
    BY <1>1, Invariance, PTL

\* For any number of machines of any sizes and a host of any size: starts, growths, stops,
\* restorations and reboots in any order take no more memory than there is, in a run
\* without what admission does not see (check_admission).
THEOREM MemoryIsEnough == Spec => []AdmittedMemoryFits
  <1>1. IInv => AdmittedMemoryFits
    <2> SUFFICES ASSUME IInv, Calm PROVE InUse <= Host
      BY DEF AdmittedMemoryFits, Calm
    <2> DEFINE drawing == {m \in running : api[m].pc # "off"}
    <2>1. TypeOK /\ ClaimsFit /\ MachinesAgree
      BY DEF IInv, CalmInv
    <2>2. drawing \subseteq Counted
      BY <2>1 DEF TypeOK, MachinesAgree, RunsOn, Counted
    <2>3. /\ Claim \in [Machines -> Nat] /\ limit \in [Machines -> Nat] /\ SizeIn(row) \in [Machines -> Nat]
          /\ IsFiniteSet(Counted) /\ IsFiniteSet(drawing) /\ Counted \subseteq Machines
      BY <2>1, <2>2, ClaimTyped, FS_Subset
    <2>4. \A m \in drawing : limit[m] <= Claim[m]
      <3>1. ASSUME NEW m \in drawing PROVE limit[m] <= Claim[m]
        <4>1. /\ m \in Machines /\ RowAgrees(m) /\ row[m].state = "on" /\ limit[m] = row[m].size
              /\ limit[m] \in Nat /\ Claim[m] \in Nat
          BY <2>1, <2>2, <2>3 DEF MachinesAgree, RunsOn, RowAgrees
        <4>2. Claim[m] = IF api[m].pc = "grow" THEN api[m].size ELSE row[m].size
          BY <4>1 DEF Claim
        <4> QED
          BY <4>1, <4>2 DEF RowAgrees
      <3> QED
        BY <3>1
    <2>5. Weighs(Claim, Counted) /\ Weighs(limit, drawing)
      BY <2>2, <2>3 DEF Weighs
    <2>6. Total(limit, drawing) <= Total(Claim, Counted)
      <3> HIDE DEF drawing
      <3> QED
        BY <2>2, <2>3, <2>4, <2>5, TotalGrows
    <2>7. Total(limit, drawing) \in Nat /\ Total(Claim, Counted) \in Nat /\ Host \in Nat
      <3> HIDE DEF drawing
      <3> QED
        BY <2>3, <2>5, TotalIsNat, AdmissionAssumption
    <2> QED
      BY <2>1, <2>6, <2>7 DEF InUse, ClaimsFit
  <1> QED
    BY <1>1, Invariance, PTL

\* For any number of machines, whatever order the reconciler comes to them in and whatever
\* is started meanwhile, a machine that was on finds room after a reboot (reconcile_once).
THEOREM RoomForAll == Spec => RebootForgetsNobody
  <1>1. ASSUME IInv, [Next]_vars
        PROVE  [upset' \subseteq {"reboot"} /\ wk.pc = "observed" /\ wk' # wk
                  /\ wk.rows[wk.m].state = "on" /\ wk.rows[wk.m].desired
                  => row'[wk.m].state = row[wk.m].state]_vars
    <2> SUFFICES ASSUME Next, Calm', wk.pc = "observed", wk' # wk, wk.rows[wk.m].state = "on"
                 PROVE  row'[wk.m].state = row[wk.m].state
      BY <1>1 DEF Calm, vars
    <2>1. TypeOK
      BY <1>1 DEF IInv
    <2>2. Reconcile \/ Reboot
      <3>1. ASSUME NEW m \in Machines PROVE ~ (Handle(m) \/ StopRun(m) \/ Archive(m))
        BY Zenon DEF Handle, Ends, PowerOn, PowerOnEnds, PowerOff, PowerOffEnds, Grow, GrowEnds, Resize, StopRun, Archive
      <3>2. ~ ApiDies
        BY Zenon DEF ApiDies
      <3>3. ~ Begin /\ \A m \in Machines : ~ Observe(m)
        BY DEF Begin, Observe, Idle
      <3>4. ~ ReconcileStops /\ ~ ReconcileStarts
        BY DEF ReconcileStops, ReconcileStarts
      <3> QED
        BY <3>1, <3>2, <3>3, <3>4, Zenon DEF Next, Work
    <2>3. CASE Reconcile
      <3>1. CalmInv
        <4>1. Calm
          BY <2>3, CalmBefore DEF Reconcile
        <4> QED
          BY <1>1, <4>1 DEF IInv
      <3>2. wk.rows[wk.m].state = row[wk.m].state
        BY <2>1, <2>3, <3>1, Decides
      <3>3. row' = row
        BY <2>1, <2>3, <3>1, <3>2, Decides
      <3> QED
        BY <3>3
    <2>4. CASE Reboot
      BY <2>4 DEF Reboot
    <2> QED
      BY <2>2, <2>3, <2>4
  <1> QED
    BY <1>1, Invariance, PTL DEF Spec, RebootForgetsNobody
=============================================================================
