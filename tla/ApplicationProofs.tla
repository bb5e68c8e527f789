-------------------------- MODULE ApplicationProofs --------------------------
(***************************************************************************)
(* Theorems about Application, for any services, features, requirements    *)
(* and threads, any of which may fail to initialize or to stop.            *)
(***************************************************************************)
EXTENDS Application, WellFoundedInduction, TLAPS

(* The code keeps these promises only if nobody stops the application      *)
(* before it runs, nor while others attach services to it.                 *)
Separate ==
    /\ Impatient = {}
    /\ \A scenario \in Scenarios :
          scenario.threads \intersect Stoppers = {} \/ scenario.threads \intersect Attachers = {}

Stopping == {"do_stop", "stopping", "stopNow", "status"}
Up == {"test", "sleep", "asleep"}
Labels == {"idle", "services", "initialize", "stop", "done"} \union Stopping \union Up
AttachersAreDone == \A t \in Attachers : pc[t] = "done"

(* The services and their requirements.                                    *)
Registry ==
    /\ registered \in Seq(Services) /\ IsInjective(registered)
    /\ requirements \in {scenario.graph : scenario \in Scenarios}
    /\ initialized \in [Services -> 0 .. 2]

(* Where each thread may be, and what that tells of the application.       *)
Typed ==
    /\ flags \in [Services \union {App} -> SUBSET {"Starting", "Running", "Error"}]
    /\ pc \in [Threads -> Labels]
    /\ failed \in [Threads -> BOOLEAN] /\ threw \in [Threads -> BOOLEAN]
    /\ stopNow \in BOOLEAN /\ signalled \in BOOLEAN /\ missed \in BOOLEAN
Helpers ==
    /\ \A t \in Stoppers : /\ pc[t] \in Stopping \union {"idle", "done"}
                           /\ pc[t] \in Stopping => signalled
    /\ \A t \in Attachers : /\ pc[t] \in {"idle", "initialize", "done"}
                            /\ pc[t] = "initialize" => pc[Main] \in Up
    /\ (\A t \in Stoppers : pc[t] = "done") \/ AttachersAreDone
Starter ==
    /\ pc[Main] = "idle" => flags[App] = {} /\ ~ signalled /\ ~ stopNow
    /\ pc[Main] \in {"services", "initialize"} =>
          flags[App] = {"Starting"} /\ ~ signalled /\ ~ stopNow
    /\ ~ AttachersAreDone =>
          /\ pc[Main] \in Up => flags[App] = {"Running"} /\ ~ stopNow
          /\ pc[Main] \in Stopping \union {"stop"} => flags[App] = {"Starting"}
    /\ pc[Main] = "done" => IsStopped(App)
Phases == Typed /\ Helpers /\ Starter

(* The calls of initialize under way: each for a service of its own, which *)
(* is starting, and whose first requirements run or are being started by   *)
(* the next call.                                                          *)
Frames ==
    /\ stack \in [Threads -> Seq(Frame)]
    /\ \A t \in Threads : stack[t] # <<>> <=> pc[t] = "initialize"
Started ==
    \A t \in Threads : \A i \in DOMAIN stack[t] :
        /\ stack[t][i].service \in ToSet(registered)
        /\ flags[stack[t][i].service] = {"Starting"}
Once ==
    \A t, u \in Threads : \A i \in DOMAIN stack[t], j \in DOMAIN stack[u] :
        stack[t][i].service = stack[u][j].service => t = u /\ i = j
Unattached == \A s \in Services \ ToSet(registered) : flags[s] = {}
Stacks == Frames /\ Started /\ Once /\ Unattached

Chosen(t, i, n) == Select(requirements[stack[t][i].service][n])
Resolved ==
    \A t \in Threads : \A i \in DOMAIN stack[t] :
        \A n \in 1 .. stack[t][i].next - 1 :
            /\ Chosen(t, i, n) # NoService
            /\ \/ IsRunning(Chosen(t, i, n))
               \/ /\ i < Len(stack[t]) /\ n = stack[t][i].next - 1
                  /\ Chosen(t, i, n) = stack[t][i + 1].service

(* The loops over m_services.  What do_stop has passed is stopped.         *)
Passed(t, i) ==
    cursor[t] = None \/ \E j \in DOMAIN registered : registered[j] = cursor[t] /\ i < j
AllStopped == \A i \in DOMAIN registered : IsStopped(registered[i])
Cursors ==
    /\ cursor \in [Threads -> ToSet(registered) \union {None}]
    /\ pc[Main] = "initialize" => cursor[Main] # None
Walk(t) ==
    /\ pc[t] = "stopping" => cursor[t] # None
    /\ pc[t] \in {"do_stop", "stopping"} =>
          \A i \in DOMAIN registered : Passed(t, i) => IsStopped(registered[i])
    /\ pc[t] \in {"stopNow", "status"} => AllStopped
Over == pc[Main] # "idle" /\ IsStopped(App) => AllStopped
Loops == Cursors /\ (\A t \in Threads : Walk(t)) /\ Over

IInv == Registry /\ Phases /\ Stacks /\ Resolved /\ Loops
-----------------------------------------------------------------------------
(* Lemmas about the threads, the multimap and its order. *)

LEMMA ThreadFacts ==
    /\ Main \in Threads /\ Stoppers \subseteq Threads /\ Attachers \subseteq Threads
    /\ Threads = {Main} \union Stoppers \union Attachers
    /\ Main \notin Stoppers /\ Main \notin Attachers /\ Stoppers \intersect Attachers = {}
    /\ App \notin Services /\ NoService \notin Services /\ None \notin Services
BY ApplicationAssumption DEF Threads

LEMMA RequirementsTyped ==
    ASSUME Registry, NEW s \in Services
    PROVE  requirements[s] \in Seq(Requirement)
BY ApplicationAssumption DEF Registry

LEMMA MinIsThere ==
    ASSUME NEW T \in SUBSET Nat, T # {}
    PROVE  Min(T) \in T /\ \A m \in T : Min(T) <= m
<1>1. PICK n \in T : \A m \in T : ~ (<<m, n>> \in OpToRel(<, Nat))
  BY WFMin, NatLessThanWellFounded
<1>2. \A i, j \in Nat : i < j => <<i, j>> \in OpToRel(<, Nat)
  BY DEF OpToRel
<1>3. \A m \in T : ~ (m < n)
  BY <1>1, <1>2, Zenon
<1>4. n \in T /\ \A m \in T : n <= m
  BY <1>3
<1>5. QED BY <1>4 DEF Min

LEMMA InRegistered ==
    ASSUME NEW q \in Seq(Services)
    PROVE  /\ Len(q) \in Nat /\ DOMAIN q = 1 .. Len(q)
           /\ \A i \in DOMAIN q : q[i] \in Services
           /\ \A s : s \in ToSet(q) <=> \E i \in DOMAIN q : q[i] = s
           /\ ToSet(q) \subseteq Services
BY DEF ToSet

(* What select finds is one of the services, the first that matches. *)
Matching(q, r) == {i \in DOMAIN q : Feature[q[i]] = r.feature /\ r.implementation \in {q[i], Whatever}}

LEMMA SelectionIsThere ==
    ASSUME registered \in Seq(Services), NEW r, Select(r) # NoService
    PROVE  /\ Select(r) \in ToSet(registered) /\ Select(r) \in Services
           /\ \E i \in Matching(registered, r) :
                 Select(r) = registered[i] /\ \A j \in Matching(registered, r) : i <= j
<1>1. Select(r) = IF Matching(registered, r) = {} THEN NoService ELSE registered[Min(Matching(registered, r))]
  BY DEF Select, Matching
<1>2. Matching(registered, r) # {} /\ Matching(registered, r) \in SUBSET Nat
  BY <1>1 DEF Matching
<1>3. /\ Min(Matching(registered, r)) \in Matching(registered, r)
      /\ \A j \in Matching(registered, r) : Min(Matching(registered, r)) <= j
  BY <1>2, MinIsThere
<1>4. Min(Matching(registered, r)) \in DOMAIN registered
  BY <1>3 DEF Matching
<1>5. QED BY <1>1, <1>2, <1>3, <1>4, InRegistered

LEMMA InsertedAt ==
    ASSUME NEW q \in Seq(Services), NEW p \in 1 .. Len(q) + 1, NEW s \in Services
    PROVE  /\ InsertAt(q, p, s) \in Seq(Services)
           /\ InsertAt(q, p, s) =
                 [i \in 1 .. Len(q) + 1 |-> IF i < p THEN q[i] ELSE IF i = p THEN s ELSE q[i - 1]]
<1> DEFINE left == SubSeq(q, 1, p - 1)
           right == SubSeq(q, p, Len(q))
<1>1. Len(q) \in Nat /\ p \in Nat /\ p >= 1 /\ p <= Len(q) + 1
  OBVIOUS
<1>2. left \in Seq(Services) /\ Len(left) = p - 1 /\ \A i \in 1 .. p - 1 : left[i] = q[i]
  BY <1>1
<1>3. right \in Seq(Services) /\ Len(right) = Len(q) - p + 1 /\ \A i \in 1 .. Len(q) - p + 1 : right[i] = q[p + i - 1]
  BY <1>1
<1>4. InsertAt(q, p, s) = (left \o <<s>>) \o right
  BY DEF InsertAt
<1> HIDE DEF left, right
<1>5. PICK front : front = left \o <<s>>
  OBVIOUS
<1>6. front \in Seq(Services) /\ Len(front) = p /\ \A i \in 1 .. p : front[i] = IF i < p THEN q[i] ELSE s
  BY <1>1, <1>2, <1>5
<1>7. PICK all : all = front \o right
  OBVIOUS
<1>8. all \in Seq(Services) /\ Len(all) = Len(q) + 1
  <2>0. ASSUME NEW a \in Seq(Services), NEW b \in Seq(Services)
        PROVE  a \o b \in Seq(Services) /\ Len(a \o b) = Len(a) + Len(b)
    OBVIOUS
  <2>1. all \in Seq(Services) /\ Len(all) = Len(front) + Len(right)
    BY <1>3, <1>6, <1>7, <2>0
  <2>2. Len(front) + Len(right) = Len(q) + 1
    BY <1>1, <1>3, <1>6
  <2>3. QED BY <2>1, <2>2
<1>9. ASSUME NEW i \in 1 .. Len(q) + 1
      PROVE  all[i] = IF i < p THEN q[i] ELSE IF i = p THEN s ELSE q[i - 1]
  <2>1. CASE i <= p
    <3>1. i \in 1 .. Len(front) /\ i \in 1 .. p
      BY <1>1, <1>6, <2>1
    <3>2. all[i] = front[i]
      BY <1>3, <1>6, <1>7, <3>1
    <3>3. QED BY <1>1, <1>6, <2>1, <3>1, <3>2
  <2>2. CASE i > p
    <3>1. /\ i - p \in 1 .. Len(q) - p + 1 /\ p + (i - p) - 1 = i - 1 /\ ~ (i < p) /\ i # p
          /\ i \in Len(front) + 1 .. Len(front) + Len(right) /\ i - Len(front) = i - p
      BY <1>1, <1>3, <1>6, <2>2
    <3>2. all[i] = right[i - Len(front)]
      BY <1>1, <1>3, <1>6, <1>7, <3>1
    <3>3. QED BY <1>3, <3>1, <3>2
  <2>3. i <= p \/ i > p
    BY <1>1
  <2>4. QED BY <2>1, <2>2, <2>3
<1>10. InsertAt(q, p, s) = all
  BY <1>4, <1>5, <1>7
<1>11. all = [i \in 1 .. Len(q) + 1 |-> IF i < p THEN q[i] ELSE IF i = p THEN s ELSE q[i - 1]]
  <2>1. all \in [1 .. Len(q) + 1 -> Services]
    BY <1>8
  <2>2. QED BY <1>9, <2>1
<1>12. QED BY <1>8, <1>10, <1>11

(* A service that is attached comes behind those of its feature: what was  *)
(* selected before it still is.                                            *)
LEMMA InsertKeepsOrder ==
    ASSUME Registry, NEW s \in Services \ ToSet(registered), Insert(s)
    PROVE  /\ registered' \in Seq(Services) /\ IsInjective(registered')
           /\ ToSet(registered') = ToSet(registered) \union {s}
           /\ \A r : Select(r) # NoService => Select(r)' = Select(r)
<1>1. /\ registered \in Seq(Services) /\ Len(registered) \in Nat /\ DOMAIN registered = 1 .. Len(registered)
      /\ \A i, j \in DOMAIN registered : registered[i] = registered[j] => i = j
      /\ \A i \in DOMAIN registered : registered[i] # s
  BY InRegistered DEF Registry, IsInjective
<1>2. PICK n \in 0 .. Len(registered) :
          /\ \A i \in DOMAIN registered : i <= n <=> Feature[registered[i]] <= Feature[s]
          /\ registered' = InsertAt(registered, n + 1, s)
  BY DEF Insert
<1>3. /\ registered' \in Seq(Services) /\ Len(registered') = Len(registered) + 1
      /\ DOMAIN registered' = 1 .. Len(registered) + 1
      /\ \A i \in 1 .. Len(registered) + 1 :
            registered'[i] = IF i <= n THEN registered[i] ELSE IF i = n + 1 THEN s ELSE registered[i - 1]
  <2>1. s \in Services /\ registered \in Seq(Services)
    BY <1>1
  <2>2. PICK p \in 1 .. Len(registered) + 1 : p = n + 1
    BY <1>1, <1>2
  <2>3. registered' = InsertAt(registered, p, s)
    BY <1>2, <2>2
  <2>4. /\ registered' \in Seq(Services) /\ Len(registered') = Len(registered) + 1
        /\ \A i \in 1 .. Len(registered) + 1 :
              registered'[i] = IF i < p THEN registered[i] ELSE IF i = p THEN s ELSE registered[i - 1]
    <3>1. PICK q \in Seq(Services) : q = registered
      BY <2>1
    <3>2. /\ InsertAt(q, p, s) \in Seq(Services)
          /\ InsertAt(q, p, s) =
                [i \in 1 .. Len(q) + 1 |-> IF i < p THEN q[i] ELSE IF i = p THEN s ELSE q[i - 1]]
      BY ZenonT(30), <2>1, <2>2, <3>1, InsertedAt
    <3>3. Len(q) \in Nat /\ Len(InsertAt(q, p, s)) = Len(q) + 1
      BY <3>2
    <3>4. QED BY <2>3, <3>1, <3>2, <3>3
  <2>5. \A i \in 1 .. Len(registered) + 1 : (i < p <=> i <= n) /\ (i = p <=> i = n + 1)
    BY <1>1, <1>2, <2>2
  <2>6. QED BY <1>1, <2>4, <2>5
<1> DEFINE to(i) == IF i <= n THEN i ELSE i + 1
<1>4. \A i \in DOMAIN registered : to(i) \in DOMAIN registered' /\ registered'[to(i)] = registered[i]
  BY <1>1, <1>3
<1>5. \A i \in DOMAIN registered' : i # n + 1 => \E j \in DOMAIN registered : i = to(j)
  <2>1. ASSUME NEW i \in DOMAIN registered', i # n + 1
        PROVE  \E j \in DOMAIN registered : i = to(j)
    <3>1. CASE i <= n
      BY <1>1, <1>3, <3>1
    <3>2. CASE i > n
      <4>1. i - 1 \in DOMAIN registered /\ i = to(i - 1)
        BY <1>1, <1>3, <2>1, <3>2
      <4>2. QED BY <4>1
    <3>3. QED BY <1>1, <1>3, <3>1, <3>2
  <2>2. QED BY <2>1
<1>6. n + 1 \in DOMAIN registered' /\ registered'[n + 1] = s
  BY <1>1, <1>3
<1>7. IsInjective(registered')
  <2>1. ASSUME NEW i \in DOMAIN registered', NEW j \in DOMAIN registered', registered'[i] = registered'[j]
        PROVE  i = j
    <3>1. CASE i = n + 1 \/ j = n + 1
      BY <1>1, <1>4, <1>5, <1>6, <2>1, <3>1
    <3>2. CASE i # n + 1 /\ j # n + 1
      <4>1. PICK k, l \in DOMAIN registered : i = to(k) /\ j = to(l)
        BY <1>5, <3>2
      <4>2. registered[k] = registered[l]
        BY <1>4, <2>1, <4>1
      <4>3. QED BY <1>1, <4>1, <4>2
    <3>3. QED BY <3>1, <3>2
  <2>2. QED BY <2>1 DEF IsInjective
<1>8. ToSet(registered') = ToSet(registered) \union {s}
  <2>1. \A x : x \in ToSet(registered') <=> \E i \in DOMAIN registered' : registered'[i] = x
    BY <1>3, InRegistered
  <2>2. \A x : x \in ToSet(registered) <=> \E i \in DOMAIN registered : registered[i] = x
    BY <1>1, InRegistered
  <2> HIDE DEF to
  <2>3. QED BY <1>4, <1>5, <1>6, <2>1, <2>2
<1>9. ASSUME NEW r, Select(r) # NoService
      PROVE  Select(r)' = Select(r)
  <2>1. PICK i \in Matching(registered, r) :
            Select(r) = registered[i] /\ \A j \in Matching(registered, r) : i <= j
    BY <1>1, <1>9, SelectionIsThere
  <2>2. i \in DOMAIN registered /\ Feature[registered[i]] = r.feature
    BY <2>1 DEF Matching
  <2>3. to(i) \in Matching(registered', r) /\ to(i) \in Nat
    BY <1>1, <1>4, <2>1, <2>2 DEF Matching
  <2>4. ASSUME NEW j \in Matching(registered', r)
        PROVE  to(i) <= j
    <3>1. j \in DOMAIN registered' /\ Feature[registered'[j]] = r.feature
      BY DEF Matching
    <3>2. CASE j = n + 1
      <4>1. Feature[s] = Feature[registered[i]] /\ Feature[s] \in Nat
        BY <1>6, <2>2, <3>1, <3>2, ApplicationAssumption
      <4>2. i <= n
        BY <1>2, <2>2, <4>1
      <4>3. QED BY <1>1, <2>2, <3>2, <4>2
    <3>3. CASE j # n + 1
      <4>1. PICK k \in DOMAIN registered : j = to(k)
        BY <1>5, <3>1, <3>3
      <4>2. k \in Matching(registered, r)
        BY <1>4, <4>1 DEF Matching
      <4>3. i <= k
        BY <2>1, <4>2
      <4>4. QED BY <1>1, <2>2, <4>1, <4>3
    <3>4. QED BY <3>2, <3>3
  <2>5. /\ Matching(registered', r) # {} /\ Matching(registered', r) \in SUBSET Nat
    BY <1>1, <1>3, <2>3 DEF Matching
  <2>6. Min(Matching(registered', r)) = to(i)
    <3>1. /\ Min(Matching(registered', r)) \in Matching(registered', r)
          /\ \A j \in Matching(registered', r) : Min(Matching(registered', r)) <= j
      BY <2>5, MinIsThere
    <3>2. to(i) <= Min(Matching(registered', r)) /\ Min(Matching(registered', r)) <= to(i)
      BY <2>3, <2>4, <3>1
    <3>3. QED BY <2>3, <2>5, <3>1, <3>2
  <2>7. Select(r)' = registered'[to(i)]
    BY <2>5, <2>6 DEF Select, Matching
  <2>8. QED BY <1>4, <2>1, <2>2, <2>7
<1>10. QED BY <1>3, <1>7, <1>8, <1>9
(* The iterators. *)
LEMMA FirstIsThere ==
    ASSUME Registry
    PROVE  /\ First \in ToSet(registered) \union {None}
           /\ \A i, j \in DOMAIN registered : First # None /\ (registered[j] = First => ~ (i < j))
<1>1. /\ registered \in Seq(Services) /\ Len(registered) \in Nat /\ DOMAIN registered = 1 .. Len(registered)
      /\ \A i, j \in DOMAIN registered : registered[i] = registered[j] => i = j
      /\ \A i \in DOMAIN registered : registered[i] \in ToSet(registered) /\ registered[i] \in Services
  BY InRegistered DEF Registry, IsInjective
<1>2. CASE registered = <<>>
  BY <1>1, <1>2 DEF First
<1>3. CASE registered # <<>>
  <2>1. First = registered[1] /\ 1 \in DOMAIN registered
    BY <1>1, <1>3 DEF First
  <2>2. QED BY <1>1, <2>1, ThreadFacts
<1>4. QED BY <1>2, <1>3

LEMMA AfterIsThere ==
    ASSUME Registry, NEW c \in ToSet(registered)
    PROVE  /\ After(c) \in ToSet(registered) \union {None}
           /\ \E k \in DOMAIN registered :
                 /\ registered[k] = c
                 /\ After(c) = None => \A i \in DOMAIN registered : i <= k
                 /\ \A i, j \in DOMAIN registered : registered[j] = After(c) /\ i < j => i <= k
<1>1. /\ registered \in Seq(Services) /\ Len(registered) \in Nat /\ DOMAIN registered = 1 .. Len(registered)
      /\ \A i, j \in DOMAIN registered : registered[i] = registered[j] => i = j
      /\ \A i \in DOMAIN registered : registered[i] \in ToSet(registered) /\ registered[i] \in Services
      /\ \E i \in DOMAIN registered : registered[i] = c
  BY InRegistered DEF Registry, IsInjective
<1> DEFINE k == CHOOSE n \in DOMAIN registered : registered[n] = c
<1>2. k \in DOMAIN registered /\ registered[k] = c /\ After(c) = IF k = Len(registered) THEN None ELSE registered[k + 1]
  BY <1>1 DEF After
<1> HIDE DEF k
<1>3. CASE k = Len(registered)
  <2>1. After(c) = None /\ \A j \in DOMAIN registered : registered[j] # None
    BY <1>1, <1>2, <1>3, ThreadFacts
  <2>2. QED BY <1>1, <1>2, <1>3, <2>1
<1>4. CASE k # Len(registered)
  <2>1. k + 1 \in DOMAIN registered /\ After(c) = registered[k + 1] /\ After(c) # None
    BY <1>1, <1>2, <1>4, ThreadFacts
  <2>2. \A i, j \in DOMAIN registered : registered[j] = After(c) /\ i < j => i <= k
    BY <1>1, <1>2, <2>1
  <2>3. QED BY <1>1, <1>2, <2>1, <2>2
<1>5. QED BY <1>3, <1>4

-----------------------------------------------------------------------------
(* The invariant, with what a step leaves alone. *)

LEMMA InitHolds == Separate /\ Init => IInv
<1> SUFFICES ASSUME Separate, Init PROVE IInv
  OBVIOUS
<1> USE ThreadFacts DEF Init
<1>1. Registry
  BY ApplicationAssumption DEF Registry
<1>2. \A t \in Threads : pc[t] \in {"idle", "done"} /\ stack[t] = <<>> /\ cursor[t] = None
  OBVIOUS
<1>3. pc[Main] = "idle"
  BY ApplicationAssumption
<1>4. Phases
  <2>1. (\A t \in Stoppers : pc[t] = "done") \/ AttachersAreDone
    BY DEF Separate, AttachersAreDone
  <2>2. failed \in [Threads -> BOOLEAN] /\ threw \in [Threads -> BOOLEAN]
    OBVIOUS
  <2>3. stopNow \in BOOLEAN /\ signalled = FALSE /\ missed \in BOOLEAN
    OBVIOUS
  <2>4. pc \in [Threads -> Labels] /\ flags \in [Services \union {App} -> SUBSET {"Starting", "Running", "Error"}]
    BY DEF Labels
  <2>5. flags[App] = {}
    OBVIOUS
  <2>6. QED BY <1>2, <1>3, <2>1, <2>2, <2>3, <2>4, <2>5 DEF Phases, Typed, Helpers, Starter, Stopping, Up
<1>5. Stacks
  <2>1. stack \in [Threads -> Seq(Frame)]
    OBVIOUS
  <2>2. \A s \in Services : flags[s] = {}
    OBVIOUS
  <2>3. \A t \in Threads : DOMAIN stack[t] = {}
    BY <1>2
  <2>4. QED BY <1>2, <2>1, <2>2, <2>3 DEF Stacks, Frames, Started, Once, Unattached
<1>6. Resolved
  BY <1>2 DEF Resolved
<1>7. Loops
  BY <1>2, <1>3 DEF Loops, Cursors, Walk, Over
<1>8. QED BY <1>1, <1>4, <1>5, <1>6, <1>7 DEF IInv

LEMMA StacksKept ==
    ASSUME Registry, Stacks, Resolved, UNCHANGED <<stack, registered, requirements>>,
           \A s \in Services : flags'[s] = flags[s],
           \A t \in Threads : pc'[t] = "initialize" <=> pc[t] = "initialize"
    PROVE  Stacks' /\ Resolved'
<1>1. ToSet(registered) \subseteq Services
  BY InRegistered DEF Registry
<1>2. Stacks'
  <2>1. Frames' /\ Unattached'
    BY DEF Stacks, Frames, Unattached
  <2>2. Once'
    BY Zenon DEF Stacks, Once
  <2>3. Started'
    BY <1>1 DEF Stacks, Started
  <2>4. QED BY <2>1, <2>2, <2>3 DEF Stacks
<1>3. \A t \in Threads : \A i \in DOMAIN stack[t] : \A n \in 1 .. stack[t][i].next - 1 :
          Chosen(t, i, n)' = Chosen(t, i, n)
  BY DEF Chosen, Select
<1>4. \A t \in Threads : \A i \in DOMAIN stack[t] : \A n \in 1 .. stack[t][i].next - 1 :
          Chosen(t, i, n) \in Services
  BY SelectionIsThere DEF Chosen, Resolved, Registry
<1>5. Resolved'
  BY <1>3, <1>4 DEF Resolved, IsRunning
<1>6. QED BY <1>2, <1>5

LEMMA StacksEmpty ==
    ASSUME \A t \in Threads : stack[t] = <<>>, UNCHANGED stack, Stacks,
           \A t \in Threads : pc'[t] # "initialize",
           \A s \in Services \ ToSet(registered') : flags'[s] = {}
    PROVE  Stacks' /\ Resolved'
<1>1. \A t \in Threads : DOMAIN stack'[t] = {} /\ stack'[t] = <<>>
  OBVIOUS
<1>2. Frames'
  BY <1>1 DEF Stacks, Frames
<1>3. Started' /\ Once' /\ Unattached'
  BY <1>1 DEF Started, Once, Unattached
<1>4. Resolved'
  BY <1>1 DEF Resolved
<1>5. QED BY <1>2, <1>3, <1>4 DEF Stacks

(* Once a thread stops the application no service is being started.        *)
LEMMA Calm ==
    ASSUME IInv, NEW t \in Threads, pc[t] \in Stopping \union {"stop"}
    PROVE  /\ pc[Main] \notin {"idle", "services", "initialize"}
           /\ \A u \in Threads : pc[u] # "initialize" /\ stack[u] = <<>>
           /\ AttachersAreDone \/ flags[App] = {"Starting"}
<1> USE ThreadFacts DEF IInv
<1>1. CASE t = Main
  <2>1. pc[Main] \in Stopping \union {"stop"}
    BY <1>1
  <2>2. pc[Main] \notin Up \union {"idle", "services", "initialize"}
    BY <2>1 DEF Stopping, Up
  <2>3. QED BY <2>1, <2>2 DEF Phases, Typed, Helpers, Starter, Stacks, Frames, Stopping, AttachersAreDone
<1>2. CASE t # Main
  <2>1. t \in Stoppers /\ pc[t] \in Stopping /\ pc[t] # "done"
    BY <1>2 DEF Phases, Typed, Helpers, Starter, Stopping
  <2>2. signalled /\ AttachersAreDone
    BY <2>1 DEF Phases, Helpers
  <2>3. pc[Main] \notin {"idle", "services", "initialize"}
    BY <2>2 DEF Phases, Starter
  <2>4. QED BY <2>2, <2>3 DEF Phases, Typed, Helpers, Starter, Stacks, Frames, Stopping, AttachersAreDone
<1>3. QED BY <1>1, <1>2

(* While services start, before the application runs or as they are        *)
(* attached to it, nobody stops anything.                                  *)
LEMMA Quiet ==
    ASSUME IInv, \/ pc[Main] \in {"idle", "services"}
                 \/ \E t \in Threads : pc[t] = "initialize"
    PROVE  /\ \A u \in Threads : pc[u] \notin Stopping \union {"stop"}
           /\ pc[Main] \in {"idle", "services"} => \A u \in Threads : pc[u] # "initialize" /\ stack[u] = <<>>
           /\ pc[Main] \in {"idle", "services", "initialize"} \/ (pc[Main] \in Up /\ ~ AttachersAreDone)
<1>1. \A u \in Threads : pc[u] \notin Stopping \union {"stop"}
  <2>1. SUFFICES ASSUME NEW u \in Threads, pc[u] \in Stopping \union {"stop"} PROVE FALSE
    OBVIOUS
  <2>2. pc[Main] \notin {"idle", "services", "initialize"} /\ \A t \in Threads : pc[t] # "initialize"
    BY <2>1, Calm
  <2>3. QED BY <2>2
<1>2. ASSUME NEW u \in Threads, pc[u] = "initialize"
      PROVE  u = Main \/ (u \in Attachers /\ pc[Main] \in Up /\ ~ AttachersAreDone)
  BY <1>2, ThreadFacts DEF IInv, Phases, Helpers, Stopping, AttachersAreDone
<1>3. pc[Main] \in {"idle", "services"} => \A u \in Threads : pc[u] # "initialize" /\ stack[u] = <<>>
  BY <1>2, ThreadFacts DEF IInv, Stacks, Frames, Up
<1>4. QED BY <1>1, <1>2, <1>3

LEMMA StartKeeps == IInv /\ Start => IInv'
<1> SUFFICES ASSUME IInv, Start PROVE IInv'
  OBVIOUS
<1> USE ThreadFacts DEF Start, Goto
<1>1. /\ \A u \in Threads : pc[u] \notin Stopping \union {"stop", "initialize"}
      /\ \A u \in Threads : u # Main => pc'[u] = pc[u]
      /\ pc'[Main] = "services" /\ flags'[App] = {"Starting"}
      /\ \A s \in Services : flags'[s] = flags[s]
  BY Quiet DEF IInv, Phases, Typed, Labels, Stopping
<1>2. Registry'
  BY DEF IInv, Registry
<1>3. Phases'
  <2>1. Typed'
    BY DEF IInv, Phases, Typed, Labels
  <2>2. Helpers'
    <3>1. AttachersAreDone' <=> AttachersAreDone
      BY <1>1 DEF AttachersAreDone
    <3>2. QED BY <1>1, <3>1 DEF IInv, Phases, Helpers
  <2>3. Starter'
    BY <1>1 DEF IInv, Phases, Starter, Up, Stopping
  <2>4. QED BY <2>1, <2>2, <2>3 DEF Phases
<1>4. Stacks' /\ Resolved'
  BY <1>1, StacksKept DEF IInv
<1>5. Loops'
  <2>1. Cursors'
    BY <1>1, FirstIsThere DEF IInv, Loops, Cursors
  <2>2. \A t \in Threads : Walk(t)'
    BY <1>1 DEF Walk, Stopping
  <2>3. Over'
    BY <1>1 DEF Over, IsStopped
  <2>4. QED BY <2>1, <2>2, <2>3 DEF Loops
<1>6. QED BY <1>2, <1>3, <1>4, <1>5 DEF IInv

LEMMA RunKeeps == IInv /\ (RunTests \/ RunWaits \/ RunWakesUp) => IInv'
<1> SUFFICES ASSUME IInv, RunTests \/ RunWaits \/ RunWakesUp PROVE IInv'
  OBVIOUS
<1> USE ThreadFacts DEF RunTests, RunWaits, RunWakesUp, Goto
<1>1. /\ UNCHANGED <<registered, requirements, flags, stack, cursor, failed, threw, stopNow,
                     signalled, missed, initialized>>
      /\ pc[Main] \in Up
      /\ \A u \in Threads : u # Main => pc'[u] = pc[u]
      /\ \/ pc'[Main] \in Up
         \/ pc'[Main] = "stop" /\ stopNow
      /\ pc' \in [Threads -> Labels]
  BY DEF IInv, Phases, Typed, Labels, Up
<1>2. Registry'
  BY <1>1 DEF IInv, Registry
<1>3. Phases'
  <2>1. Typed'
    BY <1>1 DEF IInv, Phases, Typed
  <2>2. AttachersAreDone' <=> AttachersAreDone
    BY <1>1 DEF AttachersAreDone
  <2>3. pc'[Main] = "stop" => AttachersAreDone
    BY <1>1 DEF IInv, Phases, Starter, Up
  <2>4. Helpers'
    BY <1>1, <2>2, <2>3 DEF IInv, Phases, Helpers, AttachersAreDone
  <2>5. Starter'
    BY <1>1, <2>2, <2>3 DEF IInv, Phases, Starter, Up, Stopping
  <2>6. QED BY <2>1, <2>4, <2>5 DEF Phases
<1>4. \A t \in Threads : pc'[t] = "initialize" <=> pc[t] = "initialize"
  BY <1>1 DEF Up
<1>5. Stacks' /\ Resolved'
  BY <1>1, <1>4, StacksKept DEF IInv
<1>6. Loops'
  <2>1. Cursors'
    BY <1>1, <1>4 DEF IInv, Loops, Cursors
  <2>2. AllStopped' <=> AllStopped
    BY <1>1 DEF AllStopped, IsStopped
  <2>3. \A t \in Threads : Walk(t)'
    <3>1. Walk(Main)'
      BY <1>1 DEF Walk, Up
    <3>2. ASSUME NEW t \in Threads, t # Main PROVE Walk(t)'
      BY <1>1, <2>2, <3>2 DEF IInv, Loops, Walk, Passed, IsStopped
    <3>3. QED BY <3>1, <3>2
  <2>4. Over'
    BY <1>1, <2>2 DEF IInv, Loops, Over, IsStopped, Up
  <2>5. QED BY <2>1, <2>3, <2>4 DEF Loops
<1>7. QED BY <1>2, <1>3, <1>5, <1>6 DEF IInv

-----------------------------------------------------------------------------
(* A thread stops the application. *)

LEMMA WalkKept ==
    ASSUME NEW u \in Threads, Walk(u), UNCHANGED registered, pc'[u] = pc[u], cursor'[u] = cursor[u],
           \A i \in DOMAIN registered : IsStopped(registered[i]) => IsStopped(registered[i])'
    PROVE  Walk(u)'
<1>1. \A i \in DOMAIN registered : Passed(u, i)' <=> Passed(u, i)
  BY DEF Passed
<1>2. AllStopped => AllStopped'
  BY DEF AllStopped
<1>3. \A i \in DOMAIN registered' : Passed(u, i)' /\ pc'[u] \in {"do_stop", "stopping"} => IsStopped(registered[i])'
  BY <1>1 DEF Walk
<1>4. QED BY <1>2, <1>3 DEF Walk

LEMMA WalkBegins ==
    ASSUME Registry, UNCHANGED <<registered, flags>>, NEW t \in Threads, cursor'[t] = First, pc'[t] = "do_stop"
    PROVE  Walk(t)'
<1>1. \A i \in DOMAIN registered : ~ Passed(t, i)'
  BY FirstIsThere DEF Passed
<1>2. QED BY <1>1 DEF Walk

LEMMA WalkAdvances ==
    ASSUME Registry, Loops, UNCHANGED registered, NEW t \in Threads,
           pc[t] \in {"do_stop", "stopping"}, cursor[t] # None, pc'[t] = "do_stop",
           cursor'[t] = After(cursor[t]), flags'[cursor[t]] \in {{}, {"Error"}},
           \A i \in DOMAIN registered : IsStopped(registered[i]) => IsStopped(registered[i])'
    PROVE  Walk(t)' /\ cursor'[t] \in ToSet(registered) \union {None}
<1>1. cursor[t] \in ToSet(registered)
  BY DEF Loops, Cursors
<1>2. PICK k \in DOMAIN registered :
          /\ registered[k] = cursor[t]
          /\ cursor'[t] = None => \A i \in DOMAIN registered : i <= k
          /\ \A i, j \in DOMAIN registered : registered[j] = cursor'[t] /\ i < j => i <= k
  BY <1>1, AfterIsThere
<1>3. \A i \in DOMAIN registered : Passed(t, i)' => i <= k
  BY <1>2 DEF Passed
<1>4. \A i \in DOMAIN registered : i <= k => IsStopped(registered[i])'
  <2>1. ASSUME NEW i \in DOMAIN registered, i <= k PROVE IsStopped(registered[i])'
    <3>1. CASE i = k
      BY <1>2, <3>1 DEF IsStopped
    <3>2. CASE i # k
      <4>1. i < k
        BY <2>1, <3>2, InRegistered DEF Registry
      <4>2. Passed(t, i)
        BY <1>2, <4>1 DEF Passed
      <4>3. IsStopped(registered[i])
        BY <4>2 DEF Loops, Walk
      <4>4. QED BY <4>3
    <3>3. QED BY <3>1, <3>2
  <2>2. QED BY <2>1
<1>5. QED BY <1>1, <1>3, <1>4, AfterIsThere DEF Walk

LEMMA StopKeeps ==
    ASSUME IInv, Separate, NEW t \in Threads, Stop(t)
    PROVE  IInv'
<1> USE ThreadFacts DEF Goto
<1>1. /\ UNCHANGED <<registered, requirements, flags, stack, failed, threw, stopNow,
                     signalled, missed, initialized>>
      /\ \A u \in Threads : u # t => pc'[u] = pc[u] /\ cursor'[u] = cursor[u]
      /\ \/ IsStopped(App) /\ pc'[t] = "done" /\ cursor' = cursor
         \/ ~ IsStopped(App) /\ pc'[t] = "do_stop" /\ cursor'[t] = First
      /\ pc' \in [Threads -> Labels]
  BY DEF Stop, IInv, Phases, Typed, Labels, Stopping, Loops, Cursors
<1>2. \/ t = Main /\ pc[Main] = "stop"
      \/ t \in Stoppers /\ pc[t] = "idle" /\ signalled /\ AttachersAreDone
  <2>1. \/ pc[t] = "stop"
        \/ pc[t] = "idle" /\ t \in Stoppers /\ signalled
    BY DEF Stop, Separate
  <2>2. pc[t] = "stop" => t = Main
    BY DEF IInv, Phases, Helpers, Stopping
  <2>3. pc[t] = "idle" /\ t \in Stoppers => AttachersAreDone
    BY DEF IInv, Phases, Helpers
  <2>4. QED BY <2>1, <2>2, <2>3
<1>3. Registry'
  BY <1>1 DEF IInv, Registry
<1>4. Phases'
  <2>1. Typed'
    BY <1>1 DEF IInv, Phases, Typed
  <2>2. AttachersAreDone' <=> AttachersAreDone
    BY <1>1, <1>2 DEF AttachersAreDone
  <2>3. Helpers'
    BY <1>1, <1>2, <2>2 DEF IInv, Phases, Helpers, Stopping, Up, AttachersAreDone
  <2>4. Starter'
    BY <1>1, <1>2, <2>2 DEF IInv, Phases, Starter, Stopping, Up, IsStopped
  <2>5. QED BY <2>1, <2>3, <2>4 DEF Phases
<1>5. \A u \in Threads : pc'[u] = "initialize" <=> pc[u] = "initialize"
  BY <1>1, <1>2
<1>6. Stacks' /\ Resolved'
  BY <1>1, <1>5, StacksKept DEF IInv
<1>7. Loops'
  <2>1. cursor' \in [Threads -> ToSet(registered') \union {None}]
    BY <1>1, FirstIsThere DEF Stop, IInv, Loops, Cursors
  <2>2. Cursors'
    BY <1>1, <1>2, <2>1 DEF IInv, Loops, Cursors
  <2>3. \A r : IsStopped(r)' <=> IsStopped(r)
    BY <1>1 DEF IsStopped
  <2>4. \A u \in Threads : Walk(u)'
    <3>1. Walk(t)'
      <4>1. CASE pc'[t] = "done"
        BY <4>1 DEF Walk
      <4>2. CASE pc'[t] # "done"
        BY <1>1, <4>2, WalkBegins DEF IInv
      <4>3. QED BY <4>1, <4>2
    <3>2. ASSUME NEW u \in Threads, u # t PROVE Walk(u)'
      BY <1>1, <2>3, <3>2, WalkKept DEF IInv, Loops
    <3>3. QED BY <3>1, <3>2
  <2>5. Over'
    <3>1. pc[Main] # "idle"
      BY <1>2 DEF IInv, Phases, Starter
    <3>2. AllStopped' <=> AllStopped
      BY <1>1 DEF AllStopped, IsStopped
    <3>3. QED BY <2>3, <3>1, <3>2 DEF IInv, Loops, Over
  <2>6. QED BY <2>2, <2>4, <2>5 DEF Loops
<1>8. QED BY <1>3, <1>4, <1>6, <1>7 DEF IInv

(* What a step between the test and the status leaves alone. *)
LEMMA StoppingPhases ==
    ASSUME IInv, NEW t \in Threads, pc[t] \in Stopping, UNCHANGED <<signalled, registered>>,
           pc' \in [Threads -> Labels], pc'[t] \in Stopping \union {"done"},
           \A u \in Threads : u # t => pc'[u] = pc[u] \/ (u = Main /\ pc[u] \in Up /\ pc'[u] \in Up),
           pc'[t] = "done" => IsStopped(App)', flags'[App] = flags[App] \/ pc'[t] = "done",
           t = Main \/ stopNow' = stopNow \/ AttachersAreDone
    PROVE  /\ Helpers' /\ Starter'
           /\ \A u \in Threads : pc'[u] # "initialize" /\ stack[u] = <<>>
<1> USE ThreadFacts
<1>1. /\ pc[Main] \notin {"idle", "services", "initialize"}
      /\ \A u \in Threads : pc[u] # "initialize" /\ stack[u] = <<>>
      /\ AttachersAreDone \/ flags[App] = {"Starting"}
  BY Calm
<1>2. t = Main \/ (t \in Stoppers /\ signalled /\ AttachersAreDone)
  BY DEF IInv, Phases, Helpers, Stopping, AttachersAreDone
<1>3. \A u \in Attachers : pc'[u] = pc[u]
  BY <1>2
<1>4. AttachersAreDone' <=> AttachersAreDone
  BY <1>3 DEF AttachersAreDone
<1>5. \A u \in Threads : pc'[u] # "initialize"
  BY <1>1 DEF Stopping, Up
<1>6. Helpers'
  <2>1. \A u \in Stoppers : /\ pc'[u] \in Stopping \union {"idle", "done"}
                            /\ pc'[u] \in Stopping => signalled
    BY <1>2 DEF IInv, Phases, Helpers
  <2>2. (\A u \in Stoppers : pc'[u] = "done") \/ AttachersAreDone
    BY <1>2 DEF IInv, Phases, Helpers
  <2>3. QED BY <1>3, <1>4, <1>5, <2>1, <2>2 DEF IInv, Phases, Helpers
<1>7. Starter'
  <2>1. pc'[Main] \notin {"idle", "services", "initialize"}
    BY <1>1 DEF Stopping, Up
  <2>2. ASSUME ~ AttachersAreDone
        PROVE  t = Main /\ pc'[Main] \notin Up /\ (pc'[Main] # "done" => flags'[App] = {"Starting"})
    BY <1>1, <1>2, <2>2 DEF Stopping, Up
  <2>3. pc'[Main] = "done" => IsStopped(App)'
    <3>1. CASE t = Main \/ pc'[t] = "done"
      BY <3>1
    <3>2. CASE t # Main /\ pc'[t] # "done"
      BY <3>2 DEF IInv, Phases, Starter, IsStopped, Up
    <3>3. QED BY <3>1, <3>2
  <2>4. QED BY <1>4, <2>1, <2>2, <2>3 DEF Starter, Stopping
<1>8. QED BY <1>1, <1>5, <1>6, <1>7

LEMMA NextServiceKeeps ==
    ASSUME IInv, NEW t \in Threads, NextService(t)
    PROVE  IInv'
<1> USE ThreadFacts DEF Goto
<1>1. /\ UNCHANGED <<registered, requirements, flags, stack, failed, threw, stopNow,
                     signalled, missed, initialized>>
      /\ pc[t] = "do_stop" /\ pc[t] \in Stopping
      /\ \A u \in Threads : u # t => pc'[u] = pc[u] /\ cursor'[u] = cursor[u]
      /\ pc' \in [Threads -> Labels]
      /\ pc'[t] \in {"do_stop", "stopping", "stopNow"}
  BY DEF NextService, IInv, Phases, Typed, Labels, Stopping, Loops, Cursors
<1>2. \/ cursor[t] = None /\ pc'[t] = "stopNow" /\ cursor' = cursor
      \/ /\ cursor[t] # None /\ IsStopped(cursor[t])
         /\ cursor' = [cursor EXCEPT ![t] = After(@)] /\ pc'[t] = "do_stop"
      \/ cursor[t] # None /\ pc'[t] = "stopping" /\ cursor' = cursor
  BY <1>1 DEF NextService, IInv, Phases, Typed
<1>3. Registry'
  BY <1>1 DEF IInv, Registry
<1>4. Helpers' /\ Starter' /\ \A u \in Threads : pc'[u] # "initialize" /\ stack[u] = <<>>
  <2>1. pc'[t] \in Stopping \union {"done"} /\ pc'[t] # "done"
    BY <1>1 DEF Stopping
  <2>2. QED BY <1>1, <2>1, StoppingPhases
<1>5. Phases'
  BY <1>1, <1>4 DEF IInv, Phases, Typed
<1>6. Stacks' /\ Resolved'
  BY <1>1, <1>4, StacksEmpty DEF IInv, Stacks, Unattached
<1>7. Loops'
  <2>1. Walk(t)' /\ cursor'[t] \in ToSet(registered) \union {None}
    <3>1. CASE cursor[t] = None /\ pc'[t] = "stopNow" /\ cursor' = cursor
      <4>1. \A i \in DOMAIN registered : IsStopped(registered[i])
        BY <1>1, <3>1 DEF IInv, Loops, Walk, Passed
      <4>2. AllStopped'
        BY <1>1, <4>1 DEF AllStopped, IsStopped
      <4>3. QED BY <3>1, <4>2 DEF Walk
    <3>2. CASE /\ cursor[t] # None /\ IsStopped(cursor[t])
               /\ cursor' = [cursor EXCEPT ![t] = After(@)] /\ pc'[t] = "do_stop"
      <4>1. cursor'[t] = After(cursor[t]) /\ flags'[cursor[t]] \in {{}, {"Error"}}
        BY <1>1, <3>2 DEF IInv, Loops, Cursors, IsStopped
      <4>2. \A i \in DOMAIN registered : IsStopped(registered[i]) => IsStopped(registered[i])'
        BY <1>1 DEF IsStopped
      <4>3. QED BY <1>1, <3>2, <4>1, <4>2, WalkAdvances DEF IInv
    <3>3. CASE cursor[t] # None /\ pc'[t] = "stopping" /\ cursor' = cursor
      <4>1. \A i \in DOMAIN registered : Passed(t, i)' => Passed(t, i) /\ IsStopped(registered[i])
        BY <1>1, <3>3 DEF IInv, Loops, Walk, Passed
      <4>2. QED BY <1>1, <3>3, <4>1 DEF Walk, IsStopped, IInv, Loops, Cursors
    <3>4. QED BY <1>2, <3>1, <3>2, <3>3
  <2>2. Cursors'
    <3>1. cursor' \in [Threads -> ToSet(registered) \union {None}]
      BY <1>2, <2>1 DEF IInv, Loops, Cursors
    <3>2. QED BY <1>1, <1>4, <3>1 DEF Cursors
  <2>3. \A u \in Threads : Walk(u)'
    <3>1. ASSUME NEW u \in Threads, u # t PROVE Walk(u)'
      <4>1. \A i \in DOMAIN registered : IsStopped(registered[i]) => IsStopped(registered[i])'
        BY <1>1 DEF IsStopped
      <4>2. QED BY <1>1, <3>1, <4>1, WalkKept DEF IInv, Loops
    <3>2. QED BY <2>1, <3>1
  <2>4. Over'
    <3>1. pc[Main] # "idle"
      BY <1>1, Calm
    <3>2. AllStopped' <=> AllStopped
      BY <1>1 DEF AllStopped, IsStopped
    <3>3. QED BY <1>1, <3>1, <3>2 DEF IInv, Loops, Over, IsStopped
  <2>5. QED BY <2>2, <2>3, <2>4 DEF Loops
<1>8. QED BY <1>3, <1>5, <1>6, <1>7 DEF IInv

LEMMA StopServiceKeeps ==
    ASSUME IInv, NEW t \in Threads, StopService(t)
    PROVE  IInv'
<1> USE ThreadFacts DEF Goto
<1>1. /\ UNCHANGED <<registered, requirements, stack, threw, stopNow, signalled, missed, initialized>>
      /\ pc[t] = "stopping" /\ pc[t] \in Stopping /\ pc'[t] = "do_stop"
      /\ \A u \in Threads : u # t => pc'[u] = pc[u] /\ cursor'[u] = cursor[u]
      /\ pc' \in [Threads -> Labels] /\ failed' \in [Threads -> BOOLEAN]
      /\ cursor' = [cursor EXCEPT ![t] = After(@)] /\ cursor'[t] = After(cursor[t])
  BY DEF StopService, IInv, Phases, Typed, Labels, Stopping, Loops, Cursors
<1>2. cursor[t] \in ToSet(registered) /\ cursor[t] \in Services /\ cursor[t] # None
  BY <1>1, InRegistered DEF IInv, Registry, Loops, Cursors, Walk
<1>3. /\ flags' \in [Services \union {App} -> SUBSET {"Starting", "Running", "Error"}]
      /\ flags'[App] = flags[App] /\ flags'[cursor[t]] \in {{}, {"Error"}}
      /\ \A s \in Services : s # cursor[t] => flags'[s] = flags[s]
  BY <1>2 DEF StopService, IInv, Phases, Typed
<1>4. \A i \in DOMAIN registered : IsStopped(registered[i]) => IsStopped(registered[i])'
  <2>1. \A i \in DOMAIN registered : registered[i] \in Services
    BY InRegistered DEF IInv, Registry
  <2>2. QED BY <1>1, <1>3, <2>1 DEF IsStopped
<1>5. Registry'
  BY <1>1 DEF IInv, Registry
<1>6. Helpers' /\ Starter' /\ \A u \in Threads : pc'[u] # "initialize" /\ stack[u] = <<>>
  <2>1. pc'[t] \in Stopping \union {"done"} /\ pc'[t] # "done"
    BY <1>1 DEF Stopping
  <2>2. QED BY <1>1, <1>3, <2>1, StoppingPhases
<1>7. Phases'
  BY <1>1, <1>3, <1>6 DEF IInv, Phases, Typed
<1>8. Stacks' /\ Resolved'
  <2>1. \A s \in Services \ ToSet(registered') : flags'[s] = {}
    BY <1>1, <1>2, <1>3 DEF IInv, Stacks, Unattached
  <2>2. QED BY <1>1, <1>6, <2>1, StacksEmpty DEF IInv
<1>9. Loops'
  <2>1. Walk(t)' /\ cursor'[t] \in ToSet(registered) \union {None}
    BY <1>1, <1>2, <1>3, <1>4, WalkAdvances DEF IInv
  <2>2. Cursors'
    <3>1. cursor' \in [Threads -> ToSet(registered) \union {None}]
      BY <1>1, <2>1 DEF IInv, Loops, Cursors
    <3>2. QED BY <1>1, <1>6, <3>1 DEF Cursors
  <2>3. \A u \in Threads : Walk(u)'
    <3>1. ASSUME NEW u \in Threads, u # t PROVE Walk(u)'
      BY <1>1, <1>4, <3>1, WalkKept DEF IInv, Loops
    <3>2. QED BY <2>1, <3>1
  <2>4. Over'
    <3>1. pc[Main] # "idle"
      BY <1>1, Calm
    <3>2. AllStopped => AllStopped'
      BY <1>1, <1>4 DEF AllStopped
    <3>3. QED BY <1>3, <3>1, <3>2 DEF IInv, Loops, Over, IsStopped
  <2>5. QED BY <2>2, <2>3, <2>4 DEF Loops
<1>10. QED BY <1>5, <1>7, <1>8, <1>9 DEF IInv

LEMMA SetStopNowKeeps ==
    ASSUME IInv, NEW t \in Threads, SetStopNow(t)
    PROVE  IInv'
<1> USE ThreadFacts
<1>1. /\ UNCHANGED <<registered, requirements, flags, stack, cursor, failed, threw, signalled, initialized>>
      /\ stopNow' = TRUE /\ missed' \in BOOLEAN
      /\ pc[t] = "stopNow" /\ pc[t] \in Stopping /\ pc'[t] = "status"
      /\ \A u \in Threads : u # t => pc'[u] = pc[u] \/ (u = Main /\ pc[u] = "asleep" /\ pc'[u] = "test")
      /\ pc' \in [Threads -> Labels]
  BY DEF SetStopNow, IInv, Phases, Typed, Labels, Stopping, Up
<1>2. Registry'
  BY <1>1 DEF IInv, Registry
<1>3. t = Main \/ AttachersAreDone
  BY <1>1 DEF IInv, Phases, Helpers, AttachersAreDone
<1>4. Helpers' /\ Starter' /\ \A u \in Threads : pc'[u] # "initialize" /\ stack[u] = <<>>
  <2>1. pc'[t] \in Stopping \union {"done"} /\ pc'[t] # "done"
    BY <1>1 DEF Stopping
  <2>2. \A u \in Threads : u # t => pc'[u] = pc[u] \/ (u = Main /\ pc[u] \in Up /\ pc'[u] \in Up)
    BY <1>1 DEF Up
  <2>3. QED BY <1>1, <1>3, <2>1, <2>2, StoppingPhases
<1>5. Phases'
  BY <1>1, <1>4 DEF IInv, Phases, Typed
<1>6. Stacks' /\ Resolved'
  BY <1>1, <1>4, StacksEmpty DEF IInv, Stacks, Unattached
<1>7. Loops'
  <2>1. Cursors'
    BY <1>1, <1>4 DEF IInv, Loops, Cursors
  <2>2. AllStopped' <=> AllStopped
    BY <1>1 DEF AllStopped, IsStopped
  <2>3. ASSUME NEW u \in Threads PROVE Walk(u)'
    <3>1. CASE u = t
      BY <1>1, <2>2, <3>1 DEF IInv, Loops, Walk
    <3>2. CASE u # t /\ pc'[u] = pc[u]
      BY <1>1, <3>2, WalkKept DEF IInv, Loops, IsStopped
    <3>3. CASE pc'[u] = "test"
      BY <3>3 DEF Walk
    <3>4. QED BY <1>1, <3>1, <3>2, <3>3
  <2>4. pc[Main] # "idle"
    BY <1>1, Calm
  <2>5. Over'
    BY <1>1, <2>2, <2>4 DEF IInv, Loops, Over, IsStopped
  <2>6. QED BY <2>1, <2>3, <2>5 DEF Loops
<1>8. QED BY <1>2, <1>5, <1>6, <1>7 DEF IInv

LEMMA SetStatusKeeps ==
    ASSUME IInv, NEW t \in Threads, SetStatus(t)
    PROVE  IInv'
<1> USE ThreadFacts DEF Goto
<1>1. /\ UNCHANGED <<registered, requirements, stack, cursor, failed, stopNow, signalled, missed, initialized>>
      /\ pc[t] = "status" /\ pc[t] \in Stopping /\ pc'[t] = "done"
      /\ \A u \in Threads : u # t => pc'[u] = pc[u]
      /\ pc' \in [Threads -> Labels]
      /\ flags' \in [Services \union {App} -> SUBSET {"Starting", "Running", "Error"}]
      /\ IsStopped(App)' /\ \A s \in Services : flags'[s] = flags[s]
  BY DEF SetStatus, IInv, Phases, Typed, Labels, Stopping, IsStopped
<1>2. threw' \in [Threads -> BOOLEAN]
  <2>1. threw' = [threw EXCEPT ![t] = threw[t] \/ failed[t]]
    BY DEF SetStatus
  <2>2. (threw[t] \/ failed[t]) \in BOOLEAN
    BY Zenon
  <2>3. QED BY <2>1, <2>2 DEF IInv, Phases, Typed
<1>3. Registry'
  BY <1>1 DEF IInv, Registry
<1>4. Helpers' /\ Starter' /\ \A u \in Threads : pc'[u] # "initialize" /\ stack[u] = <<>>
  <2>1. pc'[t] \in Stopping \union {"done"}
    BY <1>1
  <2>2. QED BY <1>1, <2>1, StoppingPhases
<1>5. Phases'
  BY <1>1, <1>2, <1>4 DEF IInv, Phases, Typed
<1>6. \A i \in DOMAIN registered : IsStopped(registered[i])' <=> IsStopped(registered[i])
  BY <1>1, InRegistered DEF IInv, Registry, IsStopped
<1>7. Stacks' /\ Resolved'
  BY <1>1, <1>4, StacksEmpty DEF IInv, Stacks, Unattached
<1>8. Loops'
  <2>1. Cursors'
    BY <1>1, <1>4 DEF IInv, Loops, Cursors
  <2>2. AllStopped /\ AllStopped'
    <3>1. AllStopped
      BY <1>1 DEF IInv, Loops, Walk
    <3>2. QED BY <1>1, <1>6, <3>1 DEF AllStopped
  <2>3. ASSUME NEW u \in Threads PROVE Walk(u)'
    <3>1. CASE u = t
      BY <1>1, <3>1 DEF Walk
    <3>2. CASE u # t
      BY <1>1, <1>6, <3>2, WalkKept DEF IInv, Loops
    <3>3. QED BY <3>1, <3>2
  <2>4. QED BY <2>1, <2>2, <2>3 DEF Loops, Over
<1>9. QED BY <1>3, <1>5, <1>7, <1>8 DEF IInv

-----------------------------------------------------------------------------
(* A thread initializes services. *)

LEMMA Busy ==
    ASSUME IInv, NEW t \in Threads, pc[t] = "initialize"
    PROVE  /\ stack[t] \in Seq(Frame) /\ stack[t] # <<>> /\ Len(stack[t]) \in Nat /\ Len(stack[t]) >= 1
           /\ DOMAIN stack[t] = 1 .. Len(stack[t]) /\ Len(stack[t]) \in DOMAIN stack[t]
           /\ Top(t) = stack[t][Len(stack[t])] /\ Top(t) \in Frame
           /\ \A u \in Threads : pc[u] \notin Stopping \union {"stop"}
           /\ \/ t = Main /\ flags[App] = {"Starting"}
              \/ t \in Attachers /\ pc[Main] \in Up /\ ~ AttachersAreDone /\ flags[App] = {"Running"}
<1>1. stack[t] \in Seq(Frame) /\ stack[t] # <<>>
  BY DEF IInv, Stacks, Frames
<1>2. Top(t) = stack[t][Len(stack[t])] /\ Top(t) \in Frame /\ Len(stack[t]) >= 1
  BY <1>1 DEF Top, Last
<1>3. \A u \in Threads : pc[u] \notin Stopping \union {"stop"}
  BY Quiet
<1>4. t \in Attachers => pc[Main] \in Up /\ ~ AttachersAreDone
  BY DEF IInv, Phases, Helpers, AttachersAreDone
<1>5. t = Main \/ t \in Attachers
  BY ThreadFacts DEF IInv, Phases, Helpers, Stopping
<1>6. QED BY <1>1, <1>2, <1>3, <1>4, <1>5 DEF IInv, Phases, Starter

LEMMA InitializePhases ==
    ASSUME IInv, NEW t \in Threads, pc[t] = "initialize",
           UNCHANGED <<registered, stopNow, signalled>>, flags'[App] = flags[App],
           \A u \in Threads : u # t => pc'[u] = pc[u],
           pc'[t] \in {"initialize"} \union (IF t = Main THEN {"services", "stop"} ELSE {"done"}),
           cursor' \in [Threads -> ToSet(registered) \union {None}],
           pc'[Main] = "initialize" => cursor'[Main] # None
    PROVE  Helpers' /\ Starter' /\ Loops'
<1> USE ThreadFacts
<1>1. /\ \A u \in Threads : pc[u] \notin Stopping \union {"stop"}
      /\ \/ t = Main /\ flags[App] = {"Starting"}
         \/ t \in Attachers /\ pc[Main] \in Up /\ ~ AttachersAreDone /\ flags[App] = {"Running"}
  BY Busy
<1>2. ~ AttachersAreDone' => ~ AttachersAreDone
  BY <1>1 DEF AttachersAreDone
<1>3. Helpers'
  <2>1. \A u \in Stoppers : pc'[u] = pc[u]
    BY <1>1
  <2>2. ASSUME NEW u \in Attachers
        PROVE  pc'[u] \in {"idle", "initialize", "done"} /\ (pc'[u] = "initialize" => pc'[Main] \in Up)
    <3>1. CASE t = Main
      <4>1. pc'[u] = pc[u] /\ pc[Main] \notin Up
        BY <3>1 DEF Up
      <4>2. QED BY <4>1 DEF IInv, Phases, Helpers
    <3>2. CASE t # Main
      <4>1. pc'[Main] = pc[Main] /\ pc[Main] \in Up
        BY <1>1, <3>2
      <4>2. u = t \/ pc'[u] = pc[u]
        OBVIOUS
      <4>3. QED BY <3>2, <4>1, <4>2 DEF IInv, Phases, Helpers
    <3>3. QED BY <3>1, <3>2
  <2>3. (\A u \in Stoppers : pc'[u] = "done") \/ AttachersAreDone'
    BY <1>2, <2>1 DEF IInv, Phases, Helpers
  <2>4. QED BY <2>1, <2>2, <2>3 DEF IInv, Phases, Helpers
<1>4. Starter'
  <2>1. CASE t = Main
    <3>1. flags[App] = {"Starting"} /\ ~ signalled /\ ~ stopNow
      BY <2>1 DEF IInv, Phases, Starter
    <3>2. pc'[Main] \in {"initialize", "services", "stop"}
      BY <2>1
    <3>3. QED BY <3>1, <3>2 DEF Starter, Up, Stopping
  <2>2. CASE t # Main
    <3>1. pc'[Main] = pc[Main] /\ pc[Main] \in Up /\ flags[App] = {"Running"}
      BY <1>1, <2>2
    <3>2. QED BY <1>2, <3>1 DEF IInv, Phases, Starter, Up, Stopping
  <2>3. QED BY <2>1, <2>2
<1>5. Loops'
  <2>1. Cursors'
    BY DEF Cursors
  <2>2. \A u \in Threads : pc'[u] \notin Stopping
    BY <1>1 DEF Stopping
  <2>3. \A u \in Threads : Walk(u)'
    BY <2>2 DEF Walk, Stopping
  <2>4. Over'
    BY <1>1 DEF Over, IsStopped
  <2>5. QED BY <2>1, <2>3, <2>4 DEF Loops
<1>6. QED BY <1>3, <1>4, <1>5

(* The next requirement of the call on top. *)
Bumped(q) == [q EXCEPT ![Len(q)].next = @ + 1]

LEMMA BumpedIs ==
    ASSUME NEW q \in Seq(Frame), q # <<>>
    PROVE  /\ Bumped(q) \in Seq(Frame) /\ Len(Bumped(q)) = Len(q)
           /\ \A i \in 1 .. Len(q) :
                 /\ Bumped(q)[i].service = q[i].service
                 /\ Bumped(q)[i].next = IF i = Len(q) THEN q[i].next + 1 ELSE q[i].next
<1>1. Len(q) \in Nat /\ Len(q) >= 1 /\ \A i \in 1 .. Len(q) : q[i] \in Frame
  OBVIOUS
<1>2. \A f \in Frame : [f EXCEPT !.next = @ + 1] \in Frame
  BY DEF Frame
<1>3. Bumped(q) = [i \in 1 .. Len(q) |-> IF i = Len(q) THEN [q[i] EXCEPT !.next = @ + 1] ELSE q[i]]
  BY <1>1 DEF Bumped
<1>4. Bumped(q) \in Seq(Frame) /\ Len(Bumped(q)) = Len(q)
  <2>1. Bumped(q) \in [1 .. Len(q) -> Frame]
    BY <1>1, <1>2, <1>3
  <2>2. QED BY <1>1, <2>1
<1>5. \A f \in Frame : [f EXCEPT !.next = @ + 1].service = f.service /\ [f EXCEPT !.next = @ + 1].next = f.next + 1
  BY DEF Frame
<1>6. QED BY <1>1, <1>3, <1>4, <1>5

LEMMA FramesTyped ==
    ASSUME Stacks, NEW t \in Threads, NEW i \in DOMAIN stack[t]
    PROVE  /\ stack[t][i] \in Frame /\ stack[t][i].service \in Services
           /\ stack[t][i].next \in Nat /\ stack[t][i].next >= 1
<1>1. stack[t] \in Seq(Frame)
  BY DEF Stacks, Frames
<1>2. stack[t][i] \in Frame
  BY <1>1
<1>3. QED BY <1>2 DEF Frame

LEMMA SkipStacks ==
    ASSUME IInv, NEW t \in Threads, pc[t] = "initialize", HasRequirement(t), SkipRequirement(t),
           UNCHANGED <<registered, requirements>>, Selection(t) # NoService, IsRunning(Selection(t))
    PROVE  Stacks' /\ Resolved'
<1> DEFINE top == Len(stack[t])
<1>1. /\ stack[t] \in Seq(Frame) /\ stack[t] # <<>> /\ top \in Nat /\ top >= 1 /\ DOMAIN stack[t] = 1 .. top
      /\ Top(t) = stack[t][top] /\ top \in DOMAIN stack[t]
  BY Busy
<1>2. /\ stack' = [stack EXCEPT ![t] = Bumped(stack[t])]
      /\ UNCHANGED <<flags, pc>>
  BY DEF SkipRequirement, Bumped
<1>3. /\ stack' \in [Threads -> Seq(Frame)] /\ stack'[t] = Bumped(stack[t])
      /\ \A u \in Threads : u # t => stack'[u] = stack[u]
      /\ stack'[t] \in Seq(Frame) /\ Len(stack'[t]) = top /\ DOMAIN stack'[t] = 1 .. top /\ stack'[t] # <<>>
  <2>1. Bumped(stack[t]) \in Seq(Frame) /\ Len(Bumped(stack[t])) = top
    BY <1>1, BumpedIs
  <2>2. QED BY <1>1, <1>2, <2>1 DEF IInv, Stacks, Frames
<1>4. \A i \in DOMAIN stack[t] :
          /\ stack'[t][i].service = stack[t][i].service
          /\ stack'[t][i].next = IF i = top THEN stack[t][i].next + 1 ELSE stack[t][i].next
  BY <1>1, <1>3, BumpedIs
<1>5. \A u \in Threads : DOMAIN stack'[u] = DOMAIN stack[u] /\ \A i \in DOMAIN stack[u] : stack'[u][i].service = stack[u][i].service
  BY <1>1, <1>3, <1>4
<1>6. Frames'
  BY <1>1, <1>2, <1>3 DEF IInv, Stacks, Frames
<1>7. Started' /\ Unattached'
  BY <1>2, <1>5 DEF IInv, Stacks, Started, Unattached
<1>8. Once'
  BY <1>5 DEF IInv, Stacks, Once
<1>9. \A u \in Threads : \A i \in DOMAIN stack[u] : \A n : Chosen(u, i, n)' = Chosen(u, i, n)
  <2>1. ASSUME NEW u \in Threads, NEW i \in DOMAIN stack[u], NEW n
        PROVE  Chosen(u, i, n)' = Chosen(u, i, n)
    <3>1. stack'[u][i].service = stack[u][i].service
      BY <1>5
    <3>2. QED BY <3>1 DEF Chosen, Select
  <2>2. QED BY <2>1
<1>10. Resolved'
  <2>1. ASSUME NEW u \in Threads, NEW i \in DOMAIN stack'[u], NEW n \in 1 .. stack'[u][i].next - 1
        PROVE  /\ Chosen(u, i, n) # NoService
               /\ \/ IsRunning(Chosen(u, i, n))
                  \/ /\ i < Len(stack'[u]) /\ n = stack'[u][i].next - 1
                     /\ Chosen(u, i, n) = stack'[u][i + 1].service
    <3>1. CASE u # t
      <4>1. stack'[u] = stack[u]
        BY <1>3, <3>1
      <4>2. QED BY <4>1 DEF IInv, Resolved
    <3>2. CASE u = t /\ i # top
      <4>1. i \in DOMAIN stack[t] /\ i + 1 \in DOMAIN stack[t] /\ stack'[t][i].next = stack[t][i].next
        BY <1>1, <1>3, <1>4, <3>2
      <4>2. Len(stack'[u]) = Len(stack[u]) /\ stack'[u][i + 1].service = stack[u][i + 1].service
        BY <1>3, <1>4, <3>2, <4>1
      <4>3. QED BY <3>2, <4>1, <4>2 DEF IInv, Resolved
    <3>3. CASE u = t /\ i = top
      <4>1. stack'[t][top].next = stack[t][top].next + 1 /\ stack[t][top].next \in Nat
        BY <1>1, <1>4, FramesTyped DEF IInv
      <4>2. CASE n = stack[t][top].next
        <5>1. Chosen(u, i, n) = Selection(t)
          BY <1>1, <3>3, <4>2 DEF Chosen, Selection
        <5>2. QED BY <5>1
      <4>3. CASE n # stack[t][top].next
        <5>1. n \in 1 .. stack[t][top].next - 1
          BY <3>3, <4>1, <4>3
        <5>2. QED BY <1>1, <3>3, <5>1 DEF IInv, Resolved
      <4>4. QED BY <4>2, <4>3
    <3>4. QED BY <3>1, <3>2, <3>3
  <2>2. \A u \in Threads : \A i \in DOMAIN stack'[u] : \A n : Chosen(u, i, n)' = Chosen(u, i, n)
    BY <1>5, <1>9
  <2>3. QED BY <1>2, <2>1, <2>2 DEF Resolved, IsRunning
<1>11. QED BY <1>6, <1>7, <1>8, <1>10 DEF Stacks

(* A call for a service that no call is about. *)
LEMMA CallStacks ==
    ASSUME IInv, NEW t \in Threads, NEW s \in Services, Call(t, s), UNCHANGED requirements,
           registered' \in Seq(Services), ToSet(registered') = ToSet(registered) \union {s},
           \A r : Select(r) # NoService => Select(r)' = Select(r),
           \A u \in Threads : \A i \in DOMAIN stack[u] : stack[u][i].service # s,
           ~ IsRunning(s) \/ \A u \in Threads : stack[u] = <<>>,
           stack[t] = <<>> \/ (HasRequirement(t) /\ Selection(t) = s),
           \A u \in Threads : pc'[u] = "initialize" <=> (u = t \/ pc[u] = "initialize")
    PROVE  Stacks' /\ Resolved'
<1> DEFINE top == Len(stack[t])
<1>1. /\ stack[t] \in Seq(Frame) /\ top \in Nat /\ DOMAIN stack[t] = 1 .. top
      /\ stack[t] # <<>> => top \in 1 .. top /\ Top(t) = stack[t][top] /\ top >= 1
      /\ stack[t] = <<>> => top = 0
  BY DEF IInv, Stacks, Frames, Top, Last
<1>2. stack' = [stack EXCEPT ![t] = Pushed(t, s)] /\ flags' = [flags EXCEPT ![s] = {"Starting"}]
  BY DEF Call
<1>3. /\ Pushed(t, s) \in Seq(Frame) /\ Len(Pushed(t, s)) = top + 1
      /\ Pushed(t, s)[top + 1] = [service |-> s, next |-> 1]
      /\ \A i \in 1 .. top :
            /\ Pushed(t, s)[i].service = stack[t][i].service
            /\ Pushed(t, s)[i].next = IF i = top THEN stack[t][i].next + 1 ELSE stack[t][i].next
  <2>1. [service |-> s, next |-> 1] \in Frame
    BY DEF Frame
  <2>2. CASE stack[t] = <<>>
    BY <1>1, <2>1, <2>2 DEF Pushed
  <2>3. CASE stack[t] # <<>>
    <3>1. PICK b \in Seq(Frame) :
              /\ b = Bumped(stack[t]) /\ Len(b) = top
              /\ \A i \in 1 .. top : /\ b[i].service = stack[t][i].service
                                     /\ b[i].next = IF i = top THEN stack[t][i].next + 1 ELSE stack[t][i].next
      BY <1>1, <2>3, BumpedIs
    <3>2. Pushed(t, s) = Append(b, [service |-> s, next |-> 1])
      BY <2>3, <3>1 DEF Pushed, Bumped
    <3>3. Pushed(t, s) \in Seq(Frame) /\ Len(Pushed(t, s)) = top + 1
      BY <1>1, <2>1, <3>1, <3>2
    <3>4. Pushed(t, s)[top + 1] = [service |-> s, next |-> 1]
      BY <1>1, <2>1, <3>1, <3>2
    <3>5. \A i \in 1 .. top : Pushed(t, s)[i] = b[i]
      BY <1>1, <2>1, <3>1, <3>2
    <3>6. QED BY <3>1, <3>3, <3>4, <3>5
  <2>4. QED BY <2>2, <2>3
<1>4. /\ stack' \in [Threads -> Seq(Frame)] /\ stack'[t] = Pushed(t, s)
      /\ \A u \in Threads : u # t => stack'[u] = stack[u]
      /\ DOMAIN stack'[t] = 1 .. top + 1
  <2>1. stack \in [Threads -> Seq(Frame)] /\ t \in Threads
    BY DEF IInv, Stacks, Frames
  <2>2. Pushed(t, s) \in Seq(Frame)
    BY <1>3
  <2>3. stack' \in [Threads -> Seq(Frame)] /\ stack'[t] = Pushed(t, s)
    BY <1>2, <2>1, <2>2
  <2>4. \A u \in Threads : u # t => stack'[u] = stack[u]
    BY <1>2, <2>1
  <2>5. DOMAIN Pushed(t, s) = 1 .. Len(Pushed(t, s)) /\ Len(Pushed(t, s)) = top + 1
    BY <1>3, <2>2
  <2>6. QED BY <2>3, <2>4, <2>5
<1>5. flags'[s] = {"Starting"} /\ \A r \in Services : r # s => flags'[r] = flags[r]
  BY <1>2 DEF IInv, Phases, Typed
<1>6. ASSUME NEW u \in Threads, NEW i \in DOMAIN stack'[u]
      PROVE  \/ u = t /\ i = top + 1 /\ stack'[u][i].service = s /\ stack'[u][i].next = 1
             \/ i \in DOMAIN stack[u] /\ stack'[u][i].service = stack[u][i].service
  <2>1. CASE u # t
    BY <1>4, <2>1
  <2>2. CASE u = t
    <3>1. i \in 1 .. top + 1 /\ stack'[u][i] = Pushed(t, s)[i] /\ top \in Nat
      BY <1>1, <1>4, <2>2
    <3>2. CASE i = top + 1
      BY <1>3, <2>2, <3>1, <3>2
    <3>3. CASE i \in 1 .. top
      BY <1>1, <1>3, <2>2, <3>1, <3>3
    <3>4. QED BY <3>1, <3>2, <3>3
  <2>3. QED BY <2>1, <2>2
<1>7. Frames'
  <2>1. stack'[t] # <<>>
    BY <1>1, <1>3, <1>4
  <2>2. QED BY <1>4, <2>1 DEF IInv, Stacks, Frames
<1>8. Unattached'
  BY <1>5 DEF IInv, Stacks, Unattached
<1>9. Started'
  <2>1. ToSet(registered) \subseteq Services
    BY InRegistered DEF IInv, Registry
  <2>2. ASSUME NEW u \in Threads, NEW i \in DOMAIN stack'[u]
        PROVE  stack'[u][i].service \in ToSet(registered') /\ flags'[stack'[u][i].service] = {"Starting"}
    <3>1. CASE stack'[u][i].service = s
      BY <1>5, <3>1
    <3>2. CASE stack'[u][i].service # s
      <4>1. i \in DOMAIN stack[u] /\ stack'[u][i].service = stack[u][i].service
        BY <1>6, <3>2
      <4>2. stack[u][i].service \in ToSet(registered) /\ flags[stack[u][i].service] = {"Starting"}
        BY <4>1 DEF IInv, Stacks, Started
      <4>3. QED BY <1>5, <2>1, <3>2, <4>1, <4>2
    <3>3. QED BY <3>1, <3>2
  <2>3. QED BY <2>2 DEF Started
<1>10. Once'
  <2>1. ASSUME NEW u \in Threads, NEW v \in Threads, NEW i \in DOMAIN stack'[u], NEW j \in DOMAIN stack'[v],
               stack'[u][i].service = stack'[v][j].service
        PROVE  u = v /\ i = j
    <3>1. CASE stack'[u][i].service = s
      <4>1. u = t /\ i = top + 1
        BY <1>6, <3>1
      <4>2. v = t /\ j = top + 1
        BY <1>6, <2>1, <3>1
      <4>3. QED BY <4>1, <4>2
    <3>2. CASE stack'[u][i].service # s
      <4>1. i \in DOMAIN stack[u] /\ stack'[u][i].service = stack[u][i].service
        BY <1>6, <3>2
      <4>2. j \in DOMAIN stack[v] /\ stack'[v][j].service = stack[v][j].service
        BY <1>6, <2>1, <3>2
      <4>3. stack[u][i].service = stack[v][j].service
        BY <2>1, <4>1, <4>2
      <4>4. Once
        BY DEF IInv, Stacks
      <4>5. \A i1 \in DOMAIN stack[u], j1 \in DOMAIN stack[v] :
               stack[u][i1].service = stack[v][j1].service => u = v /\ i1 = j1
        BY <4>4 DEF Once
      <4>6. QED BY <4>1, <4>2, <4>3, <4>5, Zenon
    <3>3. QED BY <3>1, <3>2
  <2>2. QED BY <2>1 DEF Once
<1>11. Resolved'
  <2>1. ASSUME NEW u \in Threads, NEW i \in DOMAIN stack'[u], NEW n \in 1 .. stack'[u][i].next - 1
        PROVE  /\ Chosen(u, i, n)' # NoService
               /\ \/ "Running" \in flags'[Chosen(u, i, n)']
                  \/ /\ i < Len(stack'[u]) /\ n = stack'[u][i].next - 1
                     /\ Chosen(u, i, n)' = stack'[u][i + 1].service
    <3>1. CASE u = t /\ i = top + 1
      <4>1. stack'[u][i].next = 1
        BY <1>3, <1>4, <3>1
      <4>2. QED BY <4>1
    <3>2. CASE ~ (u = t /\ i = top + 1)
      <4>1. i \in DOMAIN stack[u] /\ stack'[u][i].service = stack[u][i].service
        BY <1>6, <3>2
      <4>2. Chosen(u, i, n) # NoService => Chosen(u, i, n)' = Chosen(u, i, n)
        BY <4>1 DEF Chosen
      <4>3. ~ IsRunning(s)
        BY <4>1
      <4>4. CASE u = t /\ i = top /\ n = stack[t][top].next
        <5>1. stack[t] # <<>> /\ Selection(t) = s /\ s # NoService
          BY <1>1, <4>1, <4>4, ThreadFacts
        <5>2. Chosen(u, i, n) = s
          BY <1>1, <4>4, <5>1 DEF Chosen, Selection
        <5>3. stack'[u][i].next = n + 1 /\ n \in Nat
          BY <1>1, <1>3, <1>4, <4>1, <4>4, FramesTyped DEF IInv
        <5>4. i < Len(stack'[u]) /\ stack'[u][i + 1].service = s
          BY <1>1, <1>3, <1>4, <4>4
        <5>5. QED BY <4>2, <5>1, <5>2, <5>3, <5>4
      <4>5. CASE ~ (u = t /\ i = top /\ n = stack[t][top].next)
        <5>1. n \in 1 .. stack[u][i].next - 1
          <6>1. CASE u # t
            BY <1>4, <6>1
          <6>2. CASE u = t
            <7>1. stack[t][i].next \in Nat /\ stack'[t][i].next = IF i = top THEN stack[t][i].next + 1 ELSE stack[t][i].next
              BY <1>1, <1>3, <1>4, <4>1, <6>2, FramesTyped DEF IInv
            <7>2. QED BY <4>5, <6>2, <7>1
          <6>3. QED BY <6>1, <6>2
        <5>2. Chosen(u, i, n) # NoService
          BY <4>1, <5>1 DEF IInv, Resolved
        <5>3. CASE IsRunning(Chosen(u, i, n))
          <6>1. Chosen(u, i, n) \in Services /\ Chosen(u, i, n) # s
            BY <4>3, <5>2, <5>3, SelectionIsThere DEF Chosen, IInv, Registry
          <6>2. flags'[Chosen(u, i, n)] = flags[Chosen(u, i, n)]
            BY <1>5, <6>1
          <6>3. QED BY <4>2, <5>2, <5>3, <6>2 DEF IsRunning
        <5>4. CASE ~ IsRunning(Chosen(u, i, n))
          <6>1. /\ i < Len(stack[u]) /\ n = stack[u][i].next - 1
                /\ Chosen(u, i, n) = stack[u][i + 1].service
            BY <4>1, <5>1, <5>4 DEF IInv, Resolved
          <6>2. i < Len(stack'[u]) /\ stack'[u][i].next = stack[u][i].next
                /\ stack'[u][i + 1].service = stack[u][i + 1].service
            <7>1. CASE u # t
              BY <1>4, <6>1, <7>1
            <7>2. CASE u = t
              <8>1. i # top /\ i + 1 \in 1 .. top /\ i \in 1 .. top
                BY <1>1, <4>1, <6>1, <7>2
              <8>2. Len(stack'[t]) = top + 1
                BY <1>3, <1>4
              <8>3. QED BY <1>1, <1>3, <1>4, <7>2, <8>1, <8>2
            <7>3. QED BY <7>1, <7>2
          <6>3. QED BY <4>2, <5>2, <6>1, <6>2
        <5>5. QED BY <5>3, <5>4
      <4>6. QED BY <4>4, <4>5
    <3>3. QED BY <3>1, <3>2
  <2>2. QED BY <2>1 DEF Resolved, IsRunning
<1>12. QED BY <1>7, <1>8, <1>9, <1>10, <1>11 DEF Stacks

(* An exception ends the calls of one thread; what the calls of the others *)
(* rely on keeps running.                                                  *)
LEMMA ThrowStacks ==
    ASSUME IInv, NEW t \in Threads, pc[t] = "initialize", Throw(t), UNCHANGED <<registered, requirements>>
    PROVE  /\ Stacks' /\ Resolved'
           /\ flags' \in [Services \union {App} -> SUBSET {"Starting", "Running", "Error"}]
           /\ flags'[App] = flags[App]
           /\ \A s \in Services : IsRunning(s)' => IsRunning(s)
<1> USE ThreadFacts
<1> DEFINE Left(r) == \E i \in DOMAIN stack[t] : stack[t][i].service = r
<1>1. flags' = [r \in Services \union {App} |-> IF Left(r) THEN {} ELSE flags[r]]
  BY DEF Throw, IInv, Phases, Typed
<1>2. /\ stack' \in [Threads -> Seq(Frame)] /\ stack'[t] = <<>>
      /\ \A u \in Threads : u # t => stack'[u] = stack[u] /\ pc'[u] = pc[u]
      /\ pc'[t] # "initialize"
  BY DEF Throw, Goto, IInv, Stacks, Frames, Phases, Typed
<1>3. \A r \in Services : Left(r) => flags[r] = {"Starting"}
  BY DEF IInv, Stacks, Started
<1>4. ~ Left(App)
  BY FramesTyped DEF IInv
<1>5. ASSUME NEW u \in Threads, u # t, NEW i \in DOMAIN stack[u]
      PROVE  ~ Left(stack[u][i].service)
  BY <1>5 DEF IInv, Stacks, Once
<1>6. \A s \in Services : IsRunning(s)' <=> IsRunning(s)
  BY <1>1, <1>3 DEF IsRunning
<1> HIDE DEF Left
<1>7. /\ flags' \in [Services \union {App} -> SUBSET {"Starting", "Running", "Error"}]
      /\ flags'[App] = flags[App]
  BY <1>1, <1>4 DEF IInv, Phases, Typed
<1>8. ASSUME NEW u \in Threads, NEW i \in DOMAIN stack'[u]
      PROVE  u # t /\ stack'[u] = stack[u] /\ i \in DOMAIN stack[u]
  BY <1>2
<1>9. Frames'
  BY <1>2 DEF IInv, Stacks, Frames
<1>10. Started'
  <2>1. ASSUME NEW u \in Threads, NEW i \in DOMAIN stack'[u]
        PROVE  stack'[u][i].service \in ToSet(registered) /\ flags'[stack'[u][i].service] = {"Starting"}
    <3>1. u # t /\ stack'[u] = stack[u] /\ i \in DOMAIN stack[u]
      BY <1>8
    <3>2. stack[u][i].service \in Services /\ ~ Left(stack[u][i].service)
      BY <1>5, <3>1, FramesTyped DEF IInv
    <3>3. flags'[stack[u][i].service] = flags[stack[u][i].service]
      BY <1>1, <3>2
    <3>4. QED BY <3>1, <3>3 DEF IInv, Stacks, Started
  <2>2. QED BY <2>1 DEF Started
<1>11. Once'
  <2>1. ASSUME NEW u \in Threads, NEW v \in Threads, NEW i \in DOMAIN stack'[u], NEW j \in DOMAIN stack'[v],
               stack'[u][i].service = stack'[v][j].service
        PROVE  u = v /\ i = j
    <3>1. /\ stack'[u] = stack[u] /\ i \in DOMAIN stack[u]
          /\ stack'[v] = stack[v] /\ j \in DOMAIN stack[v]
      BY <1>8
    <3>2. stack[u][i].service = stack[v][j].service
      BY <2>1, <3>1
    <3>3. \A i1 \in DOMAIN stack[u], j1 \in DOMAIN stack[v] :
             stack[u][i1].service = stack[v][j1].service => u = v /\ i1 = j1
      BY DEF IInv, Stacks, Once
    <3>4. QED BY <3>1, <3>2, <3>3, Zenon
  <2>2. QED BY <2>1 DEF Once
<1>12. Unattached'
  BY <1>1 DEF IInv, Stacks, Unattached
<1>13. Resolved'
  <2>1. ASSUME NEW u \in Threads, NEW i \in DOMAIN stack'[u], NEW n \in 1 .. stack'[u][i].next - 1
        PROVE  /\ Chosen(u, i, n)' # NoService
               /\ \/ "Running" \in flags'[Chosen(u, i, n)']
                  \/ /\ i < Len(stack'[u]) /\ n = stack'[u][i].next - 1
                     /\ Chosen(u, i, n)' = stack'[u][i + 1].service
    <3>1. stack'[u] = stack[u] /\ i \in DOMAIN stack[u]
      BY <1>8
    <3>2. Chosen(u, i, n)' = Chosen(u, i, n)
      BY <3>1 DEF Chosen, Select
    <3>3. /\ Chosen(u, i, n) # NoService
          /\ \/ IsRunning(Chosen(u, i, n))
             \/ /\ i < Len(stack[u]) /\ n = stack[u][i].next - 1
                /\ Chosen(u, i, n) = stack[u][i + 1].service
      BY <3>1 DEF IInv, Resolved
    <3>4. Chosen(u, i, n) \in Services
      BY <3>3, SelectionIsThere DEF Chosen, IInv, Registry
    <3>5. "Running" \in flags'[Chosen(u, i, n)] <=> IsRunning(Chosen(u, i, n))
      BY <1>6, <3>4 DEF IsRunning
    <3>6. QED BY <3>1, <3>2, <3>3, <3>5
  <2>2. QED BY <2>1 DEF Resolved, IsRunning
<1>14. QED BY <1>6, <1>7, <1>9, <1>10, <1>11, <1>12, <1>13 DEF Stacks

(* A call returns: its service runs, and so does all it requires. *)
LEMMA ReturnStacks ==
    ASSUME IInv, NEW t \in Threads, pc[t] = "initialize", ~ HasRequirement(t), Initialized(t),
           UNCHANGED <<registered, requirements>>
    PROVE  /\ Stacks' /\ Resolved'
           /\ flags' \in [Services \union {App} -> SUBSET {"Starting", "Running", "Error"}]
           /\ flags'[App] = flags[App]
           /\ \A s \in Services : IsRunning(s)' /\ ~ IsRunning(s) =>
                 \A i \in DOMAIN requirements[s] :
                    Select(requirements[s][i]) # NoService /\ IsRunning(Select(requirements[s][i]))
<1> USE ThreadFacts
<1> DEFINE top == Len(stack[t])
<1>1. /\ stack[t] \in Seq(Frame) /\ stack[t] # <<>> /\ top \in Nat /\ top >= 1 /\ DOMAIN stack[t] = 1 .. top
      /\ Top(t) = stack[t][top] /\ top \in DOMAIN stack[t]
  BY Busy
<1>2. PICK s \in Services : s = Top(t).service
  BY <1>1, FramesTyped DEF IInv
<1>3. flags[s] = {"Starting"} /\ s \in ToSet(registered)
  BY <1>1, <1>2 DEF IInv, Stacks, Started
<1>4. /\ flags' = [flags EXCEPT ![s] = {"Running"}]
      /\ stack' = [stack EXCEPT ![t] = Front(stack[t])]
  <2>1. RunningFlags(s) = {"Running"}
    BY <1>3 DEF RunningFlags
  <2>2. QED BY <1>2, <2>1 DEF Initialized
<1>5. /\ flags'[s] = {"Running"} /\ \A r \in Services : r # s => flags'[r] = flags[r]
      /\ flags' \in [Services \union {App} -> SUBSET {"Starting", "Running", "Error"}]
      /\ flags'[App] = flags[App]
  BY <1>4 DEF IInv, Phases, Typed
<1>6. /\ Front(stack[t]) \in Seq(Frame) /\ Len(Front(stack[t])) = top - 1
      /\ \A i \in 1 .. top - 1 : Front(stack[t])[i] = stack[t][i]
  BY <1>1 DEF Front
<1>7. /\ stack' \in [Threads -> Seq(Frame)] /\ stack'[t] = Front(stack[t])
      /\ \A u \in Threads : u # t => stack'[u] = stack[u]
      /\ Len(stack'[t]) = top - 1 /\ DOMAIN stack'[t] = 1 .. top - 1
  BY <1>1, <1>4, <1>6 DEF IInv, Stacks, Frames
<1>8. ASSUME NEW u \in Threads, NEW i \in DOMAIN stack'[u]
      PROVE  /\ i \in DOMAIN stack[u] /\ stack'[u][i] = stack[u][i]
             /\ u = t => i < top
             /\ stack[u][i].service # s
  <2>1. i \in DOMAIN stack[u] /\ stack'[u][i] = stack[u][i] /\ (u = t => i < top)
    <3>1. CASE u # t
      BY <1>7, <3>1
    <3>2. CASE u = t
      BY <1>1, <1>6, <1>7, <3>2
    <3>3. QED BY <3>1, <3>2
  <2>2. ~ (u = t /\ i = top)
    BY <1>1, <2>1
  <2>3. \A i1 \in DOMAIN stack[u], j1 \in DOMAIN stack[t] :
            stack[u][i1].service = stack[t][j1].service => u = t /\ i1 = j1
    BY DEF IInv, Stacks, Once
  <2>4. stack[u][i].service # s
    BY <1>1, <1>2, <2>1, <2>2, <2>3, Zenon
  <2>5. QED BY <2>1, <2>4
<1>9. Frames'
  <2>1. \A u \in Threads : u # t => pc'[u] = pc[u]
    BY DEF Initialized, Goto, IInv, Phases, Typed
  <2>2. pc'[t] = "initialize" <=> top > 1
    BY <1>1 DEF Initialized, Goto, IInv, Phases, Typed
  <2>3. stack'[t] # <<>> <=> top > 1
    <3>1. stack'[t] \in Seq(Frame)
      BY <1>7
    <3>2. stack'[t] = <<>> <=> Len(stack'[t]) = 0
      BY <3>1
    <3>3. QED BY <1>1, <1>7, <3>2
  <2>4. QED BY <1>7, <2>1, <2>2, <2>3 DEF IInv, Stacks, Frames
<1>10. Started'
  <2>1. ASSUME NEW u \in Threads, NEW i \in DOMAIN stack'[u]
        PROVE  stack'[u][i].service \in ToSet(registered) /\ flags'[stack'[u][i].service] = {"Starting"}
    <3>1. i \in DOMAIN stack[u] /\ stack'[u][i] = stack[u][i] /\ stack[u][i].service # s
      BY <1>8
    <3>2. stack[u][i].service \in Services
      BY <3>1, FramesTyped DEF IInv
    <3>3. flags'[stack[u][i].service] = flags[stack[u][i].service]
      BY <1>5, <3>1, <3>2
    <3>4. QED BY <3>1, <3>3 DEF IInv, Stacks, Started
  <2>2. QED BY <2>1 DEF Started
<1>11. Once'
  <2>1. ASSUME NEW u \in Threads, NEW v \in Threads, NEW i \in DOMAIN stack'[u], NEW j \in DOMAIN stack'[v],
               stack'[u][i].service = stack'[v][j].service
        PROVE  u = v /\ i = j
    <3>1. /\ stack'[u][i] = stack[u][i] /\ i \in DOMAIN stack[u]
          /\ stack'[v][j] = stack[v][j] /\ j \in DOMAIN stack[v]
      BY <1>8
    <3>2. stack[u][i].service = stack[v][j].service
      BY <2>1, <3>1
    <3>3. \A i1 \in DOMAIN stack[u], j1 \in DOMAIN stack[v] :
             stack[u][i1].service = stack[v][j1].service => u = v /\ i1 = j1
      BY DEF IInv, Stacks, Once
    <3>4. QED BY <3>1, <3>2, <3>3, Zenon
  <2>2. QED BY <2>1 DEF Once
<1>12. Unattached'
  BY <1>3, <1>5 DEF IInv, Stacks, Unattached
<1>13. Resolved'
  <2>1. ASSUME NEW u \in Threads, NEW i \in DOMAIN stack'[u], NEW n \in 1 .. stack'[u][i].next - 1
        PROVE  /\ Chosen(u, i, n)' # NoService
               /\ \/ "Running" \in flags'[Chosen(u, i, n)']
                  \/ /\ i < Len(stack'[u]) /\ n = stack'[u][i].next - 1
                     /\ Chosen(u, i, n)' = stack'[u][i + 1].service
    <3>1. i \in DOMAIN stack[u] /\ stack'[u][i] = stack[u][i] /\ (u = t => i < top)
      BY <1>8
    <3>2. Chosen(u, i, n)' = Chosen(u, i, n)
      BY <3>1 DEF Chosen, Select
    <3>3. /\ Chosen(u, i, n) # NoService
          /\ \/ IsRunning(Chosen(u, i, n))
             \/ /\ i < Len(stack[u]) /\ n = stack[u][i].next - 1
                /\ Chosen(u, i, n) = stack[u][i + 1].service
      BY <3>1 DEF IInv, Resolved
    <3>4. Chosen(u, i, n) \in Services
      BY <3>3, SelectionIsThere DEF Chosen, IInv, Registry
    <3>5. CASE IsRunning(Chosen(u, i, n))
      <4>1. "Running" \in flags'[Chosen(u, i, n)]
        BY <1>5, <3>4, <3>5 DEF IsRunning
      <4>2. QED BY <3>2, <3>3, <4>1
    <3>6. CASE /\ i < Len(stack[u]) /\ n = stack[u][i].next - 1
               /\ Chosen(u, i, n) = stack[u][i + 1].service
      <4>1. CASE u # t
        BY <1>7, <3>1, <3>2, <3>3, <3>6, <4>1
      <4>2. CASE u = t /\ i < top - 1
        <5>1. i + 1 \in 1 .. top - 1
          BY <1>1, <3>1, <4>2
        <5>2. stack'[u][i + 1] = stack[u][i + 1] /\ i < Len(stack'[u])
          BY <1>6, <1>7, <4>2, <5>1
        <5>3. QED BY <3>1, <3>2, <3>3, <3>6, <5>2
      <4>3. CASE u = t /\ i = top - 1
        <5>1. Chosen(u, i, n) = s
          BY <1>1, <1>2, <3>6, <4>3
        <5>2. QED BY <1>5, <3>2, <3>3, <5>1
      <4>4. QED BY <1>1, <3>1, <4>1, <4>2, <4>3
    <3>7. QED BY <3>3, <3>5, <3>6
  <2>2. QED BY <2>1 DEF Resolved, IsRunning
<1>14. ASSUME NEW r \in Services, IsRunning(r)', ~ IsRunning(r), NEW n \in DOMAIN requirements[r]
       PROVE  Select(requirements[r][n]) # NoService /\ IsRunning(Select(requirements[r][n]))
  <2>1. r = s
    BY <1>5, <1>14 DEF IsRunning
  <2>2. n \in 1 .. stack[t][top].next - 1
    <3>1. ~ (stack[t][top].next <= Len(requirements[s])) /\ stack[t][top].next \in Nat
      BY <1>1, <1>2, FramesTyped DEF HasRequirement, IInv
    <3>2. requirements[s] \in Seq(Requirement)
      BY RequirementsTyped DEF IInv
    <3>3. QED BY <1>14, <2>1, <3>1, <3>2
  <2>3. Chosen(t, top, n) = Select(requirements[r][n])
    BY <1>1, <1>2, <2>1 DEF Chosen
  <2>4. /\ Chosen(t, top, n) # NoService
        /\ IsRunning(Chosen(t, top, n)) \/ top < Len(stack[t])
    BY <1>1, <2>2 DEF IInv, Resolved
  <2>5. QED BY <1>1, <2>3, <2>4
<1>15. QED BY <1>5, <1>9, <1>10, <1>11, <1>12, <1>13, <1>14 DEF Stacks

(* What Dependencies says of a step: of DependenciesFirst. *)
Dependencies ==
    \A s \in Services : ~ IsRunning(s) /\ IsRunning(s)' =>
        \A i \in DOMAIN requirements[s] :
            Select(requirements[s][i]) # NoService /\ IsRunning(Select(requirements[s][i]))

LEMMA InitializeKeeps ==
    ASSUME IInv, NEW t \in Threads, Initialize(t)
    PROVE  IInv' /\ Dependencies
<1> USE ThreadFacts DEF Goto
<1>1. /\ UNCHANGED <<registered, requirements, failed, stopNow, signalled, missed>>
      /\ pc[t] = "initialize"
      /\ \/ HasRequirement(t) /\ ResolveRequirement(t)
         \/ ~ HasRequirement(t) /\ Initialized(t)
         \/ ~ HasRequirement(t) /\ Top(t).service \in Fragile /\ Throw(t)
  BY DEF Initialize
<1>2. cursor \in [Threads -> ToSet(registered) \union {None}] /\ pc \in [Threads -> Labels]
      /\ threw \in [Threads -> BOOLEAN] /\ (t = Main => cursor[Main] # None)
      /\ initialized \in [Services -> 0 .. 2]
  BY <1>1 DEF IInv, Loops, Cursors, Phases, Typed, Registry
<1>3. CASE Throw(t)
  <2>1. /\ Stacks' /\ Resolved'
        /\ flags' \in [Services \union {App} -> SUBSET {"Starting", "Running", "Error"}]
        /\ flags'[App] = flags[App]
        /\ \A s \in Services : IsRunning(s)' => IsRunning(s)
    BY <1>1, <1>3, ThrowStacks
  <2>2. /\ cursor' = cursor /\ initialized' = initialized
        /\ threw' \in [Threads -> BOOLEAN]
        /\ pc' \in [Threads -> Labels]
        /\ \A u \in Threads : u # t => pc'[u] = pc[u]
        /\ pc'[t] = IF t = Main THEN "stop" ELSE "done"
    BY <1>2, <1>3 DEF Throw, Labels
  <2>3. pc'[Main] # "initialize" \/ cursor'[Main] # None
    BY <1>1, <2>2 DEF IInv, Loops, Cursors
  <2>4. Helpers' /\ Starter' /\ Loops'
    BY <1>1, <1>2, <2>1, <2>2, <2>3, InitializePhases
  <2>5. Typed'
    BY <1>1, <2>1, <2>2 DEF IInv, Phases, Typed
  <2>6. Registry'
    BY <1>1, <2>2 DEF IInv, Registry
  <2>7. QED BY <2>1, <2>4, <2>5, <2>6 DEF IInv, Phases, Dependencies
<1>4. CASE ~ HasRequirement(t) /\ Initialized(t)
  <2>1. /\ Stacks' /\ Resolved'
        /\ flags' \in [Services \union {App} -> SUBSET {"Starting", "Running", "Error"}]
        /\ flags'[App] = flags[App]
        /\ Dependencies
    BY <1>1, <1>4, ReturnStacks DEF Dependencies
  <2>2. initialized' \in [Services -> 0 .. 2]
    <3>1. \A n \in 0 .. 2 : (IF n < 2 THEN n + 1 ELSE n) \in 0 .. 2
      OBVIOUS
    <3>2. PICK s : initialized' = [initialized EXCEPT ![s] = IF @ < 2 THEN @ + 1 ELSE @]
      BY <1>4 DEF Initialized
    <3>3. QED BY <1>2, <3>1, <3>2
  <2>3. /\ threw' = threw
        /\ pc' \in [Threads -> Labels]
        /\ \A u \in Threads : u # t => pc'[u] = pc[u]
        /\ pc'[t] \in {"initialize"} \union (IF t = Main THEN {"services"} ELSE {"done"})
    BY <1>1, <1>2, <1>4 DEF Initialized, Labels
  <2>4. /\ cursor' \in [Threads -> ToSet(registered) \union {None}]
        /\ pc'[Main] = "initialize" => cursor'[Main] # None
    <3>1. CASE cursor' = cursor
      <4>1. pc'[Main] = "initialize" => pc[Main] = "initialize"
        BY <1>1, <2>3
      <4>2. QED BY <1>2, <3>1, <4>1 DEF IInv, Loops, Cursors
    <3>2. CASE t = Main /\ pc'[Main] = "services" /\ cursor' = [cursor EXCEPT ![t] = After(@)]
      <4>1. After(cursor[Main]) \in ToSet(registered) \union {None}
        BY <1>2, <3>2, AfterIsThere DEF IInv
      <4>2. QED BY <1>2, <3>2, <4>1
    <3>3. QED BY <1>2, <1>4, <3>1, <3>2 DEF Initialized
  <2>5. Helpers' /\ Starter' /\ Loops'
    BY <1>1, <2>1, <2>3, <2>4, InitializePhases
  <2>6. Typed'
    BY <1>1, <2>1, <2>3 DEF IInv, Phases, Typed
  <2>7. Registry'
    BY <1>1, <2>2 DEF IInv, Registry
  <2>8. QED BY <2>1, <2>5, <2>6, <2>7 DEF IInv, Phases
<1>5. CASE HasRequirement(t) /\ ResolveRequirement(t) /\ ~ Throw(t)
  <2>1. /\ ~ Unselectable(t) /\ Selection(t) # NoService
        /\ ~ (IsStarting(Selection(t)) /\ ~ IsRunning(Selection(t)))
    BY <1>5 DEF ResolveRequirement, Unselectable
  <2>2. Selection(t) \in ToSet(registered) /\ Selection(t) \in Services
    BY <2>1, SelectionIsThere DEF Selection, IInv, Registry
  <2>3. CASE IsRunning(Selection(t)) /\ SkipRequirement(t)
    <3>1. Stacks' /\ Resolved' /\ UNCHANGED <<flags, pc, cursor, threw, initialized>>
      BY <1>1, <1>5, <2>1, <2>3, SkipStacks DEF SkipRequirement
    <3>2. Helpers' /\ Starter' /\ Loops'
      BY <1>1, <1>2, <3>1, InitializePhases DEF IInv, Loops, Cursors
    <3>3. Typed' /\ Registry'
      BY <1>1, <3>1 DEF IInv, Phases, Typed, Registry
    <3>4. Dependencies
      BY <3>1 DEF Dependencies, IsRunning
    <3>5. QED BY <3>1, <3>2, <3>3, <3>4 DEF IInv, Phases
  <2>4. CASE ~ IsRunning(Selection(t)) /\ Call(t, Selection(t)) /\ UNCHANGED <<pc, cursor, threw, initialized>>
    <3>1. PICK s \in Services : s = Selection(t) /\ s \in ToSet(registered)
      BY <2>2
    <3>2. \A u \in Threads : \A i \in DOMAIN stack[u] : stack[u][i].service # s
      BY <2>1, <2>4, <3>1 DEF IInv, Stacks, Started, IsStarting
    <3>3. /\ registered' \in Seq(Services) /\ ToSet(registered') = ToSet(registered) \union {s}
          /\ \A r : Select(r) # NoService => Select(r)' = Select(r)
      BY <1>1, <3>1 DEF IInv, Registry, Select
    <3>4. Stacks' /\ Resolved'
      BY <1>1, <1>5, <2>4, <3>1, <3>2, <3>3, CallStacks
    <3>5. /\ flags' \in [Services \union {App} -> SUBSET {"Starting", "Running", "Error"}]
          /\ flags'[App] = flags[App] /\ \A r \in Services : IsRunning(r)' => IsRunning(r)
      BY <2>4, <3>1 DEF Call, IInv, Phases, Typed, IsRunning
    <3>6. Helpers' /\ Starter' /\ Loops'
      BY <1>1, <1>2, <2>4, <3>5, InitializePhases DEF IInv, Loops, Cursors
    <3>7. Typed' /\ Registry'
      BY <1>1, <2>4, <3>5 DEF IInv, Phases, Typed, Registry
    <3>8. QED BY <3>4, <3>5, <3>6, <3>7 DEF IInv, Phases, Dependencies
  <2>5. QED BY <1>5, <2>1, <2>3, <2>4 DEF ResolveRequirement
<1>6. QED BY <1>1, <1>3, <1>4, <1>5

LEMMA StartServicesKeeps ==
    ASSUME IInv, StartServices
    PROVE  IInv' /\ Dependencies
<1> USE ThreadFacts DEF Goto
<1>1. /\ UNCHANGED <<registered, requirements, cursor, failed, threw, stopNow, missed, initialized>>
      /\ pc[Main] = "services" /\ pc[Main] \notin Up
      /\ \A u \in Threads : u # Main => pc'[u] = pc[u]
      /\ \A u \in Threads : pc[u] \notin Stopping \union {"stop", "initialize"} /\ stack[u] = <<>>
      /\ flags[App] = {"Starting"} /\ ~ signalled /\ ~ stopNow
  BY Quiet DEF StartServices, IInv, Phases, Typed, Starter, Up
<1>2. Registry'
  BY <1>1 DEF IInv, Registry
<1>3. cursor \in [Threads -> ToSet(registered) \union {None}]
  BY DEF IInv, Loops, Cursors
<1>4. CASE cursor[Main] = None
  <2>1. /\ flags' = [flags EXCEPT ![App] = {"Running"}]
        /\ signalled' = TRUE /\ pc' = [pc EXCEPT ![Main] = "test"] /\ UNCHANGED stack
    <3>1. RunningFlags(App) = {"Running"}
      BY <1>1 DEF RunningFlags
    <3>2. QED BY <1>4, <3>1 DEF StartServices
  <2>2. flags'[App] = {"Running"} /\ \A s \in Services : flags'[s] = flags[s]
    BY <2>1 DEF IInv, Phases, Typed
  <2>3. pc'[Main] = "test"
    BY <2>1 DEF IInv, Phases, Typed
  <2>4. Typed'
    BY <1>1, <2>1 DEF IInv, Phases, Typed, Labels, Up
  <2>5. AttachersAreDone' <=> AttachersAreDone
    BY <1>1 DEF AttachersAreDone
  <2>6. Helpers'
    BY <1>1, <2>1, <2>3, <2>5 DEF IInv, Phases, Helpers, Up
  <2>7. Starter'
    BY <1>1, <2>2, <2>3 DEF Starter, Stopping, Up
  <2>8. Stacks' /\ Resolved'
    <3>1. \A s \in Services \ ToSet(registered') : flags'[s] = {}
      BY <1>1, <2>2 DEF IInv, Stacks, Unattached
    <3>2. \A u \in Threads : pc'[u] # "initialize"
      BY <1>1, <2>3
    <3>3. QED BY <1>1, <2>1, <3>1, <3>2, StacksEmpty DEF IInv
  <2>9. Loops'
    <3>1. Cursors'
      BY <1>1, <1>3, <2>3 DEF Cursors
    <3>2. \A t \in Threads : Walk(t)'
      BY <1>1, <2>3 DEF Walk, Stopping
    <3>3. Over'
      BY <2>2 DEF Over, IsStopped
    <3>4. QED BY <3>1, <3>2, <3>3 DEF Loops
  <2>10. Dependencies
    BY <2>2 DEF Dependencies, IsRunning
  <2>11. QED BY <1>2, <2>4, <2>6, <2>7, <2>8, <2>9, <2>10 DEF IInv, Phases
<1>5. CASE cursor[Main] # None
  <2>1. PICK s \in Services : s = cursor[Main] /\ s \in ToSet(registered)
    BY <1>3, <1>5, InRegistered DEF IInv, Registry
  <2>2. Call(Main, s) /\ pc' = [pc EXCEPT ![Main] = "initialize"] /\ UNCHANGED signalled
    BY <1>5, <2>1 DEF StartServices
  <2>3. pc'[Main] = "initialize"
    BY <2>2 DEF IInv, Phases, Typed
  <2>4. /\ flags' \in [Services \union {App} -> SUBSET {"Starting", "Running", "Error"}]
        /\ flags'[App] = flags[App] /\ \A r \in Services : IsRunning(r)' => IsRunning(r)
    BY <2>1, <2>2 DEF Call, IInv, Phases, Typed, IsRunning
  <2>5. Typed'
    BY <1>1, <2>2, <2>4 DEF IInv, Phases, Typed, Labels
  <2>6. AttachersAreDone' <=> AttachersAreDone
    BY <1>1 DEF AttachersAreDone
  <2>7. Helpers'
    BY <1>1, <2>2, <2>3, <2>6 DEF IInv, Phases, Helpers, Up
  <2>8. Starter'
    BY <1>1, <2>2, <2>3, <2>4 DEF Starter, Stopping, Up
  <2>9. Stacks' /\ Resolved'
    <3>1. \A u \in Threads : \A i \in DOMAIN stack[u] : stack[u][i].service # s
      BY <1>1
    <3>2. /\ registered' \in Seq(Services) /\ ToSet(registered') = ToSet(registered) \union {s}
          /\ \A r : Select(r) # NoService => Select(r)' = Select(r)
      BY <1>1, <2>1 DEF IInv, Registry, Select
    <3>3. \A u \in Threads : pc'[u] = "initialize" <=> (u = Main \/ pc[u] = "initialize")
      BY <1>1, <2>3
    <3>4. QED BY <1>1, <2>2, <3>1, <3>2, <3>3, CallStacks
  <2>10. Loops'
    <3>1. Cursors'
      BY <1>1, <1>3, <1>5 DEF Cursors
    <3>2. \A t \in Threads : Walk(t)'
      BY <1>1, <2>3 DEF Walk, Stopping
    <3>3. Over'
      BY <1>1, <2>4 DEF Over, IsStopped
    <3>4. QED BY <3>1, <3>2, <3>3 DEF Loops
  <2>11. QED BY <1>2, <2>4, <2>5, <2>7, <2>8, <2>9, <2>10 DEF IInv, Phases, Dependencies
<1>6. QED BY <1>4, <1>5

LEMMA AttachKeeps ==
    ASSUME IInv, NEW t \in Attachers, NEW s \in Services, Attach(t, s)
    PROVE  IInv' /\ Dependencies
<1> USE ThreadFacts DEF Goto
<1>1. /\ UNCHANGED <<requirements, cursor, failed, threw, stopNow, signalled, missed, initialized>>
      /\ pc[t] = "idle" /\ ~ IsStarting(App) /\ t \in Threads /\ t # Main
      /\ \/ s \in ToSet(registered) /\ pc' = [pc EXCEPT ![t] = "done"] /\ UNCHANGED <<registered, flags, stack>>
         \/ /\ s \notin ToSet(registered) /\ Insert(s) /\ ~ IsRunning(App)
            /\ pc' = [pc EXCEPT ![t] = "done"] /\ UNCHANGED <<flags, stack>>
         \/ /\ s \notin ToSet(registered) /\ Insert(s) /\ IsRunning(App)
            /\ pc' = [pc EXCEPT ![t] = "initialize"] /\ Call(t, s)
  BY DEF Attach
<1>2. /\ \A u \in Threads : u # t => pc'[u] = pc[u]
      /\ pc'[t] = IF s \notin ToSet(registered) /\ IsRunning(App) THEN "initialize" ELSE "done"
      /\ pc' \in [Threads -> Labels]
  BY <1>1 DEF IInv, Phases, Typed, Labels
<1>3. ~ AttachersAreDone /\ \A u \in Stoppers : pc[u] = "done" /\ pc'[u] = "done"
  BY <1>1, <1>2 DEF IInv, Phases, Helpers, AttachersAreDone
<1>4. pc[Main] \notin Stopping \union {"stop", "services", "initialize"}
  BY <1>1, <1>3 DEF IInv, Phases, Starter, IsStarting
<1>5. IsRunning(App) => pc[Main] \in Up
  BY <1>4 DEF IInv, Phases, Typed, Labels, Starter, IsStopped, IsRunning
<1>6. /\ flags' \in [Services \union {App} -> SUBSET {"Starting", "Running", "Error"}]
      /\ flags'[App] = flags[App] /\ \A r \in Services : r # s => flags'[r] = flags[r]
      /\ \A r \in Services : IsRunning(r)' => IsRunning(r)
      /\ ~ IsRunning(App) \/ s \in ToSet(registered) => flags' = flags
  BY <1>1 DEF Call, IInv, Phases, Typed, IsRunning
<1>7. Dependencies
  BY <1>6 DEF Dependencies
<1>8. /\ registered' \in Seq(Services) /\ IsInjective(registered')
      /\ ToSet(registered') = ToSet(registered) \union {s}
      /\ \A r : Select(r) # NoService => Select(r)' = Select(r)
  <2>1. CASE s \in ToSet(registered)
    BY <1>1, <2>1 DEF IInv, Registry, Select
  <2>2. CASE s \notin ToSet(registered)
    BY <1>1, <2>2, InsertKeepsOrder DEF IInv
  <2>3. QED BY <2>1, <2>2
<1>9. Registry'
  BY <1>1, <1>8 DEF IInv, Registry
<1>10. Phases'
  <2>1. Typed'
    BY <1>1, <1>2, <1>6 DEF IInv, Phases, Typed
  <2>2. Helpers'
    BY <1>1, <1>2, <1>3, <1>5 DEF IInv, Phases, Helpers, Stopping
  <2>3. Starter'
    BY <1>1, <1>2, <1>3, <1>6 DEF IInv, Phases, Starter, IsStopped
  <2>4. QED BY <2>1, <2>2, <2>3 DEF Phases
<1>11. Loops'
  <2>1. Cursors'
    BY <1>1, <1>2, <1>4, <1>8 DEF IInv, Loops, Cursors
  <2>2. ASSUME NEW u \in Threads PROVE Walk(u)'
    <3>1. pc[u] \notin Stopping
      BY <1>3, <1>4 DEF IInv, Phases, Helpers, Stopping
    <3>2. pc'[u] \notin Stopping
      BY <1>2, <3>1 DEF Stopping
    <3>3. QED BY <3>2 DEF Walk, Stopping
  <2>3. Over'
    <3>1. SUFFICES ASSUME pc[Main] # "idle", IsStopped(App) PROVE AllStopped'
      BY <1>1, <1>2, <1>6 DEF Over, IsStopped
    <3>2. AllStopped /\ flags' = flags
      BY <1>6, <3>1 DEF IInv, Loops, Over, IsStopped, IsRunning
    <3>3. \A r \in ToSet(registered) : IsStopped(r)
      BY <3>2, InRegistered DEF AllStopped, IInv, Registry
    <3>4. IsStopped(s)
      BY <3>3 DEF IInv, Stacks, Unattached, IsStopped
    <3>5. \A i \in DOMAIN registered' : registered'[i] \in ToSet(registered) \union {s}
      BY <1>8, InRegistered
    <3>6. QED BY <3>2, <3>3, <3>4, <3>5 DEF AllStopped, IsStopped
  <2>4. QED BY <2>1, <2>2, <2>3 DEF Loops
<1>12. Stacks' /\ Resolved'
  <2>1. CASE s \notin ToSet(registered) /\ IsRunning(App)
    <3>1. Call(t, s) /\ flags[s] = {}
      BY <1>1, <2>1 DEF IInv, Stacks, Unattached
    <3>2. \A u \in Threads : \A i \in DOMAIN stack[u] : stack[u][i].service # s
      BY <2>1 DEF IInv, Stacks, Started
    <3>3. stack[t] = <<>> /\ ~ IsRunning(s)
      BY <1>1, <3>1 DEF IInv, Stacks, Frames, IsRunning
    <3>4. \A u \in Threads : pc'[u] = "initialize" <=> (u = t \/ pc[u] = "initialize")
      BY <1>2, <2>1
    <3>5. QED BY <1>1, <1>8, <3>1, <3>2, <3>3, <3>4, CallStacks
  <2>2. CASE ~ (s \notin ToSet(registered) /\ IsRunning(App))
    <3>1. UNCHANGED <<flags, stack>>
      BY <1>1, <2>2
    <3>2. Frames'
      BY <1>1, <1>2, <2>2, <3>1 DEF IInv, Stacks, Frames
    <3>3. Started' /\ Unattached'
      BY <1>8, <3>1 DEF IInv, Stacks, Started, Unattached
    <3>4. Once'
      BY <3>1 DEF IInv, Stacks, Once
    <3>5. ASSUME NEW u \in Threads, NEW i \in DOMAIN stack[u], NEW n \in 1 .. stack[u][i].next - 1
          PROVE  /\ Chosen(u, i, n)' = Chosen(u, i, n) /\ Chosen(u, i, n) # NoService
                 /\ \/ IsRunning(Chosen(u, i, n))
                    \/ /\ i < Len(stack[u]) /\ n = stack[u][i].next - 1
                       /\ Chosen(u, i, n) = stack[u][i + 1].service
      BY <1>1, <1>8, <3>1 DEF IInv, Resolved, Chosen
    <3>6. Resolved'
      BY <3>1, <3>5 DEF Resolved, IsRunning
    <3>7. QED BY <3>2, <3>3, <3>4, <3>6 DEF Stacks
  <2>3. QED BY <2>1, <2>2
<1>13. QED BY <1>7, <1>9, <1>10, <1>11, <1>12 DEF IInv

LEMMA UnchangedKeeps == IInv /\ UNCHANGED vars => IInv' /\ Dependencies
<1> SUFFICES ASSUME IInv, UNCHANGED vars PROVE IInv' /\ Dependencies
  OBVIOUS
<1> USE DEF vars
<1>1. Registry' /\ Phases'
  BY DEF IInv, Registry, Phases, Typed, Helpers, Starter, AttachersAreDone, IsStopped
<1>2. Stacks' /\ Resolved'
  BY StacksKept DEF IInv
<1>3. Loops'
  BY Zenon DEF IInv, Loops, Cursors, Walk, Over, AllStopped, Passed, IsStopped
<1>4. QED BY <1>1, <1>2, <1>3 DEF IInv, Dependencies, IsRunning

LEMMA StepKeeps == Separate /\ IInv /\ [Next]_vars => IInv' /\ Dependencies
<1> SUFFICES ASSUME Separate, IInv, [Next]_vars PROVE IInv' /\ Dependencies
  OBVIOUS
<1>1. ASSUME \A s \in Services : flags'[s] = flags[s] \/ ~ IsRunning(s)'
      PROVE  Dependencies
  BY <1>1 DEF Dependencies, IsRunning
<1>2. CASE Start \/ RunTests \/ RunWaits \/ RunWakesUp
  <2>1. \A s \in Services : flags'[s] = flags[s]
    BY <1>2, ThreadFacts DEF Start, RunTests, RunWaits, RunWakesUp, IInv, Phases, Typed
  <2>2. QED BY <1>1, <1>2, <2>1, StartKeeps, RunKeeps
<1>3. CASE StartServices
  BY <1>3, StartServicesKeeps
<1>4. ASSUME NEW t \in Threads, Step(t) PROVE IInv' /\ Dependencies
  <2>1. CASE Initialize(t)
    BY <2>1, InitializeKeeps
  <2>2. CASE Stop(t)
    BY <1>1, <2>2, StopKeeps DEF Stop
  <2>3. CASE NextService(t)
    BY <1>1, <2>3, NextServiceKeeps DEF NextService
  <2>4. CASE StopService(t)
    <3>1. IInv' /\ flags \in [Services \union {App} -> SUBSET {"Starting", "Running", "Error"}]
      BY <2>4, StopServiceKeeps DEF IInv, Phases, Typed
    <3>2. PICK f \in {{}, {"Error"}} : flags' = [flags EXCEPT ![cursor[t]] = f]
      BY <2>4 DEF StopService
    <3>3. \A s \in Services : flags'[s] = flags[s] \/ flags'[s] = f
      BY <3>1, <3>2
    <3>4. QED BY <1>1, <3>1, <3>3 DEF IsRunning
  <2>5. CASE SetStopNow(t)
    BY <1>1, <2>5, SetStopNowKeeps DEF SetStopNow
  <2>6. CASE SetStatus(t)
    BY <1>1, <2>6, SetStatusKeeps, ThreadFacts DEF SetStatus, IInv, Phases, Typed
  <2>7. QED BY <1>4, <2>1, <2>2, <2>3, <2>4, <2>5, <2>6 DEF Step
<1>5. ASSUME NEW t \in Attachers, NEW s \in Services, Attach(t, s) PROVE IInv' /\ Dependencies
  BY <1>5, AttachKeeps
<1>6. CASE UNCHANGED vars
  BY <1>6, UnchangedKeeps
<1>7. QED BY <1>2, <1>3, <1>4, <1>5, <1>6 DEF Next

-----------------------------------------------------------------------------
(* The invariant holds of every behaviour.                                 *)
LEMMA Invariance == Separate => (Spec => []IInv)
<1>1. Separate /\ Init => IInv
  BY InitHolds
<1>2. Separate /\ IInv /\ [Next]_vars => IInv'
  BY StepKeeps
<1>3. SUFFICES ASSUME Separate PROVE Spec => []IInv
  OBVIOUS
<1>4. QED BY <1>1, <1>2, <1>3, PTL DEF Spec

(* Service::initialize never runs inside itself for one service, nor in    *)
(* two threads at once: whatever the requirements, the loops there are in  *)
(* them and the services that throw, each is refused before it is entered  *)
(* a second time, and the state stays typed.                               *)
THEOREM InitializeIsSound ==
    ASSUME Separate
    PROVE  Spec => []InitializeInvariant
<1>1. IInv => InitializeInvariant
  <2> SUFFICES ASSUME IInv PROVE InitializeInvariant
    OBVIOUS
  <2>1. TypeOK
    <3>1. ToSet(registered) \subseteq Services
      BY InRegistered DEF IInv, Registry
    <3>2. cursor \in [Threads -> Services \union {None}]
      BY <3>1 DEF IInv, Loops, Cursors
    <3>3. QED BY <3>2 DEF TypeOK, IInv, Registry, Phases, Typed, Labels, Stopping, Up, Stacks, Frames
  <2>2. NoRecursiveInitialize
    BY DEF NoRecursiveInitialize, IInv, Stacks, Once
  <2>3. QED BY <2>1, <2>2 DEF InitializeInvariant
<1>2. QED BY <1>1, Invariance, PTL

(* Application::start, stop and do_stop: once start() and every call of    *)
(* stop() have returned, no attached service runs, however many there are, *)
(* whichever failed to start or refused to stop, and however many threads  *)
(* walked them at once.                                                    *)
THEOREM NothingIsLeftRunning ==
    ASSUME Separate
    PROVE  Spec => []NothingRunsAfterStop
<1>1. IInv => NothingRunsAfterStop
  BY DEF IInv, Phases, Starter, Loops, Over, AllStopped, NothingRunsAfterStop, AllDone
<1>2. QED BY <1>1, Invariance, PTL

(* Service::initialize: a service goes to Running only when all it         *)
(* requires is selected and Running, also when services are attached, and  *)
(* throw, in several threads at once.                                      *)
THEOREM RequirementsRunFirst ==
    ASSUME Separate
    PROVE  Spec => DependenciesFirst
<1>1. IInv /\ [Next]_vars => Dependencies
  BY StepKeeps
<1>2. Dependencies <=>
        \A s \in Services :
          ~ IsRunning(s) /\ IsRunning(s)' =>
              \A i \in DOMAIN requirements[s] :
                  /\ Select(requirements[s][i]) # NoService
                  /\ IsRunning(Select(requirements[s][i]))
  BY DEF Dependencies
<1>3. QED BY <1>1, <1>2, Invariance, PTL DEF Spec, DependenciesFirst
=============================================================================
