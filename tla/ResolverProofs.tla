--------------------------- MODULE ResolverProofs ---------------------------
(***************************************************************************)
(* The safety properties of Resolver for every set of addresses, every     *)
(* bound on the retired list and every cooldown. The invariant adds to the *)
(* types where each task can be, and ties what is owed of a cooldown to    *)
(* the stamp on disk.                                                      *)
(***************************************************************************)
EXTENDS Resolver, FiniteSetTheorems, TLAPS

\* The names of the tasks.
USE DEF Warms, Searches, Orphans, SearchOf

\* A task passes only through the steps of its own code.
Path(t) ==
  IF t \in Warms THEN {"idle", "self", "learn", "build", "send"}
  ELSE {"idle", "claim", "lookup", "adopt", "fetch", "manifest"} \cup
       (IF t \in Searches THEN {"build", "send", "release"} ELSE {"self", "learn", "probe"})

Places == \A t \in Tasks : task[t].pc \in Path(t)

\* A process that is not there has no tasks.
Quiet == running \/ \A t \in Tasks : At(t, "idle")

\* What is owed of a cooldown is on disk, and in memory no less.
Owing ==
  owed > 0 => /\ Cold(file) /\ owed <= Cooldown - file.age
              /\ running => cache.age = file.age

\* The tasks are where they can be, and the flag agrees.
Control == Places /\ Quiet /\ FlagMeansSearch

\* The inductive invariant.
IInv == TypeOK /\ Control /\ Owing

-----------------------------------------------------------------------------
(* The retired list *)

\* A way to write down a set of addresses is a list of those addresses.
LEMMA OrdersType ==
  ASSUME NEW S \in SUBSET Addrs, NEW o \in Orders(S)
  PROVE  o \in Seq(Addrs) /\ Members(o) = S
<1>1. Cardinality(S) \in Nat
  BY AddressAssumption, FS_Subset, FS_CardinalityType
<1>2. o \in [1 .. Cardinality(S) -> S] /\ \A x \in S : \E i \in 1 .. Cardinality(S) : o[i] = x
  BY DEF Orders
<1>3. o \in Seq(S) /\ Len(o) = Cardinality(S)
  BY <1>1, <1>2
<1>4. o \in Seq(Addrs)
  BY <1>3
<1> QED
  BY <1>2, <1>3, <1>4 DEF Members

\* What a list q may lose on the way to r, having been told of addresses gone:
\* its k oldest.
AgesTo(q, gone, r, k) ==
  /\ Len(q) - k <= Len(r) /\ \A i \in 1 .. Len(q) - k : r[i] = q[k + i]
  /\ k > 0 => Len(r) = MaxRetired
  /\ \/ gone \subseteq Members(r) \cup {q[i] : i \in 1 .. k}
     \/ k = Len(q) /\ Len(r) = MaxRetired /\ Members(q) \cap Members(r) = {}

\* The newest of a list of addresses are one: all of it, or its last MaxRetired.
LEMMA NewestType ==
  ASSUME NEW q \in Seq(Addrs)
  PROVE  /\ Newest(q) \in Seq(Addrs)
         /\ Len(q) <= MaxRetired => Newest(q) = q
         /\ Len(q) > MaxRetired =>
              /\ Len(Newest(q)) = MaxRetired
              /\ \A i \in 1 .. MaxRetired : Newest(q)[i] = q[Len(q) - MaxRetired + i]
<1>1. MaxRetired \in Nat /\ Len(q) \in Nat
  BY TimingAssumption
<1>2. CASE Len(q) > MaxRetired
  <2> DEFINE e == Len(q) - MaxRetired
             r == SubSeq(q, e + 1, Len(q))
  <2>1. e \in Nat /\ e + 1 \in 1 .. Len(q) + 1 /\ Len(q) \in 0 .. Len(q)
    BY <1>1, <1>2
  <2>2. r \in Seq(Addrs) /\ Len(r) = MaxRetired
    BY <1>1, <2>1
  <2>3. \A i \in 1 .. MaxRetired : r[i] = q[e + i]
    BY <1>1, <2>1
  <2>4. Newest(q) = r
    BY <1>2 DEF Newest
  <2> QED
    BY <1>1, <1>2, <2>2, <2>3, <2>4
<1>3. CASE ~(Len(q) > MaxRetired)
  BY <1>1, <1>3 DEF Newest
<1> QED
  BY <1>2, <1>3

\* remember_retired makes a list of addresses that has lost the oldest alone.
LEMMA RememberedType ==
  ASSUME NEW q \in Seq(Addrs), NEW gone \in SUBSET Addrs,
         NEW r \in Remembered(q, gone)
  PROVE  r \in Seq(Addrs) /\ \E k \in 0 .. Len(q) : AgesTo(q, gone, r, k)
<1>1. PICK o \in Orders(gone \ Members(q)) : r = Newest(q \o o)
  BY DEF Remembered
<1> DEFINE s == q \o o
<1>2. o \in Seq(Addrs) /\ Members(o) = gone \ Members(q)
  BY OrdersType
<1>3. /\ s \in Seq(Addrs) /\ Len(s) = Len(q) + Len(o)
      /\ Len(q) \in Nat /\ Len(o) \in Nat /\ MaxRetired \in Nat
      /\ \A i \in 1 .. Len(q) : s[i] = q[i]
      /\ \A i \in 1 .. Len(o) : s[Len(q) + i] = o[i]
  BY <1>2, TimingAssumption
<1> HIDE DEF s
<1>4. /\ r \in Seq(Addrs)
      /\ Len(s) <= MaxRetired => r = s
      /\ Len(s) > MaxRetired =>
           /\ Len(r) = MaxRetired
           /\ \A i \in 1 .. MaxRetired : r[i] = s[Len(s) - MaxRetired + i]
  BY <1>1, <1>3, NewestType DEF s
<1>5. \A x \in gone : x \in Members(q) \/ x \in Members(o)
  BY <1>2
<1>6. CASE Len(s) <= MaxRetired
  <2>1. Members(q) \subseteq Members(s)
    BY <1>3 DEF Members
  <2>2. ASSUME NEW j \in 1 .. Len(o) PROVE o[j] \in Members(s)
    <3>1. Len(q) + j \in 1 .. Len(s)
      BY <1>3
    <3> QED
      BY <1>3, <3>1 DEF Members
  <2>3. Members(o) \subseteq Members(s)
    BY <2>2 DEF Members
  <2>4. gone \subseteq Members(r)
    BY <1>4, <1>5, <1>6, <2>1, <2>3
  <2>5. AgesTo(q, gone, r, 0)
    BY <1>3, <1>4, <1>6, <2>4 DEF AgesTo
  <2> QED
    BY <1>3, <1>4, <2>5
<1>7. CASE Len(s) > MaxRetired
  <2> DEFINE e == Len(s) - MaxRetired
  <2>1. /\ e \in Nat /\ e > 0 /\ Len(r) = MaxRetired
        /\ \A i \in 1 .. MaxRetired : r[i] = s[e + i]
    BY <1>3, <1>4, <1>7
  <2>2. CASE e <= Len(q)
    <3>1. \A i \in 1 .. Len(q) - e : r[i] = q[e + i]
      <4>1. ASSUME NEW i \in 1 .. Len(q) - e PROVE r[i] = q[e + i]
        <5>1. i \in 1 .. MaxRetired /\ e + i \in 1 .. Len(q)
          BY <1>3, <2>1, <2>2
        <5> QED
          BY <1>3, <2>1, <5>1
      <4> QED
        BY <4>1
    <3>2. ASSUME NEW j \in 1 .. Len(q) PROVE q[j] \in Members(r) \cup {q[i] : i \in 1 .. e}
      <4>1. CASE j <= e
        BY <2>1, <4>1
      <4>2. CASE j > e
        <5>1. j - e \in 1 .. Len(q) - e /\ j - e \in 1 .. Len(r) /\ e + (j - e) = j
          BY <1>3, <2>1, <2>2, <4>2
        <5>2. r[j - e] = q[j]
          BY <3>1, <5>1
        <5> QED
          BY <5>1, <5>2 DEF Members
      <4> QED
        BY <1>3, <2>1, <4>1, <4>2
    <3>3. ASSUME NEW j \in 1 .. Len(o) PROVE o[j] \in Members(r)
      <4>1. /\ Len(q) + j - e \in 1 .. MaxRetired
            /\ e + (Len(q) + j - e) = Len(q) + j
        BY <1>3, <2>1, <2>2
      <4>2. r[Len(q) + j - e] = o[j]
        BY <1>3, <2>1, <4>1
      <4> QED
        BY <2>1, <4>1, <4>2 DEF Members
    <3>4. gone \subseteq Members(r) \cup {q[i] : i \in 1 .. e}
      BY <1>5, <3>2, <3>3 DEF Members
    <3>5. Len(q) - e <= Len(r)
      BY <1>3, <2>1
    <3>6. AgesTo(q, gone, r, e)
      BY <2>1, <3>1, <3>4, <3>5 DEF AgesTo
    <3>7. e \in 0 .. Len(q)
      BY <1>3, <2>1, <2>2
    <3> QED
      BY <1>4, <3>6, <3>7
  <2>3. CASE e > Len(q)
    <3>1. ASSUME NEW i \in 1 .. Len(r) PROVE r[i] \in Members(o)
      <4>1. /\ e + i - Len(q) \in 1 .. Len(o)
            /\ Len(q) + (e + i - Len(q)) = e + i
        BY <1>3, <2>1, <2>3
      <4>2. r[i] = o[e + i - Len(q)]
        BY <1>3, <2>1, <4>1
      <4> QED
        BY <4>1, <4>2 DEF Members
    <3>2. Members(q) \cap Members(r) = {}
      BY <1>2, <3>1 DEF Members
    <3>3. Len(q) - Len(q) <= Len(r) /\ 1 .. Len(q) - Len(q) = {}
      BY <1>3, <2>1
    <3>4. AgesTo(q, gone, r, Len(q))
      BY <2>1, <3>2, <3>3 DEF AgesTo
    <3> QED
      BY <1>3, <1>4, <3>4
  <2> QED
    BY <1>3, <2>1, <2>2, <2>3
<1> QED
  BY <1>3, <1>6, <1>7

\* A copy with another list loses what its list of the retired loses.
LEMMA AgesLoses ==
  ASSUME NEW c \in Caches, NEW d \in Caches, NEW gone, NEW k \in 0 .. Len(c.retired),
         AgesTo(c.retired, gone, d.retired, k), c.live \ d.live \subseteq gone
  PROVE  LosesOldest(c, d, k)
<1>1. CASE gone \subseteq Members(d.retired) \cup {c.retired[i] : i \in 1 .. k}
  <2>1. Candidates(c) \subseteq Known(d) \cup {c.retired[i] : i \in 1 .. k}
    BY <1>1 DEF Candidates, Known
  <2> QED
    BY <2>1 DEF AgesTo, LosesOldest
<1>2. CASE ~(gone \subseteq Members(d.retired) \cup {c.retired[i] : i \in 1 .. k})
  BY <1>2 DEF AgesTo, LosesOldest
<1> QED
  BY <1>1, <1>2

\* A copy that lists what it did loses nothing.
LEMMA SameLoses ==
  ASSUME NEW c \in Caches, NEW d \in Caches, d.live = c.live, d.retired = c.retired
  PROVE  \E k \in 0 .. Len(c.retired) : LosesOldest(c, d, k)
<1>1. Len(c.retired) \in Nat
  BY DEF Caches
<1>2. Candidates(c) \subseteq Known(d)
  BY DEF Known, Candidates
<1>3. LosesOldest(c, d, 0)
  BY <1>1, <1>2 DEF LosesOldest
<1> QED
  BY <1>1, <1>3

\* An adopted answer keeps serial and stamp.
LEMMA AdoptedType ==
  ASSUME NEW c \in Caches, NEW list \in SUBSET Addrs, NEW d \in Adopted(c, list)
  PROVE  /\ d \in Caches /\ d.serial = c.serial /\ d.age = c.age
         /\ \E k \in 0 .. Len(c.retired) : LosesOldest(c, d, k)
<1>1. PICK r \in Remembered(c.retired, c.live \ list) :
        d = [c EXCEPT !.live = list, !.retired = r]
  BY DEF Adopted
<1>2. c.retired \in Seq(Addrs) /\ c.live \ list \in SUBSET Addrs
  BY DEF Caches
<1>3. PICK k \in 0 .. Len(c.retired) :
        r \in Seq(Addrs) /\ AgesTo(c.retired, c.live \ list, r, k)
  BY <1>2, RememberedType
<1>4. d \in Caches /\ d.serial = c.serial /\ d.age = c.age
  BY <1>1, <1>3 DEF Caches
<1>5. d.live = list /\ d.retired = r
  BY <1>1 DEF Caches
<1> QED
  BY <1>3, <1>4, <1>5, AgesLoses

\* An adopted manifest keeps the stamp and brings its serial.
LEMMA ManifestType ==
  ASSUME NEW c \in Caches, NEW m \in Manifests, NEW d \in AdoptedManifest(c, m)
  PROVE  /\ d \in Caches /\ d.serial = m.serial /\ d.age = c.age
         /\ \E k \in 0 .. Len(c.retired) : LosesOldest(c, d, k)
<1> DEFINE gone == (c.live \ m.live) \cup m.retired
<1>1. PICK r \in Remembered(c.retired, gone) :
        d = [c EXCEPT !.live = m.live, !.retired = r, !.serial = m.serial]
  BY DEF AdoptedManifest
<1>2. /\ c.retired \in Seq(Addrs) /\ gone \in SUBSET Addrs
      /\ m.live \in SUBSET Addrs /\ m.serial \in Nat
  BY DEF Caches, Manifests
<1>3. PICK k \in 0 .. Len(c.retired) : r \in Seq(Addrs) /\ AgesTo(c.retired, gone, r, k)
  <2> HIDE DEF gone
  <2> QED
    BY <1>2, RememberedType
<1>4. d \in Caches /\ d.serial = m.serial /\ d.age = c.age
  BY <1>1, <1>2, <1>3 DEF Caches
<1>5. d.live = m.live /\ d.retired = r /\ c.live \ m.live \subseteq gone
  BY <1>1 DEF Caches
<1> HIDE DEF gone
<1> QED
  BY <1>3, <1>4, <1>5, AgesLoses

-----------------------------------------------------------------------------
(* Types *)

\* A task with nothing in hand.
LEMMA FreshType ==
  ASSUME NEW p \in {"idle", "self", "learn", "claim", "lookup", "adopt", "fetch",
                    "manifest", "probe", "build", "send", "release"}
  PROVE  /\ Fresh(p) \in States /\ Fresh(p).pc = p /\ Fresh(p).seen = OldManifest
         /\ [Fresh(p) EXCEPT !.second = TRUE] \in States
         /\ Rest \in States /\ Rest.pc = "idle"
<1>1. OldManifest \in Manifests
  BY AddressAssumption DEF OldManifest, Manifests
<1> QED
  BY <1>1 DEF Fresh, Rest, States

\* A task that asks the resolver where it is.
LEMMA AskingType ==
  ASSUME NEW list \in SUBSET Addrs
  PROVE  Asking(list) \in States
<1>1. Fresh("self") \in States
  BY FreshType
<1> QED
  BY <1>1 DEF Asking, States

\* What follows a search, a learn or a call for a search is a state of a task.
LEMMA FollowType ==
  ASSUME TypeOK, NEW t \in Tasks, NEW changed \in BOOLEAN
  PROVE  Ended(t, changed) \in States /\ Learnt(t, changed) \in States
<1>1. /\ Fresh("build") \in States /\ Fresh("release") \in States
      /\ Fresh("probe") \in States /\ Rest \in States
  BY FreshType
<1> QED
  BY <1>1 DEF Ended, Learnt

\* A call for a search leaves every task in a state of a task.
LEMMA WokenType ==
  ASSUME NEW tasks \in [Tasks -> States], NEW s \in Searches
  PROVE  Woken(tasks, s) \in [Tasks -> States]
<1>1. Fresh("claim") \in States
  BY FreshType
<1> QED
  BY <1>1 DEF Woken

\* An event paid for, or free, leaves a budget.
LEMMA SpendType ==
  ASSUME TypeOK, NEW k \in Kinds, Spend(k) \/ Free
  PROVE  left' \in [Kinds -> Nat]
BY DEF TypeOK, Spend, Free, Kinds

\* Storing a copy leaves it in memory, and on disk that or what was there.
LEMMA KeepType ==
  ASSUME TypeOK, NEW c \in Caches, Keep(c)
  PROVE  /\ file' \in Caches /\ cache' = c /\ file' \in {file, c} /\ UNCHANGED running
         /\ left' \in [Kinds -> Nat]
<1>1. left' \in [Kinds -> Nat]
  BY SpendType DEF Keep, Kinds
<1> QED
  BY <1>1 DEF TypeOK, Keep, Stored

\* Storing is not the end of a process.
LEMMA KeepRunning ==
  ASSUME NEW c, Keep(c)
  PROVE  UNCHANGED running
BY DEF Keep, Stored

\* Another stamp changes nothing else of a copy.
LEMMA StampType ==
  ASSUME NEW c \in Caches, NEW a \in (0 - Back) .. Cooldown
  PROVE  /\ [c EXCEPT !.age = a] \in Caches
         /\ [c EXCEPT !.age = a].age = a /\ [c EXCEPT !.age = a].serial = c.serial
         /\ [c EXCEPT !.age = a].live = c.live /\ [c EXCEPT !.age = a].retired = c.retired
BY DEF Caches

\* A copy a tick older is a copy.
LEMMA LaterType ==
  ASSUME NEW c \in Caches
  PROVE  [c EXCEPT !.age = Later(@)] \in Caches
<1>1. Later(c.age) \in (0 - Back) .. Cooldown
  BY TimingAssumption DEF Later, Caches
<1> QED
  BY <1>1, StampType

\* A copy after a jump of the clock is a copy.
LEMMA EarlierType ==
  ASSUME NEW c \in Caches, NEW d \in 1 .. Back, NEW a \in Earlier(c.age, d)
  PROVE  [c EXCEPT !.age = a] \in Caches
<1>1. a \in (0 - Back) .. Cooldown
  BY TimingAssumption DEF Earlier, Caches
<1> QED
  BY <1>1, StampType

\* A step of a task that only moves on, or hears something.
LEMMA TaskType ==
  ASSUME TypeOK, NEW t \in Tasks,
         NEW p \in {"idle", "self", "learn", "claim", "lookup", "adopt", "fetch",
                    "manifest", "probe", "build", "send", "release"},
         NEW a \in SUBSET Addrs, NEW m \in Manifests, NEW r \in BOOLEAN
  PROVE  /\ Step(t, p) \in States
         /\ [Step(t, p) EXCEPT !.heard = a] \in States
         /\ [Step(t, p) EXCEPT !.heard = a, !.reached = r] \in States
         /\ [Step(t, p) EXCEPT !.seen = m, !.reached = r] \in States
         /\ [Step(t, p) EXCEPT !.reached = r] \in States
BY DEF TypeOK, States, Step

\* The initial state has the types.
LEMMA TypeInit == Init => TypeOK
<1>1. OldManifest \in Manifests /\ FirstManifest \in Manifests
  BY AddressAssumption DEF OldManifest, FirstManifest, Manifests
<1>2. NothingLearnt \in Caches
  BY TimingAssumption DEF NothingLearnt, Caches
<1>3. Rest \in States
  BY FreshType
<1>4. BuiltIn \in SUBSET Addrs
  BY AddressAssumption
<1>5. 0 \in 0 .. (Threshold - 1) /\ 0 \in 0 .. Cooldown
  BY TimingAssumption
<1> QED
  BY <1>1, <1>2, <1>3, <1>4, <1>5, EventAssumption DEF Init, TypeOK

\* Every step of a task keeps the types.
LEMMA TypeTask ==
  ASSUME TypeOK, NEW t \in Tasks, TaskStep(t)
  PROVE  TypeOK'
<1> USE DEF world, store, stub
<1>0. /\ task \in [Tasks -> States] /\ cache \in Caches /\ file \in Caches
      /\ home \in SUBSET Addrs /\ task[t].heard \in SUBSET Addrs
      /\ task[t].seen \in Manifests /\ online \in BOOLEAN
      /\ cache.live \in SUBSET Addrs /\ BuiltIn \in SUBSET Addrs
  BY AddressAssumption DEF TypeOK, States, Caches
<1>1. CASE SelfAnswered(t)
  <2>1. \A a \in {home, {}} : [Step(t, "learn") EXCEPT !.heard = a] \in States
    BY <1>0, TaskType
  <2>2. left' \in [Kinds -> Nat]
    BY <1>1, SpendType DEF SelfAnswered, Kinds
  <2> QED
    BY <1>0, <1>1, <2>1, <2>2 DEF TypeOK, SelfAnswered
<1>2. CASE SelfSilent(t)
  <2>1. Fresh("claim") \in States /\ Rest \in States
    BY FreshType
  <2>2. left' \in [Kinds -> Nat]
    BY <1>2, SpendType DEF SelfSilent, Kinds
  <2>3. [task EXCEPT ![t] = Rest] \in [Tasks -> States]
    BY <1>0, <2>1
  <2>4. Woken([task EXCEPT ![t] = Rest], SearchOf(t)) \in [Tasks -> States]
    BY <2>3, WokenType
  <2>5. task' \in [Tasks -> States]
    BY <1>0, <1>2, <2>1, <2>4 DEF SelfSilent
  <2>6. searching' \in [Searches -> BOOLEAN]
    BY <1>2 DEF SelfSilent, TypeOK
  <2> QED
    BY <1>2, <2>2, <2>5, <2>6 DEF TypeOK, SelfSilent
<1>3. CASE Learn(t)
  <2> DEFINE list == task[t].heard
             news == list # {} /\ list # Using(cache)
  <2>1. task' \in [Tasks -> States]
    <3>1. news \in BOOLEAN
      OBVIOUS
    <3>2. Learnt(t, news) \in States
      <4> HIDE DEF news
      <4> QED BY <3>1, FollowType
    <3> QED
      BY <1>0, <1>3, <3>2 DEF Learn
  <2>2. fails' \in 0 .. (Threshold - 1)
    BY <1>3, TimingAssumption DEF TypeOK, Learn
  <2>3. CASE list = {}
    BY <1>3, <2>1, <2>2, <2>3 DEF TypeOK, Learn
  <2>4. CASE list # {}
    <3>1. PICK c \in Adopted(cache, list) : Keep(c)
      BY <1>3, <2>4 DEF Learn
    <3>2. c \in Caches
      BY <1>0, AdoptedType
    <3>3. file' \in Caches /\ cache' \in Caches /\ UNCHANGED running
          /\ left' \in [Kinds -> Nat]
      BY <3>1, <3>2, KeepType, <1>0
    <3>4. owed' \in 0 .. Cooldown
      BY <1>3, <2>4, TimingAssumption DEF TypeOK, Learn, Waiting
    <3> QED
      BY <1>3, <2>1, <2>2, <3>3, <3>4 DEF TypeOK, Learn
  <2> QED
    BY <2>3, <2>4
<1>4. CASE Refused(t)
  <2>1. Ended(t, FALSE) \in States
    BY FollowType
  <2> QED
    BY <1>0, <1>4, <2>1 DEF TypeOK, Refused, Free
<1>5. CASE Granted(t)
  <2>1. [cache EXCEPT !.age = 0] \in Caches
    BY <1>0, TimingAssumption, StampType
  <2>2. file' \in Caches /\ cache' \in Caches /\ UNCHANGED running
        /\ left' \in [Kinds -> Nat]
    BY <1>0, <1>5, <2>1, KeepType DEF Granted
  <2>3. owed' \in 0 .. Cooldown
    BY <1>5, TimingAssumption DEF Granted, Waiting
  <2>4. Step(t, "lookup") \in States
    BY <1>0, TaskType
  <2> QED
    BY <1>0, <1>5, <2>2, <2>3, <2>4 DEF TypeOK, Granted, Goto
<1>6. CASE LookedUp(t)
  <2>1. [Step(t, "adopt") EXCEPT !.heard = home, !.reached = TRUE] \in States
    BY <1>0, TaskType
  <2>2. \A r \in {FALSE, online} : [Step(t, "fetch") EXCEPT !.reached = r] \in States
    BY <1>0, TaskType
  <2>3. left' \in [Kinds -> Nat]
    BY <1>6, SpendType DEF LookedUp, Kinds
  <2>4. task' \in [Tasks -> States]
    BY <1>0, <1>6, <2>1, <2>2 DEF LookedUp
  <2> QED
    BY <1>6, <2>3, <2>4 DEF TypeOK, LookedUp
<1>7. CASE AdoptLookup(t)
  <2>1. PICK c \in Adopted(cache, task[t].heard) : Keep(c)
    BY <1>7 DEF AdoptLookup
  <2>2. c \in Caches
    BY <1>0, AdoptedType
  <2>3. file' \in Caches /\ cache' \in Caches /\ UNCHANGED running
        /\ left' \in [Kinds -> Nat]
    BY <1>0, <2>1, <2>2, KeepType
  <2>4. owed' \in 0 .. Cooldown
    BY <1>7, TimingAssumption DEF TypeOK, AdoptLookup, Waiting
  <2>5. Ended(t, TRUE) \in States /\ [Step(t, "fetch") EXCEPT !.heard = {}] \in States
    BY <1>0, FollowType, TaskType
  <2>6. task' \in [Tasks -> States]
    BY <1>0, <1>7, <2>5 DEF AdoptLookup
  <2> QED
    BY <1>7, <2>3, <2>4, <2>6 DEF TypeOK, AdoptLookup
<1>8. CASE Fetched(t)
  <2>1. published \in Manifests /\ OldManifest \in Manifests
    BY AddressAssumption DEF TypeOK, OldManifest, Manifests
  <2>2. \A m \in {published, OldManifest} :
          [Step(t, "manifest") EXCEPT !.seen = m, !.reached = TRUE] \in States
    BY <1>0, <2>1, TaskType
  <2>3. left' \in [Kinds -> Nat]
    BY <1>8, SpendType DEF Fetched, Kinds
  <2>4. task' \in [Tasks -> States]
    BY <1>0, <1>8, <2>2 DEF Fetched
  <2> QED
    BY <1>8, <2>3, <2>4 DEF TypeOK, Fetched
<1>9. CASE NotFetched(t)
  <2>1. Ended(t, FALSE) \in States
    BY FollowType
  <2>2. left' \in [Kinds -> Nat]
    BY <1>9, SpendType DEF NotFetched, Kinds
  <2>3. task' \in [Tasks -> States]
    BY <1>0, <1>9, <2>1 DEF NotFetched
  <2>4. CASE task[t].reached
    BY <1>9, <2>2, <2>3, <2>4 DEF TypeOK, NotFetched
  <2>5. CASE ~task[t].reached
    <3>1. [cache EXCEPT !.age = Cooldown - Short] \in Caches
      <4>1. Cooldown - Short \in (0 - Back) .. Cooldown
        BY TimingAssumption
      <4> QED
        BY <1>0, <4>1, StampType
    <3>2. file' \in Caches /\ cache' \in Caches /\ UNCHANGED running
      BY <1>0, <1>9, <2>5, <3>1 DEF NotFetched, Stored
    <3>3. owed' \in 0 .. Cooldown
      BY <1>9, <2>5, TimingAssumption DEF NotFetched, Waiting
    <3> QED
      BY <1>9, <2>2, <2>3, <3>2, <3>3 DEF TypeOK, NotFetched
  <2> QED
    BY <2>4, <2>5
<1>10. CASE AdoptManifest(t)
  <2> DEFINE m == task[t].seen
             news == ~Refuses(cache, m) /\ m.live # Using(cache)
  <2>1. task' \in [Tasks -> States]
    <3>1. news \in BOOLEAN
      OBVIOUS
    <3>2. Ended(t, news) \in States
      <4> HIDE DEF news
      <4> QED BY <3>1, FollowType
    <3> QED
      BY <1>0, <1>10, <3>2 DEF AdoptManifest
  <2>2. CASE Refuses(cache, m)
    BY <1>10, <2>1, <2>2 DEF TypeOK, AdoptManifest
  <2>3. CASE ~Refuses(cache, m)
    <3>1. PICK c \in AdoptedManifest(cache, m) : Keep(c)
      BY <1>10, <2>3 DEF AdoptManifest
    <3>2. c \in Caches
      BY <1>0, ManifestType
    <3>3. file' \in Caches /\ cache' \in Caches /\ UNCHANGED running
          /\ left' \in [Kinds -> Nat]
      BY <1>0, <3>1, <3>2, KeepType
    <3>4. owed' \in 0 .. Cooldown
      BY <1>10, <2>3, TimingAssumption DEF TypeOK, AdoptManifest, Waiting
    <3> QED
      BY <1>10, <2>1, <3>3, <3>4 DEF TypeOK, AdoptManifest
  <2> QED
    BY <2>2, <2>3
<1>11. CASE Build(t)
  <2>1. Candidates(cache) \in SUBSET Addrs
    BY <1>0 DEF Candidates
  <2>2. [Step(t, "send") EXCEPT !.heard = Candidates(cache)] \in States
    BY <1>0, <2>1, TaskType
  <2> QED
    BY <1>0, <1>11, <2>2 DEF TypeOK, Build, Free
<1>12. CASE Send(t)
  <2>1. Fresh("release") \in States /\ Rest \in States
    BY FreshType
  <2>2. task' \in [Tasks -> States]
    BY <1>0, <1>12, <2>1 DEF Send
  <2> QED
    BY <1>0, <1>12, <2>2, TimingAssumption DEF TypeOK, Send, Free
<1> QED
  BY <1>1, <1>2, <1>3, <1>4, <1>5, <1>6, <1>7, <1>8, <1>9, <1>10, <1>11, <1>12
  DEF TaskStep

\* Every step keeps the types (one step per action).
LEMMA TypeNext == TypeOK /\ [Next]_vars => TypeOK'
<1> SUFFICES ASSUME TypeOK, [Next]_vars PROVE TypeOK'
  OBVIOUS
<1> USE DEF world, store, stub
<1>0. /\ task \in [Tasks -> States] /\ cache \in Caches /\ file \in Caches
      /\ BuiltIn \in SUBSET Addrs /\ "search" \in Tasks /\ "watch" \in Tasks
      /\ "warm" \in Tasks
  BY AddressAssumption DEF TypeOK, Tasks
<1>t. /\ Rest \in States
      /\ [Fresh("claim") EXCEPT !.second = TRUE] \in States
  BY FreshType
<1>f. 0 \in 0 .. (Threshold - 1)
  BY TimingAssumption
<1>1. ASSUME NEW t \in Tasks, TaskStep(t) PROVE TypeOK'
  BY <1>1, TypeTask
<1>2. CASE CutOff
  <2>1. Ended("watch", FALSE) \in States
    BY <1>0, FollowType
  <2>2. left' \in [Kinds -> Nat]
    BY <1>2, SpendType DEF CutOff, Kinds
  <2>3. task' \in [Tasks -> States]
    BY <1>0, <1>2, <2>1 DEF CutOff
  <2> QED
    BY <1>2, <2>2, <2>3 DEF TypeOK, CutOff
<1>3. CASE Probe
  <2>1. task' \in [Tasks -> States]
    BY <1>0, <1>3, <1>t DEF Probe
  <2> QED
    BY <1>3, <2>1 DEF TypeOK, Probe, Free
<1>4. ASSUME NEW s \in Searches, Release(s) PROVE TypeOK'
  <2>1. task' \in [Tasks -> States]
    BY <1>0, <1>4, <1>t DEF Release
  <2>2. searching' \in [Searches -> BOOLEAN]
    BY <1>4 DEF Release, TypeOK
  <2> QED
    BY <1>4, <2>1, <2>2 DEF TypeOK, Release, Free
<1>5. CASE QueryAnswered
  BY <1>5, <1>f DEF TypeOK, QueryAnswered, Free
<1>6. CASE QueryFails \/ QueryLost
  <2>1. left' \in [Kinds -> Nat]
    BY <1>6, SpendType DEF QueryFails, QueryLost, Kinds
  <2>2. Failure
    BY <1>6 DEF QueryFails, QueryLost
  <2>3. fails' \in 0 .. (Threshold - 1)
    BY <2>2, TimingAssumption DEF TypeOK, Failure
  <2>4. task' \in [Tasks -> States]
    BY <1>0, <2>2, WokenType DEF Failure
  <2>5. searching' \in [Searches -> BOOLEAN]
    BY <2>2 DEF Failure, TypeOK
  <2> QED
    BY <2>1, <2>2, <2>3, <2>4, <2>5 DEF TypeOK, Failure
<1>7. CASE Start
  <2>1. Candidates(file) \in SUBSET Addrs
    BY <1>0 DEF Candidates, Caches
  <2>2. task' \in [Tasks -> States]
    BY <1>0, <1>7, <2>1, AskingType DEF Start
  <2> QED
    BY <1>7, <1>f, <2>1, <2>2 DEF TypeOK, Start, Free
<1>r. CASE Restart
  <2>1. Candidates(cache) \in SUBSET Addrs
    BY <1>0 DEF Candidates, Caches
  <2>2. task["warm"] \in States /\ task["search"] \in States /\ Asking(Candidates(cache)) \in States
    BY <1>0, <2>1, AskingType
  <2>3. task' \in [Tasks -> States]
    BY <1>0, <1>r, <1>t, <2>2 DEF Restart
  <2>4. searching' \in [Searches -> BOOLEAN]
    BY <1>r DEF Restart, TypeOK
  <2>5. left' \in [Kinds -> Nat]
    BY <1>r, SpendType DEF Restart, Kinds
  <2> QED
    BY <1>r, <1>f, <2>1, <2>3, <2>4, <2>5 DEF TypeOK, Restart
<1>8. CASE WatchEndpoints
  <2>1. Candidates(cache) \in SUBSET Addrs
    BY <1>0 DEF Candidates, Caches
  <2>2. Asking(Candidates(cache)) \in States
    BY <2>1, AskingType
  <2> QED
    BY <1>0, <1>8, <2>2 DEF TypeOK, WatchEndpoints, Free
<1>9. CASE Crash
  <2>1. NothingLearnt \in Caches
    BY TimingAssumption DEF NothingLearnt, Caches
  <2>2. left' \in [Kinds -> Nat]
    BY <1>9, SpendType DEF Crash, Kinds
  <2> QED
    BY <1>9, <1>t, <1>f, <2>1, <2>2 DEF TypeOK, Crash
<1>10. ASSUME NEW list \in Homes, Move(list) PROVE TypeOK'
  <2>1. list \in SUBSET Addrs
    BY AddressAssumption
  <2>2. left' \in [Kinds -> Nat]
    BY <1>10, SpendType DEF Move, Kinds
  <2> QED
    BY <1>10, <2>1, <2>2 DEF TypeOK, Move
<1>11. CASE Publish
  <2>1. left' \in [Kinds -> Nat]
    BY <1>11, SpendType DEF Publish, Kinds
  <2>2. published' \in Manifests
    BY <1>11 DEF TypeOK, Publish, Manifests
  <2> QED
    BY <1>11, <2>1, <2>2 DEF TypeOK, Publish
<1>12. CASE NetChange
  <2>1. left' \in [Kinds -> Nat]
    BY <1>12, SpendType DEF NetChange, Kinds
  <2> QED
    BY <1>12, <2>1 DEF TypeOK, NetChange
<1>13. CASE Tick
  <2>1. \A c \in Caches : [c EXCEPT !.age = Later(@)] \in Caches
    BY LaterType
  <2>2. owed' \in 0 .. Cooldown
    BY <1>13, TimingAssumption DEF TypeOK, Tick
  <2> QED
    BY <1>0, <1>13, <2>1, <2>2 DEF TypeOK, Tick, Free
<1>14. ASSUME NEW d \in 1 .. Back, ClockBack(d) PROVE TypeOK'
  <2>1. file' \in Caches /\ cache' \in Caches
    BY <1>0, <1>14, EarlierType DEF ClockBack
  <2>2. left' \in [Kinds -> Nat]
    BY <1>14, SpendType DEF ClockBack, Kinds
  <2>3. owed' \in 0 .. Cooldown
    BY <1>14, TimingAssumption DEF ClockBack
  <2> QED
    BY <1>14, <2>1, <2>2, <2>3 DEF TypeOK, ClockBack
<1>15. CASE UNCHANGED vars
  BY <1>15 DEF TypeOK, vars
<1> QED
  BY <1>1, <1>2, <1>3, <1>4, <1>5, <1>6, <1>7, <1>r, <1>8, <1>9, <1>10, <1>11, <1>12,
     <1>13, <1>14, <1>15
  DEF Next, Queries, Lifecycle, Outside

-----------------------------------------------------------------------------
(* Where the tasks are *)

\* A task goes on along its path, a search not to its end.
LEMMA Moved ==
  ASSUME TypeOK, Control, NEW t \in Tasks, ~At(t, "idle"),
         \A u \in Tasks \ {t} : task'[u] = task[u],
         task'[t].pc \in Path(t), t \in Searches => task'[t].pc # "idle",
         UNCHANGED <<running, searching>>
  PROVE  Control'
<1>1. Places'
  BY DEF Control, Places
<1>2. Quiet'
  BY DEF Control, Quiet
<1>3. FlagMeansSearch'
  BY DEF Control, FlagMeansSearch, At, Tasks
<1> QED
  BY <1>1, <1>2, <1>3 DEF Control

\* A search is called for: there is one afterwards, and the flag is up.
LEMMA Called ==
  ASSUME TypeOK, Control, NEW s \in Searches, NEW tasks \in [Tasks -> States],
         \A t \in Tasks : tasks[t].pc \in Path(t),
         \A u \in Searches : tasks[u] = task[u],
         running, running', task' = Woken(tasks, s),
         searching' = [searching EXCEPT ![s] = TRUE]
  PROVE  Control'
<1>1. Fresh("claim") \in States /\ Fresh("claim").pc = "claim"
  BY FreshType
<1>s. /\ searching'[s] /\ \A u \in Searches \ {s} : searching'[u] = searching[u]
  BY DEF TypeOK
<1>2. CASE searching[s]
  BY <1>s, <1>2 DEF Control, Places, Quiet, FlagMeansSearch, At, Woken
<1>3. CASE ~searching[s]
  <2>1. task' = [tasks EXCEPT ![s] = Fresh("claim")]
    BY <1>3 DEF Woken
  <2>2. task'[s] = Fresh("claim") /\ \A t \in Tasks \ {s} : task'[t] = tasks[t]
    BY <2>1 DEF Tasks
  <2> QED
    BY <1>1, <1>s, <2>2 DEF Control, Places, Path, Quiet, FlagMeansSearch, At, Tasks
<1> QED
  BY <1>2, <1>3

\* Every step of a task keeps it on its path.
LEMMA ControlTask ==
  ASSUME TypeOK, Control, NEW t \in Tasks, TaskStep(t)
  PROVE  Control'
<1> USE DEF store, stub
<1>1. /\ task \in [Tasks -> States] /\ task[t] \in States
      /\ task[t].pc \in Path(t)
  BY DEF TypeOK, Control, Places
<1>2. \A p \in {"idle", "self", "learn", "claim", "lookup", "adopt", "fetch",
                 "manifest", "probe", "build", "send", "release"} :
        /\ Fresh(p) \in States /\ Fresh(p).pc = p
        /\ Rest \in States /\ Rest.pc = "idle"
  BY FreshType
<1>3. \A changed \in BOOLEAN :
        ~At(t, "idle") /\ t \notin Warms =>
          /\ Ended(t, changed) \in States /\ Ended(t, changed).pc \in Path(t)
          /\ t \in Searches => Ended(t, changed).pc # "idle"
  BY <1>1, <1>2, FollowType DEF Ended, Path, Tasks
<1>5. CASE SelfAnswered(t)
  <2>1. "learn" \in Path(t) /\ home \in SUBSET Addrs /\ t \notin Searches
    BY <1>1, <1>5 DEF SelfAnswered, At, Path, TypeOK, Tasks
  <2>2. PICK a \in {home, {}} :
          task' = [task EXCEPT ![t] = [Step(t, "learn") EXCEPT !.heard = a]]
    BY <1>5 DEF SelfAnswered
  <2>3. task'[t].pc = "learn" /\ \A u \in Tasks \ {t} : task'[u] = task[u]
    BY <1>1, <2>2 DEF Step, States
  <2> QED
    BY <1>5, <2>1, <2>3, Moved DEF SelfAnswered, At
<1>6. CASE SelfSilent(t)
  <2>1. t \in Warms \cup {"watch"} /\ running /\ running' = running
    BY <1>1, <1>6 DEF SelfSilent, At, Path, Tasks, Control, Quiet
  <2>2. CASE t \in Warms
    <3> DEFINE tasks == [task EXCEPT ![t] = Rest]
    <3>1. /\ tasks \in [Tasks -> States] /\ \A u \in Searches : tasks[u] = task[u]
          /\ \A u \in Tasks : tasks[u].pc \in Path(u)
      BY <1>1, <1>2, <2>2 DEF Control, Places, Path, Tasks
    <3>2. /\ SearchOf(t) \in Searches /\ task' = Woken(tasks, SearchOf(t))
          /\ searching' = [searching EXCEPT ![SearchOf(t)] = TRUE]
      BY <1>6, <2>2 DEF SelfSilent
    <3> HIDE DEF tasks, SearchOf
    <3> QED
      BY <2>1, <3>1, <3>2, Called
  <2>3. CASE t = "watch"
    <3>1. task' = [task EXCEPT ![t] = Fresh("claim")] /\ searching' = searching
      BY <1>6, <2>3 DEF SelfSilent, TypeOK
    <3>2. task'[t].pc = "claim" /\ \A u \in Tasks \ {t} : task'[u] = task[u]
      BY <1>1, <1>2, <3>1
    <3>3. ~At(t, "idle") /\ t \notin Searches /\ "claim" \in Path(t)
      BY <1>6, <2>3 DEF SelfSilent, At, Path
    <3> QED
      BY <2>1, <3>1, <3>2, <3>3, Moved
  <2> QED
    BY <2>1, <2>2, <2>3
<1>7. CASE Learn(t)
  <2>1. t \in Warms \cup {"watch"} /\ ~At(t, "idle")
    BY <1>1, <1>7 DEF Learn, At, Path, Tasks
  <2>2. PICK changed \in BOOLEAN : task' = [task EXCEPT ![t] = Learnt(t, changed)]
    BY <1>7 DEF Learn
  <2>3. Learnt(t, changed) \in States /\ Learnt(t, changed).pc \in Path(t)
    BY <1>2, <2>1 DEF Learnt, Path
  <2>4. UNCHANGED <<running, searching>>
    BY <1>7, KeepRunning DEF Learn
  <2>5. task'[t] = Learnt(t, changed) /\ \A u \in Tasks \ {t} : task'[u] = task[u]
    BY <1>1, <2>2
  <2> QED
    BY <2>1, <2>3, <2>4, <2>5, Moved
<1>8. CASE Refused(t)
  <2>1. t \notin Warms /\ ~At(t, "idle")
    BY <1>1, <1>8 DEF Refused, At, Path
  <2>2. task'[t] = Ended(t, FALSE) /\ \A u \in Tasks \ {t} : task'[u] = task[u]
    BY <1>1, <1>8 DEF Refused
  <2> QED
    BY <1>3, <1>8, <2>1, <2>2, Moved DEF Refused
<1>9. CASE Granted(t)
  <2>1. "lookup" \in Path(t) /\ ~At(t, "idle")
    BY <1>1, <1>9 DEF Granted, At, Path
  <2>2. UNCHANGED <<running, searching>>
    BY <1>9, KeepRunning DEF Granted
  <2>3. task'[t].pc = "lookup" /\ \A u \in Tasks \ {t} : task'[u] = task[u]
    BY <1>1, <1>9 DEF Granted, Goto, Step, States
  <2> QED
    BY <2>1, <2>2, <2>3, Moved
<1>10. CASE LookedUp(t)
  <2>1. {"adopt", "fetch"} \subseteq Path(t) /\ ~At(t, "idle")
        /\ home \in SUBSET Addrs /\ online \in BOOLEAN
    BY <1>1, <1>10 DEF LookedUp, At, Path, TypeOK
  <2>2. UNCHANGED <<running, searching>>
    BY <1>10 DEF LookedUp
  <2>3. /\ task'[t].pc \in {"adopt", "fetch"}
        /\ \A u \in Tasks \ {t} : task'[u] = task[u]
    <3>1. CASE task' = [task EXCEPT ![t] = [Step(t, "adopt") EXCEPT !.heard = home,
                                                                   !.reached = TRUE]]
      BY <1>1, <3>1 DEF Step, States
    <3>2. ASSUME NEW r \in BOOLEAN,
                 task' = [task EXCEPT ![t] = [Step(t, "fetch") EXCEPT !.reached = r]]
          PROVE  /\ task'[t].pc = "fetch"
                 /\ \A u \in Tasks \ {t} : task'[u] = task[u]
      BY <1>1, <3>2 DEF Step, States
    <3> QED
      BY <1>10, <2>1, <3>1, <3>2 DEF LookedUp
  <2> QED
    BY <2>1, <2>2, <2>3, Moved
<1>11. CASE AdoptLookup(t)
  <2>1. t \notin Warms /\ "fetch" \in Path(t) /\ ~At(t, "idle")
    BY <1>1, <1>11 DEF AdoptLookup, At, Path
  <2>2. UNCHANGED <<running, searching>>
    BY <1>11, KeepRunning DEF AdoptLookup
  <2>3. CASE task' = [task EXCEPT ![t] = Ended(t, TRUE)]
    <3>1. task'[t] = Ended(t, TRUE) /\ \A u \in Tasks \ {t} : task'[u] = task[u]
      BY <1>1, <2>3
    <3> QED
      BY <1>3, <2>1, <2>2, <3>1, Moved
  <2>4. CASE task' = [task EXCEPT ![t] = [Step(t, "fetch") EXCEPT !.heard = {}]]
    <3>1. task'[t].pc = "fetch" /\ \A u \in Tasks \ {t} : task'[u] = task[u]
      BY <1>1, <2>4 DEF Step, States
    <3> QED
      BY <2>1, <2>2, <3>1, Moved
  <2> QED
    BY <1>11, <2>3, <2>4 DEF AdoptLookup
<1>12. CASE Fetched(t)
  <2>1. "manifest" \in Path(t) /\ ~At(t, "idle")
        /\ published \in Manifests /\ OldManifest \in Manifests
    BY <1>1, <1>12, AddressAssumption
    DEF Fetched, At, Path, TypeOK, OldManifest, Manifests
  <2>2. PICK m \in {published, OldManifest} :
          task' = [task EXCEPT ![t] = [Step(t, "manifest") EXCEPT !.seen = m,
                                                                  !.reached = TRUE]]
    BY <1>12 DEF Fetched
  <2>3. UNCHANGED <<running, searching>>
    BY <1>12 DEF Fetched
  <2>4. task'[t].pc = "manifest" /\ \A u \in Tasks \ {t} : task'[u] = task[u]
    BY <1>1, <2>2 DEF Step, States
  <2> QED
    BY <2>1, <2>3, <2>4, Moved
<1>13. CASE NotFetched(t)
  <2>1. t \notin Warms /\ ~At(t, "idle")
    BY <1>1, <1>13 DEF NotFetched, At, Path
  <2>2. UNCHANGED <<running, searching>>
    BY <1>13 DEF NotFetched, Stored
  <2>3. task'[t] = Ended(t, FALSE) /\ \A u \in Tasks \ {t} : task'[u] = task[u]
    BY <1>1, <1>13 DEF NotFetched
  <2> QED
    BY <1>3, <2>1, <2>2, <2>3, Moved
<1>14. CASE AdoptManifest(t)
  <2>1. t \notin Warms /\ ~At(t, "idle")
    BY <1>1, <1>14 DEF AdoptManifest, At, Path
  <2>2. UNCHANGED <<running, searching>>
    BY <1>14, KeepRunning DEF AdoptManifest
  <2>3. PICK changed \in BOOLEAN : task' = [task EXCEPT ![t] = Ended(t, changed)]
    BY <1>14 DEF AdoptManifest
  <2>4. task'[t] = Ended(t, changed) /\ \A u \in Tasks \ {t} : task'[u] = task[u]
    BY <1>1, <2>3
  <2> QED
    BY <1>3, <2>1, <2>2, <2>4, Moved
<1>15. CASE Build(t)
  <2>1. "send" \in Path(t) /\ ~At(t, "idle") /\ Candidates(cache) \in SUBSET Addrs
    BY <1>1, <1>15, AddressAssumption
    DEF Build, At, Path, TypeOK, Candidates, Caches
  <2>2. task'[t].pc = "send" /\ \A u \in Tasks \ {t} : task'[u] = task[u]
    BY <1>1, <1>15 DEF Build, Step, States
  <2> QED
    BY <1>15, <2>1, <2>2, Moved DEF Build
<1>16. CASE Send(t)
  <2>1. t \in Warms \cup Searches /\ ~At(t, "idle")
    BY <1>1, <1>16 DEF Send, At, Path, Tasks
  <2>2. /\ task'[t] = IF t \in Searches THEN Fresh("release") ELSE Rest
        /\ \A u \in Tasks \ {t} : task'[u] = task[u]
    BY <1>1, <1>16 DEF Send
  <2>3. task'[t].pc \in Path(t) /\ (t \in Searches => task'[t].pc # "idle")
    BY <1>2, <2>1, <2>2 DEF Path
  <2> QED
    BY <1>16, <2>1, <2>2, <2>3, Moved DEF Send
<1> QED
  BY <1>5, <1>6, <1>7, <1>8, <1>9, <1>10, <1>11, <1>12, <1>13, <1>14, <1>15, <1>16
  DEF TaskStep

\* Every step keeps the tasks on their paths and the flag in step with the search.
LEMMA ControlNext == TypeOK /\ Control /\ [Next]_vars => Control'
<1> SUFFICES ASSUME TypeOK, Control, [Next]_vars PROVE Control'
  OBVIOUS
<1> USE DEF world, store, stub
<1>0. /\ task \in [Tasks -> States]
      /\ "search" \in Tasks /\ "watch" \in Tasks /\ "warm" \in Tasks
      /\ \A t \in Tasks : task[t].pc \in Path(t)
  BY DEF TypeOK, Tasks, Control, Places
<1>t. /\ Rest.pc = "idle" /\ \A list : Asking(list).pc = "self"
      /\ Fresh("claim").pc = "claim"
      /\ [Fresh("claim") EXCEPT !.second = TRUE].pc = "claim"
      /\ Fresh("probe").pc = "probe"
  BY DEF Fresh, Rest, Asking
<1>1. ASSUME NEW t \in Tasks, TaskStep(t) PROVE Control'
  BY <1>1, ControlTask
<1>2. CASE CutOff
  <2>1. /\ task'["watch"] = Ended("watch", FALSE) /\ ~At("watch", "idle")
        /\ \A u \in Tasks \ {"watch"} : task'[u] = task[u]
    BY <1>0, <1>2 DEF CutOff, At
  <2>2. task'["watch"].pc \in Path("watch")
    BY <1>t, <2>1 DEF Ended, Path
  <2> QED
    BY <1>0, <1>2, <2>1, <2>2, Moved DEF CutOff
<1>3. CASE Probe
  <2>1. /\ task'["watch"].pc \in {"idle", "claim"} /\ ~At("watch", "idle")
        /\ \A u \in Tasks \ {"watch"} : task'[u] = task[u]
    BY <1>0, <1>t, <1>3 DEF Probe, At
  <2>2. task'["watch"].pc \in Path("watch")
    BY <2>1 DEF Path
  <2> QED
    BY <1>0, <1>3, <2>1, <2>2, Moved DEF Probe
<1>4. ASSUME NEW s \in Searches, Release(s) PROVE Control'
  <2>0. s \in Tasks
    BY DEF Tasks
  <2>1. /\ task'[s].pc = "idle" /\ \A u \in Tasks \ {s} : task'[u] = task[u]
    BY <1>0, <1>t, <1>4, <2>0 DEF Release
  <2>2. /\ running /\ running' = running /\ ~searching'[s]
        /\ \A u \in Searches \ {s} : searching'[u] = searching[u]
    BY <1>0, <1>4, <2>0 DEF Release, Control, Quiet, At, TypeOK
  <2> QED
    BY <1>0, <2>0, <2>1, <2>2 DEF Tasks, Control, Places, Path, Quiet, FlagMeansSearch, At
<1>5. CASE QueryAnswered
  BY <1>5 DEF QueryAnswered, Control, Places, Quiet, FlagMeansSearch, At
<1>6. CASE QueryFails \/ QueryLost
  <2>1. Failure /\ running /\ running'
    BY <1>6 DEF QueryFails, QueryLost, Failure
  <2>2. CASE fails' = 0
    <3>1. task' = Woken(task, "search") /\ searching' = [searching EXCEPT !["search"] = TRUE]
      BY <2>1, <2>2 DEF Failure, TypeOK
    <3> QED
      BY <1>0, <2>1, <3>1, Called
  <2>3. CASE fails' # 0
    <3>1. UNCHANGED <<task, searching>>
      BY <2>1, <2>3 DEF Failure, TypeOK
    <3> QED
      BY <2>1, <3>1 DEF Control, Places, Quiet, FlagMeansSearch, At
  <2> QED
    BY <2>2, <2>3
<1>7. CASE Start
  <2>1. /\ task'["warm"].pc = "self" /\ \A u \in Tasks \ {"warm"} : task'[u] = task[u]
    BY <1>0, <1>t, <1>7 DEF Start
  <2>2. searching' = searching /\ running'
    BY <1>7 DEF Start
  <2> QED
    BY <1>0, <2>1, <2>2 DEF Control, Places, Path, Quiet, FlagMeansSearch, At, Tasks
<1>r. CASE Restart
  <2>1. /\ task'["warm"].pc = "self" /\ task'["search"].pc = "idle"
        /\ task'["warm0"] = task["warm"] /\ task'["search0"] = task["search"]
        /\ task'["watch"] = task["watch"]
    BY <1>0, <1>t, <1>r DEF Restart, Tasks
  <2>2. running' /\ ~searching'["search"] /\ searching'["search0"] = searching["search"]
    BY <1>r DEF Restart, TypeOK
  <2>3. Places'
    BY <1>0, <2>1 DEF Places, Path, Tasks
  <2> QED
    BY <2>1, <2>2, <2>3 DEF Control, Quiet, FlagMeansSearch, At
<1>8. CASE WatchEndpoints
  <2>1. /\ task'["watch"].pc = "self" /\ \A u \in Tasks \ {"watch"} : task'[u] = task[u]
    BY <1>0, <1>t, <1>8 DEF WatchEndpoints
  <2>2. running /\ running' = running /\ searching' = searching
    BY <1>8 DEF WatchEndpoints
  <2> QED
    BY <1>0, <2>1, <2>2 DEF Control, Places, Path, Quiet, FlagMeansSearch, At, Tasks
<1>9. CASE Crash
  <2>1. \A t \in Tasks : task'[t].pc = "idle"
    BY <1>t, <1>9 DEF Crash
  <2> QED
    BY <1>0, <1>9, <2>1 DEF Crash, Control, Places, Path, Quiet, FlagMeansSearch, At, Tasks
<1>10. CASE Outside \/ UNCHANGED vars
  <2>1. UNCHANGED <<running, searching, task>>
    BY <1>10 DEF Outside, Move, Publish, NetChange, Tick, ClockBack, vars
  <2> QED
    BY <2>1 DEF Control, Places, Quiet, FlagMeansSearch, At
<1> QED
  BY <1>1, <1>2, <1>3, <1>4, <1>5, <1>6, <1>7, <1>r, <1>8, <1>9, <1>10
  DEF Next, Queries, Lifecycle

-----------------------------------------------------------------------------
(* What is owed of a cooldown *)

\* An adoption does not touch the stamp.
LEMMA AdoptionOwes ==
  ASSUME TypeOK, Owing, running, NEW c \in Caches, c.age = cache.age, Keep(c),
         Waiting(owed)
  PROVE  Owing'
<1>1. cache' = c /\ file' \in {file, c} /\ owed' \in {owed, 0}
      /\ (owed' # 0 => file'.age = cache'.age)
  BY DEF Keep, Stored, Waiting
<1>2. file'.age \in {file.age, cache.age}
  BY <1>1
<1>3. owed > 0 => file'.age = file.age
  BY <1>2 DEF Owing
<1>4. owed \in 0 .. Cooldown
  BY DEF TypeOK
<1> QED
  BY <1>1, <1>3, <1>4 DEF Owing, Cold

\* Every step keeps what is owed on disk.
LEMMA OwingNext == IInv /\ TypeOK' /\ [Next]_vars => Owing'
<1> SUFFICES ASSUME IInv, TypeOK', [Next]_vars PROVE Owing'
  OBVIOUS
<1> USE DEF world, store, stub
<1>0. /\ TypeOK /\ Owing /\ Cooldown \in Nat /\ Short \in Nat /\ Short <= Cooldown
      /\ cache \in Caches /\ file \in Caches /\ owed \in 0 .. Cooldown
      /\ cache.age \in (0 - Back) .. Cooldown /\ file.age \in (0 - Back) .. Cooldown
  BY TimingAssumption DEF IInv, TypeOK, Caches
<1>r. ASSUME NEW t \in Tasks, ~At(t, "idle") PROVE running
  BY <1>r DEF IInv, Control, Quiet
<1>a. ASSUME UNCHANGED <<file, cache, running, owed>> PROVE Owing'
  BY <1>0, <1>a DEF Owing, Cold
<1>1. ASSUME NEW t \in Tasks, Learn(t) PROVE Owing'
  <2>1. running
    BY <1>1, <1>r DEF Learn, At
  <2>2. CASE task[t].heard = {}
    BY <1>1, <1>a, <2>2 DEF Learn
  <2>3. CASE task[t].heard # {}
    <3>1. PICK c \in Adopted(cache, task[t].heard) : Keep(c)
      BY <1>1, <2>3 DEF Learn
    <3>2. c \in Caches /\ c.age = cache.age
      BY <1>0, AdoptedType DEF TypeOK, States
    <3> QED
      BY <1>0, <1>1, <2>1, <2>3, <3>1, <3>2, AdoptionOwes DEF Learn
  <2> QED
    BY <2>2, <2>3
<1>2. ASSUME NEW t \in Tasks, AdoptLookup(t) PROVE Owing'
  <2>1. running
    BY <1>2, <1>r DEF AdoptLookup, At
  <2>2. PICK c \in Adopted(cache, task[t].heard) : Keep(c)
    BY <1>2 DEF AdoptLookup
  <2>3. c \in Caches /\ c.age = cache.age
    BY <1>0, AdoptedType DEF TypeOK, States
  <2> QED
    BY <1>0, <1>2, <2>1, <2>2, <2>3, AdoptionOwes DEF AdoptLookup
<1>3. ASSUME NEW t \in Tasks, AdoptManifest(t) PROVE Owing'
  <2>1. running
    BY <1>3, <1>r DEF AdoptManifest, At
  <2>2. CASE Refuses(cache, task[t].seen)
    BY <1>3, <1>a, <2>2 DEF AdoptManifest
  <2>3. CASE ~Refuses(cache, task[t].seen)
    <3>1. PICK c \in AdoptedManifest(cache, task[t].seen) : Keep(c)
      BY <1>3, <2>3 DEF AdoptManifest
    <3>2. c \in Caches /\ c.age = cache.age
      BY <1>0, ManifestType DEF TypeOK, States
    <3> QED
      BY <1>0, <1>3, <2>1, <2>3, <3>1, <3>2, AdoptionOwes DEF AdoptManifest
  <2> QED
    BY <2>2, <2>3
<1>4. ASSUME NEW t \in Tasks, Granted(t) PROVE Owing'
  <2>1. cache' = [cache EXCEPT !.age = 0] /\ Waiting(Cooldown)
    BY <1>4 DEF Granted, Keep, Stored
  <2>2. cache'.age = 0
    BY <1>0, <2>1 DEF Caches
  <2> QED
    BY <1>0, <2>1, <2>2 DEF Owing, Cold, Waiting
<1>5. ASSUME NEW t \in Tasks, NotFetched(t) PROVE Owing'
  <2>1. CASE task[t].reached
    BY <1>5, <1>a, <2>1 DEF NotFetched
  <2>2. CASE ~task[t].reached
    <3>1. cache' = [cache EXCEPT !.age = Cooldown - Short] /\ Waiting(Short)
      BY <1>5, <2>2 DEF NotFetched, Stored
    <3>2. cache'.age = Cooldown - Short
      BY <1>0, <3>1 DEF Caches
    <3> QED
      BY <1>0, <3>1, <3>2 DEF Owing, Cold, Waiting
  <2> QED
    BY <2>1, <2>2
<1>6. ASSUME NEW t \in Tasks, TaskStep(t) PROVE Owing'
  BY <1>1, <1>2, <1>3, <1>4, <1>5, <1>6, <1>a
  DEF TaskStep, SelfAnswered, SelfSilent, Refused, LookedUp, Fetched, Build, Send
<1>7. CASE Tick
  <2>1. file'.age = Later(file.age) /\ cache'.age = Later(cache.age)
    BY <1>0, <1>7 DEF Tick, Caches
  <2>2. owed' = (IF owed > 0 THEN owed - 1 ELSE 0) /\ running' = running
    BY <1>7 DEF Tick
  <2> QED
    BY <1>0, <2>1, <2>2 DEF Owing, Cold, Later
<1>8. ASSUME NEW d \in 1 .. Back, ClockBack(d) PROVE Owing'
  BY <1>8 DEF ClockBack, Owing
<1>9. CASE Start
  BY <1>0, <1>9 DEF Start, Owing, Cold
<1>s. CASE Restart
  BY <1>s, <1>a DEF Restart
<1>10. CASE Crash
  BY <1>0, <1>10 DEF Crash, Owing, Cold
<1>11. CASE CutOff \/ Probe \/ (\E s \in Searches : Release(s)) \/ Queries \/ WatchEndpoints
  BY <1>11, <1>a
  DEF CutOff, Probe, Release, Queries, QueryAnswered, QueryFails, QueryLost, Failure,
      WatchEndpoints
<1>12. ASSUME NEW list \in Homes, Move(list) PROVE Owing'
  BY <1>12, <1>a DEF Move
<1>13. CASE Publish \/ NetChange \/ UNCHANGED vars
  BY <1>13, <1>a DEF Publish, NetChange, vars
<1> QED
  BY <1>6, <1>7, <1>8, <1>9, <1>s, <1>10, <1>11, <1>12, <1>13 DEF Next, Lifecycle, Outside

-----------------------------------------------------------------------------
(* Theorems *)

\* The invariant holds at the start and is kept.
LEMMA Invariant == Spec => []IInv
<1>1. Init => IInv
  <2> SUFFICES ASSUME Init PROVE IInv
    OBVIOUS
  <2>1. TypeOK
    BY TypeInit
  <2>2. \A t \in Tasks : task[t] = Rest
    BY DEF Init
  <2>3. Rest.pc = "idle"
    BY DEF Rest
  <2>4. Control
    BY <2>2, <2>3 DEF Init, Control, Places, Path, Quiet, FlagMeansSearch, At, Tasks
  <2>5. Owing
    BY DEF Init, Owing
  <2> QED
    BY <2>1, <2>4, <2>5 DEF IInv
<1>2. IInv /\ [Next]_vars => IInv'
  BY TypeNext, ControlNext, OwingNext DEF IInv
<1> QED
  BY <1>1, <1>2, PTL DEF Spec

\* Every variable keeps its type, whatever answers, faults and moves come.
THEOREM TypeCorrect == Spec => []TypeOK
<1>1. IInv => TypeOK
  BY DEF IInv
<1> QED
  BY <1>1, Invariant, PTL

\* The flag that holds back a second search is up exactly while one is under way.
THEOREM FlagMeansSearchAlways == Spec => []FlagMeansSearch
<1>1. IInv => FlagMeansSearch
  BY DEF IInv, Control
<1> QED
  BY <1>1, Invariant, PTL

\* What a step does to the copy in memory of a process that lives through it.
LEMMA CacheNext ==
  ASSUME IInv, [Next]_vars, running, running'
  PROVE  /\ cache'.serial >= cache.serial
         /\ \E k \in 0 .. Len(cache.retired) : LosesOldest(cache, cache', k)
<1> USE DEF world, store, stub
<1>0. /\ cache \in Caches /\ cache.serial \in Nat
      /\ \A t \in Tasks : task[t].heard \in SUBSET Addrs /\ task[t].seen \in Manifests
  BY DEF IInv, TypeOK, States, Caches
<1> DEFINE Forward(c) == /\ c.serial >= cache.serial
                         /\ \E k \in 0 .. Len(cache.retired) : LosesOldest(cache, c, k)
<1>a. ASSUME UNCHANGED cache PROVE Forward(cache')
  BY <1>0, <1>a, SameLoses
<1>b. ASSUME NEW a \in (0 - Back) .. Cooldown, cache' = [cache EXCEPT !.age = a]
      PROVE  Forward(cache')
  <2>1. /\ cache' \in Caches /\ cache'.serial = cache.serial
        /\ cache'.live = cache.live /\ cache'.retired = cache.retired
    BY <1>0, <1>b, StampType
  <2>2. \E k \in 0 .. Len(cache.retired) : LosesOldest(cache, cache', k)
    BY <1>0, <2>1, SameLoses
  <2> QED
    BY <1>0, <2>1, <2>2
<1>1. ASSUME NEW t \in Tasks, NEW c \in Adopted(cache, task[t].heard), Keep(c)
      PROVE  Forward(cache')
  <2>1. cache' = c
    BY <1>1 DEF Keep, Stored
  <2>2. Forward(c)
    BY <1>0, AdoptedType
  <2> QED
    BY <2>1, <2>2
<1>2. ASSUME NEW t \in Tasks, AdoptManifest(t) PROVE Forward(cache')
  <2>1. CASE Refuses(cache, task[t].seen)
    BY <1>2, <1>a, <2>1 DEF AdoptManifest
  <2>2. CASE ~Refuses(cache, task[t].seen)
    <3>1. PICK c \in AdoptedManifest(cache, task[t].seen) : Keep(c)
      BY <1>2, <2>2 DEF AdoptManifest
    <3>2. cache' = c
      BY <3>1 DEF Keep, Stored
    <3>3. task[t].seen \in Manifests /\ task[t].seen.serial \in Nat
      BY <1>0 DEF Manifests
    <3>4. /\ c.serial = task[t].seen.serial
          /\ \E k \in 0 .. Len(cache.retired) : LosesOldest(cache, c, k)
      BY <1>0, <3>3, ManifestType
    <3>5. task[t].seen.serial >= cache.serial
      BY <1>0, <2>2, <3>3 DEF Refuses
    <3> QED
      BY <3>2, <3>4, <3>5
  <2> QED
    BY <2>1, <2>2
<1>3. ASSUME NEW t \in Tasks, Learn(t) \/ AdoptLookup(t) PROVE Forward(cache')
  BY <1>1, <1>3, <1>a DEF Learn, AdoptLookup
<1>4. ASSUME NEW t \in Tasks, Granted(t) \/ NotFetched(t) PROVE Forward(cache')
  <2>1. /\ 0 \in (0 - Back) .. Cooldown
        /\ Cooldown - Short \in (0 - Back) .. Cooldown
    BY TimingAssumption
  <2>2. \/ cache' = cache
        \/ cache' = [cache EXCEPT !.age = 0]
        \/ cache' = [cache EXCEPT !.age = Cooldown - Short]
    BY <1>4 DEF Granted, NotFetched, Keep, Stored
  <2> QED
    BY <1>a, <1>b, <2>1, <2>2
<1>5. ASSUME NEW t \in Tasks, TaskStep(t) PROVE Forward(cache')
  BY <1>2, <1>3, <1>4, <1>5, <1>a
  DEF TaskStep, SelfAnswered, SelfSilent, Refused, LookedUp, Fetched, Build, Send
<1>6. CASE Tick
  <2>1. Later(cache.age) \in (0 - Back) .. Cooldown
    BY <1>0, TimingAssumption DEF Later, Caches
  <2> QED
    BY <1>6, <1>b, <2>1 DEF Tick
<1>7. ASSUME NEW d \in 1 .. Back, ClockBack(d) PROVE Forward(cache')
  <2>1. PICK a \in Earlier(cache.age, d) : cache' = [cache EXCEPT !.age = a]
    BY <1>7 DEF ClockBack
  <2>2. a \in (0 - Back) .. Cooldown
    BY <1>0, TimingAssumption DEF Earlier, Caches
  <2> QED
    BY <1>b, <2>1, <2>2
<1>8. CASE \/ CutOff \/ Probe \/ \E s \in Searches : Release(s)
           \/ Queries \/ WatchEndpoints \/ Restart
  BY <1>8, <1>a
  DEF CutOff, Probe, Release, Queries, QueryAnswered, QueryFails, QueryLost, Failure,
      WatchEndpoints, Restart
<1>9. ASSUME NEW list \in Homes, Move(list) PROVE Forward(cache')
  BY <1>9, <1>a DEF Move
<1>10. CASE Publish \/ NetChange \/ UNCHANGED vars
  BY <1>10, <1>a DEF Publish, NetChange, vars
<1>11. CASE Start \/ Crash
  BY <1>11 DEF Start, Crash
<1> QED
  BY <1>5, <1>6, <1>7, <1>8, <1>9, <1>10, <1>11 DEF Next, Lifecycle, Outside

\* The serial of the list a process knows never goes back.
THEOREM ManifestForwardAlways == Spec => ManifestForward
<1>1. IInv /\ [Next]_vars => [running /\ running' => cache'.serial >= cache.serial]_vars
  BY CacheNext
<1> QED
  BY <1>1, Invariant, PTL DEF Spec, ManifestForward

\* Of the addresses that were ours a full list forgets the longest retired first,
\* and one with room none.
THEOREM NothingForgottenAlways == Spec => NothingForgotten
<1>1. IInv /\ [Next]_vars =>
        [running /\ running' =>
           \E k \in 0 .. Len(cache.retired) : LosesOldest(cache, cache', k)]_vars
  BY CacheNext
<1> QED
  BY <1>1, Invariant, PTL DEF Spec, NothingForgotten

\* A rescue is granted only when nothing is owed of the last cooldown.
THEOREM RescueSpacedAlways == Spec => RescueSpaced
<1> USE DEF world, store, stub
<1>1. ASSUME IInv, [Next]_vars, NEW t \in Searches \cup {"watch"},
             At(t, "claim"), task'[t].pc = "lookup"
      PROVE  owed = 0
  <2>0. t \in Tasks /\ task \in [Tasks -> States] /\ task[t].pc = "claim"
    BY <1>1 DEF IInv, TypeOK, Tasks, At
  <2>1. task'[t] # task[t] /\ task'[t] # Rest
        /\ \A p \in {"self", "claim", "probe", "build", "release"} : task'[t] # Fresh(p)
    BY <1>1, <2>0 DEF Rest, Fresh
  <2>2. \A changed \in BOOLEAN : task'[t] # Ended(t, changed)
    BY <2>1 DEF Ended
  <2>3. CASE Granted(t)
    <3>1. ~Cold(cache) /\ running
      BY <1>1, <2>0, <2>3 DEF Granted, IInv, Control, Quiet, At
    <3>2. owed \in Nat
      BY <1>1 DEF IInv, TypeOK
    <3> QED
      BY <1>1, <3>1, <3>2 DEF IInv, Owing, Cold
  <2>4. CASE \E u \in Tasks : u # t /\ TaskStep(u)
    <3>1. PICK u \in Tasks : u # t /\ TaskStep(u)
      BY <2>4
    <3>2. \/ \E s : task' = [task EXCEPT ![u] = s]
          \/ \E s \in Searches : task' = Woken([task EXCEPT ![u] = Rest], s)
      BY <3>1
      DEF TaskStep, SelfAnswered, SelfSilent, Learn, Refused, Granted, Goto, LookedUp,
          AdoptLookup, Fetched, NotFetched, AdoptManifest, Build, Send
    <3> QED
      BY <2>0, <2>1, <3>1, <3>2 DEF Woken
  <2>5. CASE TaskStep(t) /\ ~Granted(t)
    <3>1. Refused(t)
      BY <2>0, <2>5
      DEF TaskStep, At, SelfAnswered, SelfSilent, Learn, LookedUp, AdoptLookup, Fetched,
          NotFetched, AdoptManifest, Build, Send
    <3> QED
      BY <2>0, <2>2, <3>1 DEF Refused
  <2>6. CASE CutOff \/ Probe
    BY <2>0, <2>1, <2>6 DEF CutOff, Probe, At
  <2>7. CASE \E s \in Searches : Release(s)
    BY <2>0, <2>1, <2>7 DEF Release
  <2>8. CASE Queries
    BY <2>0, <2>1, <2>8 DEF Queries, QueryAnswered, QueryFails, QueryLost, Failure, Woken
  <2>9. CASE Lifecycle
    <3>1. \A list : Asking(list).pc = "self"
      BY DEF Asking, Fresh, Rest
    <3>2. CASE Start \/ WatchEndpoints \/ Crash
      BY <2>0, <2>1, <3>1, <3>2 DEF Start, WatchEndpoints, Crash, At
    <3>3. CASE Restart
      <4>1. t # "search0"
        BY <2>0, <3>3 DEF Restart, Alone, At
      <4>2. task'[t] = Rest \/ task'[t] = task[t]
        BY <2>0, <3>3, <4>1 DEF Restart
      <4> QED
        BY <2>1, <4>2
    <3> QED
      BY <2>9, <3>2, <3>3 DEF Lifecycle
  <2>10. CASE Outside \/ UNCHANGED vars
    BY <2>1, <2>10 DEF Outside, Move, Publish, NetChange, Tick, ClockBack, vars
  <2> QED
    BY <1>1, <2>3, <2>4, <2>5, <2>6, <2>7, <2>8, <2>9, <2>10 DEF Next
<1>2. IInv /\ [Next]_vars =>
        [\A t \in Searches \cup {"watch"} :
           At(t, "claim") /\ task'[t].pc = "lookup" => owed = 0]_vars
  BY <1>1
<1> QED
  BY <1>2, Invariant, PTL DEF Spec, RescueSpaced
=============================================================================
