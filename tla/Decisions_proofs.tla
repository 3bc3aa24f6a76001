-------------------------- MODULE Decisions_proofs --------------------------
(***************************************************************************)
(* The decisions, for any inputs and not only for those the questions      *)
(* enumerate: the theorem about a decision speaks of every question of its *)
(* shape, and Spec asks some of them.                                      *)
(***************************************************************************)
EXTENDS LockedValues_proofs

-----------------------------------------------------------------------------
(***************************************************************************)
(* Rollbacks: any journal that names states, in any order, of any length   *)
(* and with any repetitions.                                               *)
(***************************************************************************)
RollbackQuestion(q) ==
  /\ q.kind = "rollback_asked"
  /\ q.completed \in Seq(Undo!States)
  /\ q.inFlight \in Undo!States \cup {Undo!NoState}
  /\ q.undoIncomplete \subseteq Undo!States
  /\ q.stopRequested \in BOOLEAN

\* The sequence of a finite set has its elements.
LEMMA SetToSeqElements ==
  ASSUME NEW T, IsFiniteSet(T)
  PROVE  Undo!SetToSeq(T) \in Seq(T) /\ ToSet(Undo!SetToSeq(T)) = T
<1> DEFINE n == Cardinality(T)
           s == Undo!SetToSeq(T)
<1>1. n \in Nat /\ \E f : f \in Bijection(1 .. n, T)
  BY FS_CardinalityType DEF ExistsBijection
<1>2. \E f \in [1 .. n -> T] : Undo!IsInjective(f)
  BY <1>1 DEF Bijection, Injection, IsInjective, Undo!IsInjective
<1>3. s \in [1 .. n -> T] /\ Undo!IsInjective(s)
  <2>1. Undo!Cardinality(T) = n
    BY DEF Undo!Cardinality, Cardinality
  <2> HIDE DEF n
  <2> QED
    BY <1>2, <2>1 DEF Undo!SetToSeq
<1> HIDE DEF s
<1>4. s \in Injection(1 .. n, T)
  BY <1>3 DEF Injection, IsInjective, Undo!IsInjective
<1>5. Cardinality(1 .. n) = n
  BY <1>1, FS_Interval
<1>6. s \in Surjection(1 .. n, T)
  <2> HIDE DEF n
  <2> QED
    BY <1>4, <1>5, FS_Injection DEF n
<1> QED
  BY <1>1, <1>3, <1>6 DEF Surjection, ToSet, s

\* A fold over one is one application.
LEMMA OneToMove ==
  ASSUME NEW base, NEW pair
  PROVE  Undo!FoldLeft(Undo!MoveForward, base, << pair >>) = Undo!MoveForward(base, pair)
<1> DEFINE seq == << pair >>
           iter == CHOOSE f : f = [s \in SUBSET {1} |->
             IF s = {} THEN base ELSE Undo!MoveForward(f[s \ {Undo!Max(s)}], seq[Undo!Max(s)])]
<1>1. Undo!Max({1}) = 1
  BY DEF Undo!Max
<1>2. iter = [s \in SUBSET {1} |->
             IF s = {} THEN base ELSE Undo!MoveForward(iter[s \ {Undo!Max(s)}], seq[Undo!Max(s)])]
  <2> DEFINE g == [s \in SUBSET {1} |-> IF s = {} THEN base ELSE Undo!MoveForward(base, pair)]
  <2>1. ASSUME NEW s \in SUBSET {1}
        PROVE  g[s] = IF s = {} THEN base ELSE Undo!MoveForward(g[s \ {Undo!Max(s)}], seq[Undo!Max(s)])
    <3>1. CASE s = {}
      BY <3>1
    <3>2. CASE s = {1}
      <4>1. s \ {Undo!Max(s)} = {} /\ seq[Undo!Max(s)] = pair
        BY <1>1, <3>2
      <4>2. g[{}] = base
        OBVIOUS
      <4> QED
        BY <3>2, <4>1, <4>2
    <3> QED
      BY <3>1, <3>2
  <2>2. g = [s \in SUBSET {1} |-> g[s]]
    OBVIOUS
  <2> HIDE DEF g, seq
  <2>3. g = [s \in SUBSET {1} |->
             IF s = {} THEN base ELSE Undo!MoveForward(g[s \ {Undo!Max(s)}], seq[Undo!Max(s)])]
    BY <2>1, <2>2
  <2> QED
    BY <2>3
<1>3. iter[{1}] = Undo!MoveForward(iter[{}], pair) /\ iter[{}] = base
  <2> HIDE DEF iter
  <2>1. iter[{1}] = Undo!MoveForward(iter[{1} \ {Undo!Max({1})}], seq[Undo!Max({1})])
    BY <1>2
  <2>2. {1} \ {Undo!Max({1})} = {} /\ seq[Undo!Max({1})] = pair
    BY <1>1
  <2> QED
    BY <1>2, <2>1, <2>2
<1>4. DOMAIN seq = {1}
  OBVIOUS
<1> QED
  BY <1>3, <1>4 DEF Undo!FoldLeft, Undo!MapThenFoldSet

RollbackSteps == [compensation : Undo!Compensations, because_of : Undo!SideEffects]

\* The steps a state owes, each with the state it is owed by.
LEMMA StepsOfAState ==
  /\ Undo!StepsOf("create_target", Undo!CompensationMap) =
       << Undo!Step("delete_target_resource", "create_target"),
          Undo!Step("restore_source_fqdn", "create_target"),
          Undo!Step("release_source_pins", "create_target") >>
  /\ Undo!StepsOf("quiesce", Undo!CompensationMap) = << Undo!Step("restart_source", "quiesce") >>
  /\ Undo!StepsOf("copy", Undo!CompensationMap) =
       << Undo!Step("drop_target_volumes", "copy"), Undo!Step("revoke_ephemeral_key", "copy") >>
  /\ Undo!StepsOf("start_target", Undo!CompensationMap) =
       << Undo!Step("stop_target", "start_target") >>
  /\ Undo!StepsOf("finalize", Undo!CompensationMap) =
       << Undo!Step("restore_source_name", "finalize") >>
<1>1. /\ Undo!CompensationMap["create_target"] =
           << "delete_target_resource", "restore_source_fqdn", "release_source_pins" >>
      /\ Undo!CompensationMap["quiesce"] = << "restart_source" >>
      /\ Undo!CompensationMap["copy"] = << "drop_target_volumes", "revoke_ephemeral_key" >>
      /\ Undo!CompensationMap["start_target"] = << "stop_target" >>
      /\ Undo!CompensationMap["finalize"] = << "restore_source_name" >>
  BY DEF Undo!CompensationMap, Undo!SideEffects, Undo!Owes
<1> QED
  BY <1>1 DEF Undo!StepsOf

OwedIn(s, E) == Undo!OwedSteps(s, E, Undo!CompensationMap)

Before(E) == (OwedIn("finalize", E) \o OwedIn("start_target", E)) \o OwedIn("copy", E)

LEMMA OwedInIs ==
  ASSUME NEW E \in SUBSET Undo!SideEffects
  PROVE  /\ OwedIn("finalize", E) =
              IF "finalize" \in E THEN << Undo!Step("restore_source_name", "finalize") >> ELSE << >>
         /\ OwedIn("start_target", E) =
              IF "start_target" \in E THEN << Undo!Step("stop_target", "start_target") >> ELSE << >>
         /\ OwedIn("copy", E) =
              IF "copy" \in E THEN << Undo!Step("drop_target_volumes", "copy"),
                                       Undo!Step("revoke_ephemeral_key", "copy") >> ELSE << >>
         /\ OwedIn("quiesce", E) =
              IF "quiesce" \in E THEN << Undo!Step("restart_source", "quiesce") >> ELSE << >>
         /\ OwedIn("create_target", E) =
              IF "create_target" \in E
              THEN << Undo!Step("delete_target_resource", "create_target"),
                      Undo!Step("restore_source_fqdn", "create_target"),
                      Undo!Step("release_source_pins", "create_target") >>
              ELSE << >>
         /\ \A s \in Undo!States \ Undo!SideEffects : OwedIn(s, E) = << >>
         /\ \A s \in Undo!States : OwedIn(s, E) \in Seq(RollbackSteps)
<1>1. \A s \in E : OwedIn(s, E) = Undo!StepsOf(s, Undo!CompensationMap)
  BY DEF OwedIn, Undo!OwedSteps
<1>2. \A s : s \notin E => OwedIn(s, E) = << >>
  BY DEF OwedIn, Undo!OwedSteps
<1>3. << >> \in Seq(RollbackSteps)
  BY EmptySeq
<1>4. \A s \in E : OwedIn(s, E) \in Seq(RollbackSteps)
  <2> SUFFICES ASSUME NEW s \in E
               PROVE  Undo!StepsOf(s, Undo!CompensationMap) \in Seq(RollbackSteps)
    BY <1>1
  <2>1. s \in {"create_target", "quiesce", "copy", "start_target", "finalize"}
    BY DEF Undo!SideEffects
  <2>2. \A c \in Undo!Compensations, t \in Undo!SideEffects : Undo!Step(c, t) \in RollbackSteps
    BY DEF Undo!Step, RollbackSteps
  <2>3. /\ \A x \in RollbackSteps : << x >> \in Seq(RollbackSteps)
        /\ \A x, y \in RollbackSteps : << x, y >> \in Seq(RollbackSteps)
        /\ \A x, y, z \in RollbackSteps : << x, y, z >> \in Seq(RollbackSteps)
    <3> HIDE DEF RollbackSteps
    <3> QED
      OBVIOUS
  <2> HIDE DEF RollbackSteps
  <2>4. \A c \in Undo!Compensations, t \in Undo!SideEffects : << Undo!Step(c, t) >> \in Seq(RollbackSteps)
    BY <2>2, <2>3
  <2>5. \A c, d \in Undo!Compensations, t \in Undo!SideEffects :
          << Undo!Step(c, t), Undo!Step(d, t) >> \in Seq(RollbackSteps)
    BY <2>2, <2>3
  <2>6. \A c, d, e \in Undo!Compensations, t \in Undo!SideEffects :
          << Undo!Step(c, t), Undo!Step(d, t), Undo!Step(e, t) >> \in Seq(RollbackSteps)
    BY <2>2, <2>3
  <2>7. CASE s = "create_target"
    <3>1. /\ "delete_target_resource" \in Undo!Compensations
          /\ "restore_source_fqdn" \in Undo!Compensations
          /\ "release_source_pins" \in Undo!Compensations /\ "create_target" \in Undo!SideEffects
      BY DEF Undo!Compensations, Undo!SideEffects
    <3> QED
      BY <2>6, <2>7, <3>1, StepsOfAState
  <2>8. CASE s = "copy"
    <3>1. /\ "drop_target_volumes" \in Undo!Compensations
          /\ "revoke_ephemeral_key" \in Undo!Compensations /\ "copy" \in Undo!SideEffects
      BY DEF Undo!Compensations, Undo!SideEffects
    <3> QED
      BY <2>5, <2>8, <3>1, StepsOfAState
  <2>9. CASE s \in {"quiesce", "start_target", "finalize"}
    <3>1. /\ "restart_source" \in Undo!Compensations /\ "stop_target" \in Undo!Compensations
          /\ "restore_source_name" \in Undo!Compensations /\ "quiesce" \in Undo!SideEffects
          /\ "start_target" \in Undo!SideEffects /\ "finalize" \in Undo!SideEffects
      BY DEF Undo!Compensations, Undo!SideEffects
    <3> QED
      BY <2>4, <2>9, <3>1, StepsOfAState
  <2> QED
    BY <2>1, <2>7, <2>8, <2>9
<1> QED
  BY <1>1, <1>2, <1>3, <1>4, StepsOfAState

\* Last state first, and nothing of the states that owe nothing.
LEMMA InReverseOrder ==
  ASSUME NEW E \in SUBSET Undo!SideEffects
  PROVE  LET last == Undo!Reverse(Undo!Order)
         IN  Undo!FlattenSeq([i \in DOMAIN last |->
               Undo!OwedSteps(last[i], E, Undo!CompensationMap)])
             = (Before(E) \o OwedIn("quiesce", E)) \o OwedIn("create_target", E)
<1> DEFINE last == Undo!Reverse(Undo!Order)
           seqs == [i \in DOMAIN last |-> Undo!OwedSteps(last[i], E, Undo!CompensationMap)]
           F == OwedIn("finalize", E)
           FT == F \o OwedIn("start_target", E)
           P == Before(E)
           PQ == P \o OwedIn("quiesce", E)
           PQK == PQ \o OwedIn("create_target", E)
           f == CHOOSE h : h = [i \in 1 .. Len(seqs) |->
                                  IF i = 1 THEN seqs[i] ELSE h[i - 1] \o seqs[i]]
           g == << << >>, F, F, FT, FT, FT, P, P, PQ, PQK, PQK, PQK, PQK >>
<1>1. last = << "done", "finalize", "healthcheck", "start_target", "dns_gate", "verify", "copy",
                "discover", "quiesce", "create_target", "plan", "preflight", "init" >>
  BY DEF Undo!Reverse, Undo!Order
<1>2. seqs = << << >>, F, << >>, OwedIn("start_target", E), << >>, << >>, OwedIn("copy", E),
                << >>, OwedIn("quiesce", E), OwedIn("create_target", E), << >>, << >>, << >> >>
  <2> HIDE DEF last
  <2>1. {"done", "healthcheck", "dns_gate", "verify", "discover", "plan", "preflight", "init"}
          \subseteq Undo!States \ Undo!SideEffects
    BY DEF Undo!States, Undo!Order, Undo!SideEffects
  <2>2. seqs = [i \in 1 .. 13 |-> OwedIn(last[i], E)]
    BY <1>1 DEF OwedIn
  <2>3. \A s \in {"done", "healthcheck", "dns_gate", "verify", "discover", "plan", "preflight",
                   "init"} : OwedIn(s, E) = << >>
    BY <2>1, OwedInIs
  <2> HIDE DEF seqs
  <2> QED
    BY <1>1, <2>2, <2>3
<1>3. /\ F \in Seq(RollbackSteps) /\ FT \in Seq(RollbackSteps) /\ P \in Seq(RollbackSteps)
      /\ PQ \in Seq(RollbackSteps) /\ PQK \in Seq(RollbackSteps)
  <2>1. {"finalize", "start_target", "copy", "quiesce", "create_target"} \subseteq Undo!States
    BY DEF Undo!States, Undo!Order
  <2> HIDE DEF RollbackSteps
  <2>2. \A s \in {"finalize", "start_target", "copy", "quiesce", "create_target"} :
          OwedIn(s, E) \in Seq(RollbackSteps)
    BY <2>1, OwedInIs
  <2> QED
    BY <2>2, ConcatProperties DEF Before
<1> HIDE DEF seqs
<1>4. \A s \in Seq(RollbackSteps) : s \o << >> = s /\ << >> \o s = s
  BY ConcatEmptySeq
<1>5. Len(seqs) = 13
  BY <1>2
<1>6. g = [i \in 1 .. Len(seqs) |-> IF i = 1 THEN seqs[i] ELSE g[i - 1] \o seqs[i]]
  <2>1. /\ g[1] = seqs[1]
        /\ g[2] = g[1] \o seqs[2] /\ g[3] = g[2] \o seqs[3] /\ g[4] = g[3] \o seqs[4]
        /\ g[5] = g[4] \o seqs[5] /\ g[6] = g[5] \o seqs[6] /\ g[7] = g[6] \o seqs[7]
        /\ g[8] = g[7] \o seqs[8] /\ g[9] = g[8] \o seqs[9] /\ g[10] = g[9] \o seqs[10]
        /\ g[11] = g[10] \o seqs[11] /\ g[12] = g[11] \o seqs[12] /\ g[13] = g[12] \o seqs[13]
    <3> DEFINE T == OwedIn("start_target", E)
               C == OwedIn("copy", E)
               Q == OwedIn("quiesce", E)
               K == OwedIn("create_target", E)
    <3>1. /\ seqs[1] = << >> /\ seqs[2] = F /\ seqs[3] = << >> /\ seqs[4] = T
          /\ seqs[5] = << >> /\ seqs[6] = << >> /\ seqs[7] = C /\ seqs[8] = << >>
          /\ seqs[9] = Q /\ seqs[10] = K /\ seqs[11] = << >> /\ seqs[12] = << >>
          /\ seqs[13] = << >>
      BY <1>2
    <3>2. FT = F \o T /\ P = FT \o C /\ PQ = P \o Q /\ PQK = PQ \o K
      BY DEF Before
    <3>3. /\ g[1] = << >> /\ g[2] = F /\ g[3] = F /\ g[4] = FT /\ g[5] = FT /\ g[6] = FT
          /\ g[7] = P /\ g[8] = P /\ g[9] = PQ /\ g[10] = PQK /\ g[11] = PQK /\ g[12] = PQK
          /\ g[13] = PQK
      OBVIOUS
    <3>4. /\ << >> \o F = F /\ F \o << >> = F /\ FT \o << >> = FT /\ P \o << >> = P
          /\ PQK \o << >> = PQK
      BY <1>3, <1>4
    <3> HIDE DEF F, FT, P, PQ, PQK, T, C, Q, K, g
    <3> QED
      BY <3>1, <3>2, <3>3, <3>4
  <2>2. g = [i \in 1 .. 13 |-> g[i]]
    OBVIOUS
  <2> HIDE DEF g
  <2>4. ASSUME NEW i \in 1 .. 13
        PROVE  g[i] = IF i = 1 THEN seqs[i] ELSE g[i - 1] \o seqs[i]
    <3>1. /\ 2 - 1 = 1 /\ 3 - 1 = 2 /\ 4 - 1 = 3 /\ 5 - 1 = 4 /\ 6 - 1 = 5 /\ 7 - 1 = 6
          /\ 8 - 1 = 7 /\ 9 - 1 = 8 /\ 10 - 1 = 9 /\ 11 - 1 = 10 /\ 12 - 1 = 11 /\ 13 - 1 = 12
      OBVIOUS
    <3>2. CASE i = 1 \/ i = 2 \/ i = 3 \/ i = 4 \/ i = 5
      BY <2>1, <3>1, <3>2
    <3>3. CASE i = 6 \/ i = 7 \/ i = 8 \/ i = 9
      BY <2>1, <3>1, <3>3
    <3>4. CASE i = 10 \/ i = 11 \/ i = 12 \/ i = 13
      BY <2>1, <3>1, <3>4
    <3> QED
      BY <3>2, <3>3, <3>4
  <2> QED
    BY <1>5, <2>2, <2>4
<1>7. f = [i \in 1 .. Len(seqs) |-> IF i = 1 THEN seqs[i] ELSE f[i - 1] \o seqs[i]]
  <2> HIDE DEF g
  <2> QED
    BY <1>6
<1>8. f[13] = PQK
  <2> HIDE DEF f
  <2>1. \A i \in 1 .. 13 : f[i] = IF i = 1 THEN seqs[i] ELSE f[i - 1] \o seqs[i]
    BY <1>5, <1>7
  <2>2. \A i \in 1 .. 13 : g[i] = IF i = 1 THEN seqs[i] ELSE g[i - 1] \o seqs[i]
    <3> HIDE DEF g
    <3> QED
      BY <1>5, <1>6
  <2>3. g[13] = PQK
    OBVIOUS
  <2> HIDE DEF g
  <2>4. f[1] = g[1]
    BY <2>1, <2>2
  <2>5. ASSUME NEW i \in 1 .. 12, f[i] = g[i]
        PROVE  f[i + 1] = g[i + 1]
    <3>1. i + 1 \in 1 .. 13 /\ i + 1 # 1 /\ (i + 1) - 1 = i
      OBVIOUS
    <3>2. f[i + 1] = f[i] \o seqs[i + 1] /\ g[i + 1] = g[i] \o seqs[i + 1]
      BY <2>1, <2>2, <3>1
    <3> QED
      BY <2>5, <3>2
  <2>6. f[2] = g[2] /\ f[3] = g[3] /\ f[4] = g[4] /\ f[5] = g[5] /\ f[6] = g[6] /\ f[7] = g[7]
        /\ f[8] = g[8] /\ f[9] = g[9] /\ f[10] = g[10] /\ f[11] = g[11] /\ f[12] = g[12]
        /\ f[13] = g[13]
    <3> DEFINE Same(i) == f[i] = g[i]
    <3>1. \A i \in 1 .. 12 : Same(i) => Same(i + 1)
      BY <2>5
    <3>2. Same(1)
      BY <2>4
    <3> HIDE DEF Same
    <3>3. /\ Same(2) /\ Same(3) /\ Same(4) /\ Same(5) /\ Same(6) /\ Same(7) /\ Same(8)
          /\ Same(9) /\ Same(10) /\ Same(11) /\ Same(12) /\ Same(13)
      BY <3>1, <3>2
    <3> QED
      BY <3>3 DEF Same
  <2> QED
    BY <2>3, <2>6
<1>9. Undo!FlattenSeq(seqs) = f[13]
  BY <1>5 DEF Undo!FlattenSeq
<1> QED
  BY <1>8, <1>9 DEF seqs

\* The position of what comes once, and of what does not come.
LEMMA PositionIs ==
  ASSUME NEW plan \in Seq(RollbackSteps), NEW c
  PROVE  /\ \A i \in DOMAIN plan :
              /\ plan[i].compensation = c
              /\ \A j \in DOMAIN plan : plan[j].compensation = c => i <= j
              => Undo!PositionOf(c, plan) = i
         /\ (\A i \in DOMAIN plan : plan[i].compensation # c) => Undo!PositionOf(c, plan) = 0
         /\ Undo!PositionOf(c, plan) > 0 =>
              /\ Undo!PositionOf(c, plan) \in DOMAIN plan
              /\ plan[Undo!PositionOf(c, plan)].compensation = c
         /\ (\E i \in DOMAIN plan : plan[i].compensation = c) =>
              Undo!PositionOf(c, plan) \in DOMAIN plan
<1> DEFINE I == {i \in 1 .. Len(plan) : plan[i].compensation = c}
<1>1. Undo!PositionOf(c, plan) = IF I # {} THEN Undo!Min(I) ELSE 0
  BY DEF Undo!PositionOf, Undo!SelectInSeq
<1>2. Len(plan) \in Nat /\ DOMAIN plan = 1 .. Len(plan)
  OBVIOUS
<1>3. I \subseteq Nat /\ I \subseteq DOMAIN plan
  BY <1>2
<1>4. ASSUME I # {}
      PROVE  Undo!Min(I) \in I /\ \A y \in I : Undo!Min(I) <= y
  <2> HIDE DEF I
  <2>1. \E x \in I : \A y \in I : x <= y
    BY <1>3, <1>4, LeastOf
  <2> QED
    BY <2>1 DEF Undo!Min
<1>5. \A i \in DOMAIN plan : i \in I <=> plan[i].compensation = c
  BY <1>2
<1> HIDE DEF I
<1>6. ASSUME NEW i \in DOMAIN plan, plan[i].compensation = c,
             \A j \in DOMAIN plan : plan[j].compensation = c => i <= j
      PROVE  Undo!PositionOf(c, plan) = i
  <2>1. i \in I /\ \A y \in I : i <= y
    BY <1>3, <1>5, <1>6
  <2>2. Undo!Min(I) \in I /\ Undo!Min(I) <= i
    BY <1>4, <2>1
  <2> QED
    <3>1. Undo!Min(I) \in Nat /\ i \in Nat /\ i <= Undo!Min(I)
      BY <1>3, <2>1, <2>2
    <3>2. Undo!PositionOf(c, plan) = Undo!Min(I)
      BY <1>1, <2>1
    <3> QED
      BY <2>2, <3>1, <3>2
<1>7. (\A i \in DOMAIN plan : plan[i].compensation # c) => I = {}
  BY <1>3, <1>5
<1>8. (\E i \in DOMAIN plan : plan[i].compensation = c) => I # {}
  BY <1>5
<1>9. I # {} => Undo!PositionOf(c, plan) \in I
  BY <1>1, <1>4
<1>10. I = {} => Undo!PositionOf(c, plan) = 0
  BY <1>1
<1>11. Undo!PositionOf(c, plan) > 0 => I # {}
  BY <1>10
<1>12. \A i \in I : i \in DOMAIN plan /\ plan[i].compensation = c
  BY <1>3, <1>5
<1> QED
  BY <1>6, <1>7, <1>8, <1>9, <1>10, <1>11, <1>12

Moved ==
  << Undo!Step("restore_source_fqdn", "create_target"), Undo!Step("restart_source", "quiesce"),
     Undo!Step("delete_target_resource", "create_target"),
     Undo!Step("release_source_pins", "create_target") >>

Rest(E) == IF {"quiesce", "create_target"} \subseteq E THEN Moved
           ELSE OwedIn("quiesce", E) \o OwedIn("create_target", E)

\* Behind any steps that restore no domain and restart no source, the restore is
\* moved before the restart.
LEMMA MoveInTheRest ==
  ASSUME NEW before \in Seq(RollbackSteps), NEW E \in SUBSET Undo!SideEffects,
         \A i \in DOMAIN before :
           before[i].compensation \notin {"restore_source_fqdn", "restart_source"}
  PROVE  Undo!MoveForward((before \o OwedIn("quiesce", E)) \o OwedIn("create_target", E),
                          << "restore_source_fqdn", "restart_source" >>)
         = before \o Rest(E)
<1> DEFINE Q == OwedIn("quiesce", E)
           K == OwedIn("create_target", E)
           steps == (before \o Q) \o K
           n == Len(before)
           F == Undo!PositionOf("restore_source_fqdn", steps)
           R == Undo!PositionOf("restart_source", steps)
<1>1. /\ n \in Nat /\ DOMAIN before = 1 .. n
      /\ Q \in Seq(RollbackSteps) /\ K \in Seq(RollbackSteps)
      /\ steps \in Seq(RollbackSteps) /\ steps = before \o (Q \o K)
  <2>1. "quiesce" \in Undo!States /\ "create_target" \in Undo!States
    BY DEF Undo!States, Undo!Order
  <2>2. Q \in Seq(RollbackSteps) /\ K \in Seq(RollbackSteps)
    BY <2>1, OwedInIs
  <2> HIDE DEF Q, K, RollbackSteps
  <2>3. before \o Q \in Seq(RollbackSteps) /\ steps \in Seq(RollbackSteps)
    BY <2>2, ConcatProperties
  <2>4. steps = before \o (Q \o K)
    BY <2>2, ConcatAssociative
  <2> QED
    BY <2>2, <2>3, <2>4
<1>2. Undo!MoveForward(steps, << "restore_source_fqdn", "restart_source" >>) =
        IF F > 0 /\ R > 0 /\ F > R
        THEN Undo!InsertAt(Undo!RemoveAt(steps, F), R, steps[F])
        ELSE steps
  BY DEF Undo!MoveForward
<1>3. CASE {"quiesce", "create_target"} \subseteq E
  <2> DEFINE r == Undo!Step("restart_source", "quiesce")
             d == Undo!Step("delete_target_resource", "create_target")
             f == Undo!Step("restore_source_fqdn", "create_target")
             u == Undo!Step("release_source_pins", "create_target")
             without == Undo!RemoveAt(steps, F)
             result == Undo!InsertAt(without, R, steps[F])
             wanted == before \o Moved
  <2>1. Q = << r >> /\ K = << d, f, u >>
    BY <1>3, OwedInIs
  <2>2. {r, d, f, u} \subseteq RollbackSteps
    BY DEF Undo!Step, RollbackSteps, Undo!Compensations, Undo!SideEffects
  <2>3. /\ Len(steps) = n + 4
        /\ \A i \in 1 .. n : steps[i] = before[i]
        /\ steps[n + 1] = r /\ steps[n + 2] = d /\ steps[n + 3] = f /\ steps[n + 4] = u
    <3> HIDE DEF Q, K, n, r, d, f, u, RollbackSteps
    <3>1. /\ Len(before \o Q) = n + 1 /\ (before \o Q)[n + 1] = r
          /\ \A i \in 1 .. n : (before \o Q)[i] = before[i]
      BY <1>1, <2>1, ConcatProperties DEF n
    <3>2. before \o Q \in Seq(RollbackSteps)
      BY <1>1, ConcatProperties
    <3> QED
      <4> DEFINE pq == before \o Q
      <4>1. Len(K) = 3 /\ K[1] = d /\ K[2] = f /\ K[3] = u
        BY <2>1
      <4> HIDE DEF pq
      <4>2. /\ Len(pq \o K) = Len(pq) + Len(K)
            /\ \A i \in 1 .. Len(pq) + Len(K) :
                 (pq \o K)[i] = IF i <= Len(pq) THEN pq[i] ELSE K[i - Len(pq)]
        BY <1>1, <3>2, ConcatProperties DEF pq
      <4>3. Len(pq) = n + 1 /\ pq[n + 1] = r /\ \A i \in 1 .. n : pq[i] = before[i]
        BY <3>1 DEF pq
      <4>4. /\ (n + 1) + 3 = n + 4
            /\ (n + 2) - (n + 1) = 1 /\ (n + 3) - (n + 1) = 2 /\ (n + 4) - (n + 1) = 3
            /\ \A i \in 1 .. n : i \in 1 .. n + 4 /\ i <= n + 1
            /\ n + 1 \in 1 .. n + 4 /\ n + 2 \in 1 .. n + 4 /\ n + 3 \in 1 .. n + 4
            /\ n + 4 \in 1 .. n + 4
            /\ n + 1 <= n + 1 /\ ~(n + 2 <= n + 1) /\ ~(n + 3 <= n + 1) /\ ~(n + 4 <= n + 1)
        BY <1>1
      <4>5. /\ Len(pq \o K) = n + 4
            /\ \A i \in 1 .. n : (pq \o K)[i] = before[i]
            /\ (pq \o K)[n + 1] = r /\ (pq \o K)[n + 2] = d /\ (pq \o K)[n + 3] = f
            /\ (pq \o K)[n + 4] = u
        BY <4>1, <4>2, <4>3, <4>4
      <4> QED
        BY <4>5 DEF pq
  <2>4. /\ r.compensation = "restart_source" /\ f.compensation = "restore_source_fqdn"
        /\ d.compensation = "delete_target_resource" /\ u.compensation = "release_source_pins"
    BY DEF Undo!Step
  <2> HIDE DEF r, d, f, u, Q, K, n, RollbackSteps
  <2>5. \A i \in 1 .. n + 4 : i \in 1 .. n \/ i = n + 1 \/ i = n + 2 \/ i = n + 3 \/ i = n + 4
    BY <1>1
  <2> HIDE DEF steps
  <2>6. DOMAIN steps = 1 .. n + 4
    BY <1>1, <2>3
  <2>6a. \A i \in 1 .. n + 4 : steps[i] \in RollbackSteps
    BY <1>1, <2>6
  <2>7. \A i \in 1 .. n : /\ steps[i].compensation # "restore_source_fqdn"
                          /\ steps[i].compensation # "restart_source"
    BY <1>1, <2>3
  <2>8. F = n + 3
    <3>1. ASSUME NEW j \in DOMAIN steps, steps[j].compensation = "restore_source_fqdn"
          PROVE  j = n + 3
      BY <2>3, <2>4, <2>5, <2>6, <2>7, <3>1
    <3>2. n + 3 \in DOMAIN steps /\ steps[n + 3].compensation = "restore_source_fqdn"
      BY <1>1, <2>3, <2>4, <2>6
    <3>3. \A j \in DOMAIN steps : steps[j].compensation = "restore_source_fqdn" => n + 3 <= j
      BY <1>1, <3>1
    <3> QED
      BY <1>1, <3>2, <3>3, PositionIs
  <2>9. R = n + 1
    <3>1. ASSUME NEW j \in DOMAIN steps, steps[j].compensation = "restart_source"
          PROVE  j = n + 1
      BY <2>3, <2>4, <2>5, <2>6, <2>7, <3>1
    <3>2. n + 1 \in DOMAIN steps /\ steps[n + 1].compensation = "restart_source"
      BY <1>1, <2>3, <2>4, <2>6
    <3>3. \A j \in DOMAIN steps : steps[j].compensation = "restart_source" => n + 1 <= j
      BY <1>1, <3>1
    <3> QED
      BY <1>1, <3>2, <3>3, PositionIs
  <2>10. /\ without \in Seq(RollbackSteps) /\ Len(without) = n + 3
         /\ \A i \in 1 .. n + 2 : without[i] = steps[i]
         /\ without[n + 3] = u
    <3> DEFINE a == SubSeq(steps, 1, n + 2)
               b == SubSeq(steps, n + 4, n + 4)
    <3>1. without = a \o b
      <4>1. (n + 3) - 1 = n + 2 /\ (n + 3) + 1 = n + 4
        BY <1>1
      <4> QED
        BY <2>3, <2>8, <4>1 DEF Undo!RemoveAt
    <3>2. /\ a \in Seq(RollbackSteps) /\ Len(a) = n + 2
          /\ \A i \in 1 .. n + 2 : a[i] = steps[i]
      <4>0. \A i \in 1 .. n + 2 : i \in 1 .. n + 4 /\ 1 + i - 1 = i
        BY <1>1
      <4>1. \A i \in 1 .. n + 2 : steps[i] \in RollbackSteps /\ 1 + i - 1 = i
        BY <2>6a, <4>0
      <4>2. 1 \in Int /\ n + 2 \in Int /\ 1 <= n + 2 /\ (n + 2) - 1 + 1 = n + 2
        BY <1>1
      <4> QED
        BY <4>1, <4>2, SubSeqProperties
    <3>3. b \in Seq(RollbackSteps) /\ Len(b) = 1 /\ b[1] = u
      <4>0. \A i \in n + 4 .. n + 4 : i \in 1 .. n + 4
        BY <1>1
      <4>1. \A i \in n + 4 .. n + 4 : steps[i] \in RollbackSteps
        BY <2>6a, <4>0
      <4>2. n + 4 \in Int /\ n + 4 <= n + 4 /\ (n + 4) - (n + 4) + 1 = 1 /\ (n + 4) + 1 - 1 = n + 4
        BY <1>1
      <4>3. b \in Seq(RollbackSteps) /\ Len(b) = 1 /\ b[1] = steps[n + 4]
        BY <4>1, <4>2, SubSeqProperties
      <4> QED
        BY <2>3, <4>3
    <3> HIDE DEF a, b, without
    <3>4. /\ without \in Seq(RollbackSteps) /\ Len(without) = (n + 2) + 1
          /\ \A i \in 1 .. (n + 2) + 1 : without[i] = IF i <= n + 2 THEN a[i] ELSE b[i - (n + 2)]
      <4>1. /\ a \o b \in Seq(RollbackSteps) /\ Len(a \o b) = Len(a) + Len(b)
            /\ \A i \in 1 .. Len(a) + Len(b) :
                 (a \o b)[i] = IF i <= Len(a) THEN a[i] ELSE b[i - Len(a)]
        BY <3>2, <3>3, ConcatProperties
      <4>2. Len(a) + Len(b) = (n + 2) + 1
        BY <3>2, <3>3
      <4> QED
        BY <3>1, <3>2, <4>1, <4>2
    <3>5. (n + 2) + 1 = n + 3 /\ (n + 3) - (n + 2) = 1 /\ n + 3 \in 1 .. n + 3 /\ ~(n + 3 <= n + 2)
      BY <1>1
    <3>6. \A i \in 1 .. n + 2 : i \in 1 .. n + 3 /\ i <= n + 2
      BY <1>1
    <3> QED
      BY <3>2, <3>3, <3>4, <3>5, <3>6
  <2> HIDE DEF without
  <2>10a. \A i \in 1 .. n + 3 : without[i] \in RollbackSteps
    BY <2>10
  <2>11. result = (SubSeq(without, 1, n) \o << f >>) \o SubSeq(without, n + 1, n + 3)
    <3>1. (n + 1) - 1 = n
      BY <1>1
    <3> QED
      BY <2>3, <2>8, <2>9, <2>10, <3>1 DEF Undo!InsertAt
  <2>12. SubSeq(without, 1, n) = before
    <3>1. /\ SubSeq(without, 1, n) \in Seq(RollbackSteps) /\ Len(SubSeq(without, 1, n)) = n
          /\ \A i \in 1 .. n : SubSeq(without, 1, n)[i] = without[i]
      <4>1. \A i \in 1 .. n : without[i] \in RollbackSteps /\ 1 + i - 1 = i
        BY <1>1, <2>10a
      <4>2. 1 \in Int /\ n \in Int /\ n - 1 + 1 = n /\ (IF 1 <= n THEN n - 1 + 1 ELSE 0) = n
        BY <1>1
      <4> QED
        BY <4>1, <4>2, SubSeqProperties
    <3>2. \A i \in 1 .. n : without[i] = before[i]
      <4>1. \A i \in 1 .. n : i \in 1 .. n + 2
        BY <1>1
      <4> QED
        BY <2>3, <2>10, <4>1
    <3>3. Len(before) = n
      BY DEF n
    <3> QED
      BY <3>1, <3>2, <3>3, SeqEqual
  <2>13. SubSeq(without, n + 1, n + 3) = << r, d, u >>
    <3> DEFINE t == SubSeq(without, n + 1, n + 3)
    <3>1. /\ t \in Seq(RollbackSteps) /\ Len(t) = 3
          /\ t[1] = without[n + 1] /\ t[2] = without[n + 2] /\ t[3] = without[n + 3]
      <4>1. \A i \in n + 1 .. n + 3 : without[i] \in RollbackSteps
        BY <1>1, <2>10a
      <4>2. /\ n + 1 \in Int /\ n + 3 \in Int /\ n + 1 <= n + 3 /\ (n + 3) - (n + 1) + 1 = 3
            /\ (n + 1) + 1 - 1 = n + 1 /\ (n + 1) + 2 - 1 = n + 2 /\ (n + 1) + 3 - 1 = n + 3
        BY <1>1
      <4>3. /\ t \in Seq(RollbackSteps) /\ Len(t) = 3
            /\ \A i \in 1 .. 3 : t[i] = without[(n + 1) + i - 1]
        BY <4>1, <4>2, SubSeqProperties
      <4> HIDE DEF t
      <4> QED
        BY <4>2, <4>3
    <3>2. t[1] = r /\ t[2] = d /\ t[3] = u
      <4>1. n + 1 \in 1 .. n + 2 /\ n + 2 \in 1 .. n + 2
        BY <1>1
      <4> HIDE DEF t
      <4> QED
        BY <2>3, <2>10, <3>1, <4>1
    <3>3. t = << t[1], t[2], t[3] >>
      <4> HIDE DEF t
      <4> QED
        BY <3>1
    <3> QED
      BY <3>2, <3>3 DEF t
  <2>14. result = before \o << f, r, d, u >>
    <3>1. result = (before \o << f >>) \o << r, d, u >>
      BY <2>11, <2>12, <2>13
    <3>2. << f >> \in Seq(RollbackSteps) /\ << r, d, u >> \in Seq(RollbackSteps)
      BY <2>2
    <3>3. result = before \o (<< f >> \o << r, d, u >>)
      <4> DEFINE a == << f >>
                 b == << r, d, u >>
      <4>1. a \in Seq(RollbackSteps) /\ b \in Seq(RollbackSteps) /\ result = (before \o a) \o b
        BY <3>1, <3>2
      <4> HIDE DEF a, b, result
      <4>2. (before \o a) \o b = before \o (a \o b)
        BY <4>1, ConcatAssociative
      <4> QED
        BY <4>1, <4>2 DEF a, b
    <3>4. << f >> \o << r, d, u >> = << f, r, d, u >>
      <4> DEFINE a == << f >>
                 b == << r, d, u >>
      <4>1. /\ Len(a) = 1 /\ a[1] = f /\ Len(b) = 3 /\ b[1] = r /\ b[2] = d /\ b[3] = u
        OBVIOUS
      <4> HIDE DEF a, b
      <4>2. Len(a \o b) = 4 /\ (a \o b)[1] = f /\ (a \o b)[2] = r /\ (a \o b)[3] = d
            /\ (a \o b)[4] = u /\ a \o b \in Seq(RollbackSteps)
        BY <3>2, <4>1, ConcatProperties DEF a, b
      <4> DEFINE x == a \o b
      <4> HIDE DEF x
      <4>3. x \in Seq(RollbackSteps) /\ Len(x) = 4
        BY <4>2 DEF x
      <4>4. x = << x[1], x[2], x[3], x[4] >>
        BY <4>3
      <4> QED
        BY <4>2, <4>4 DEF a, b, x
    <3> QED
      BY <3>3, <3>4
  <2>15. steps[F] = f
    BY <2>3, <2>8
  <2>16. F > 0 /\ R > 0 /\ F > R
    BY <1>1, <2>8, <2>9
  <2> HIDE DEF F, R
  <2>17. Undo!MoveForward(steps, << "restore_source_fqdn", "restart_source" >>) = result
    BY <1>2, <2>16 DEF without
  <2>18. Rest(E) = << f, r, d, u >>
    BY <1>3 DEF Rest, Moved, f, r, d, u
  <2> HIDE DEF result
  <2> QED
    BY <2>14, <2>17, <2>18 DEF steps, Q, K
<1>4. CASE ~({"quiesce", "create_target"} \subseteq E)
  <2>1. steps = before \o Rest(E)
    BY <1>1, <1>4 DEF Rest
  <2>2. \A i \in DOMAIN steps : i \in 1 .. n \/ steps[i] \in ToSet(Q) \/ steps[i] \in ToSet(K)
    <3> HIDE DEF Q, K, n, RollbackSteps
    <3>1. Len(steps) = n + (Len(Q) + Len(K)) /\ Len(Q) \in Nat /\ Len(K) \in Nat
      BY <1>1 DEF n
    <3>2. \A i \in 1 .. Len(Q) : steps[n + i] = Q[i]
      BY <1>1 DEF n
    <3>3. \A i \in 1 .. Len(K) : steps[n + Len(Q) + i] = K[i]
      BY <1>1 DEF n
    <3> SUFFICES ASSUME NEW i \in DOMAIN steps, i \notin 1 .. n
                 PROVE  steps[i] \in ToSet(Q) \/ steps[i] \in ToSet(K)
      OBVIOUS
    <3>4. i \in 1 .. (n + (Len(Q) + Len(K)))
      BY <1>1, <3>1
    <3>5. CASE i <= n + Len(Q)
      <4>1. i - n \in 1 .. Len(Q) /\ i = n + (i - n)
        BY <1>1, <3>1, <3>4, <3>5
      <4> HIDE DEF steps
      <4> QED
        BY <3>2, <4>1 DEF ToSet
    <3>6. CASE i > n + Len(Q)
      <4>1. i - n - Len(Q) \in 1 .. Len(K) /\ i = n + Len(Q) + (i - n - Len(Q))
        BY <1>1, <3>1, <3>4, <3>6
      <4> HIDE DEF steps
      <4> QED
        BY <3>3, <4>1 DEF ToSet
    <3> QED
      BY <1>1, <3>1, <3>4, <3>5, <3>6
  <2>3. \A i \in 1 .. n : steps[i] = before[i]
    <3> HIDE DEF Q, K
    <3> QED
      BY <1>1
  <2>4. CASE "quiesce" \notin E
    <3>1. Q = << >>
      BY <2>4, OwedInIs
    <3>2. \A x \in ToSet(K) : x.compensation # "restart_source"
      BY OwedInIs DEF ToSet, Undo!Step
    <3>3. ToSet(Q) = {}
      BY <3>1 DEF ToSet
    <3> HIDE DEF Q, K, steps, RollbackSteps
    <3>4. \A i \in DOMAIN steps : steps[i].compensation # "restart_source"
      BY <1>1, <2>2, <2>3, <3>2, <3>3
    <3>5. R = 0
      BY <1>1, <3>4, PositionIs
    <3>6. Undo!MoveForward(steps, << "restore_source_fqdn", "restart_source" >>) = steps
      BY <1>2, <3>5
    <3> QED
      BY <2>1, <3>6 DEF steps, Q, K
  <2>5. CASE "create_target" \notin E
    <3>1. K = << >>
      BY <2>5, OwedInIs
    <3>2. \A x \in ToSet(Q) : x.compensation # "restore_source_fqdn"
      BY OwedInIs DEF ToSet, Undo!Step
    <3>3. ToSet(K) = {}
      BY <3>1 DEF ToSet
    <3> HIDE DEF Q, K, steps, RollbackSteps
    <3>4. \A i \in DOMAIN steps : steps[i].compensation # "restore_source_fqdn"
      BY <1>1, <2>2, <2>3, <3>2, <3>3
    <3>5. F = 0
      BY <1>1, <3>4, PositionIs
    <3>6. Undo!MoveForward(steps, << "restore_source_fqdn", "restart_source" >>) = steps
      BY <1>2, <3>5
    <3> QED
      BY <2>1, <3>6 DEF steps, Q, K
  <2> QED
    BY <1>4, <2>4, <2>5
<1> QED
  BY <1>3, <1>4

\* Where a compensation stands in the plan: before those of a greater rank.
Rank(E) ==
  [restore_source_name |-> 1, stop_target |-> 2, drop_target_volumes |-> 3,
   revoke_ephemeral_key |-> 4,
   restore_source_fqdn |-> IF {"quiesce", "create_target"} \subseteq E THEN 5 ELSE 8,
   restart_source |-> 6, delete_target_resource |-> 7, release_source_pins |-> 9]

Ascends(p, rank) ==
  \A i, j \in DOMAIN p : i < j => rank[p[i].compensation] < rank[p[j].compensation]

\* Such sequences can be joined.
LEMMA AscendsTogether ==
  ASSUME NEW p \in Seq(RollbackSteps), NEW q \in Seq(RollbackSteps), NEW rank
  PROVE  /\ p \o q \in Seq(RollbackSteps)
         /\ ToSet(p \o q) = ToSet(p) \cup ToSet(q)
         /\ /\ Ascends(p, rank) /\ Ascends(q, rank)
            /\ \A x \in ToSet(p), y \in ToSet(q) : rank[x.compensation] < rank[y.compensation]
            => Ascends(p \o q, rank)
<1> DEFINE pq == p \o q
           m == Len(p)
           n == Len(q)
<1> HIDE DEF RollbackSteps
<1>1. /\ pq \in Seq(RollbackSteps) /\ Len(pq) = m + n
      /\ \A i \in 1 .. m + n : pq[i] = IF i <= m THEN p[i] ELSE q[i - m]
  BY ConcatProperties
<1>2. /\ m \in Nat /\ n \in Nat /\ DOMAIN p = 1 .. m /\ DOMAIN q = 1 .. n /\ DOMAIN pq = 1 .. m + n
  BY <1>1
<1>3. ToSet(pq) = ToSet(p) \cup ToSet(q)
  <2>1. \A s : Range(s) = ToSet(s)
    BY DEF Range, ToSet
  <2> QED
    BY <2>1, RangeConcatenation
<1> HIDE DEF pq, m, n
<1>4. ASSUME Ascends(p, rank), Ascends(q, rank),
             \A x \in ToSet(p), y \in ToSet(q) : rank[x.compensation] < rank[y.compensation],
             NEW i \in 1 .. m + n, NEW j \in 1 .. m + n, i < j
      PROVE  rank[pq[i].compensation] < rank[pq[j].compensation]
  <2>1. CASE j <= m
    <3>1. i \in 1 .. m /\ j \in 1 .. m /\ i <= m
      BY <1>2, <1>4, <2>1
    <3>2. pq[i] = p[i] /\ pq[j] = p[j]
      BY <1>1, <2>1, <3>1
    <3> QED
      BY <1>2, <1>4, <3>1, <3>2 DEF Ascends
  <2>2. CASE i <= m /\ j > m
    <3>1. i \in 1 .. m /\ j - m \in 1 .. n /\ ~(j <= m)
      BY <1>2, <1>4, <2>2
    <3>2. pq[i] = p[i] /\ pq[j] = q[j - m]
      BY <1>1, <2>2, <3>1
    <3>3. p[i] \in ToSet(p) /\ q[j - m] \in ToSet(q)
      BY <1>2, <3>1 DEF ToSet
    <3> QED
      BY <1>4, <3>2, <3>3
  <2>3. CASE i > m
    <3>1. i - m \in 1 .. n /\ j - m \in 1 .. n /\ i - m < j - m /\ ~(i <= m) /\ ~(j <= m)
      BY <1>2, <1>4, <2>3
    <3>2. pq[i] = q[i - m] /\ pq[j] = q[j - m]
      BY <1>1, <3>1
    <3> QED
      BY <1>2, <1>4, <3>1, <3>2 DEF Ascends
  <2> QED
    BY <1>2, <1>4, <2>1, <2>2, <2>3
<1> QED
  BY <1>1, <1>2, <1>3, <1>4 DEF Ascends, pq

StepsBefore(E) ==
  (IF "finalize" \in E THEN {Undo!Step("restore_source_name", "finalize")} ELSE {})
  \cup (IF "start_target" \in E THEN {Undo!Step("stop_target", "start_target")} ELSE {})
  \cup (IF "copy" \in E THEN {Undo!Step("drop_target_volumes", "copy"),
                              Undo!Step("revoke_ephemeral_key", "copy")} ELSE {})

StepsOfRest(E) ==
  (IF "quiesce" \in E THEN {Undo!Step("restart_source", "quiesce")} ELSE {})
  \cup (IF "create_target" \in E THEN {Undo!Step("delete_target_resource", "create_target"),
                                       Undo!Step("restore_source_fqdn", "create_target"),
                                       Undo!Step("release_source_pins", "create_target")} ELSE {})

\* The steps before the one that moves.
LEMMA BeforeFacts ==
  ASSUME NEW E \in SUBSET Undo!SideEffects
  PROVE  /\ Before(E) \in Seq(RollbackSteps)
         /\ ToSet(Before(E)) = StepsBefore(E)
         /\ Ascends(Before(E), Rank(E))
         /\ \A i \in DOMAIN Before(E) :
              Before(E)[i].compensation \notin {"restore_source_fqdn", "restart_source"}
<1> DEFINE F == OwedIn("finalize", E)
           T == OwedIn("start_target", E)
           C == OwedIn("copy", E)
           rank == Rank(E)
<1>1. F \in Seq(RollbackSteps) /\ T \in Seq(RollbackSteps) /\ C \in Seq(RollbackSteps)
  <2>1. {"finalize", "start_target", "copy"} \subseteq Undo!States
    BY DEF Undo!States, Undo!Order
  <2> QED
    BY <2>1, OwedInIs
<1>2. /\ ToSet(F) = IF "finalize" \in E THEN {Undo!Step("restore_source_name", "finalize")} ELSE {}
      /\ ToSet(T) = IF "start_target" \in E THEN {Undo!Step("stop_target", "start_target")} ELSE {}
      /\ ToSet(C) = IF "copy" \in E THEN {Undo!Step("drop_target_volumes", "copy"),
                                          Undo!Step("revoke_ephemeral_key", "copy")} ELSE {}
  <2>1. \A x : ToSet(<< x >>) = {x}
    BY DEF ToSet
  <2>2. \A x, y : ToSet(<< x, y >>) = {x, y}
    BY DEF ToSet
  <2>3. ToSet(<< >>) = {}
    BY DEF ToSet
  <2> QED
    BY <2>1, <2>2, <2>3, OwedInIs
<1>3. /\ rank["restore_source_name"] = 1 /\ rank["stop_target"] = 2
      /\ rank["drop_target_volumes"] = 3 /\ rank["revoke_ephemeral_key"] = 4
  BY DEF Rank
<1>4. \A c, s : Undo!Step(c, s).compensation = c
  BY DEF Undo!Step
<1>5. Ascends(F, rank) /\ Ascends(T, rank) /\ Ascends(C, rank)
  <2> HIDE DEF rank
  <2>1. \A x : Ascends(<< x >>, rank)
    BY DEF Ascends
  <2>2. Ascends(<< >>, rank)
    BY DEF Ascends
  <2>3. \A x, y : rank[x.compensation] < rank[y.compensation] => Ascends(<< x, y >>, rank)
    BY DEF Ascends
  <2>4. F = << >> \/ \E x : F = << x >>
    BY OwedInIs
  <2>5. T = << >> \/ \E x : T = << x >>
    BY OwedInIs
  <2>6. C = << >> \/ C = << Undo!Step("drop_target_volumes", "copy"), Undo!Step("revoke_ephemeral_key", "copy") >>
    BY OwedInIs
  <2> HIDE DEF F, T, C
  <2>7. Ascends(F, rank) /\ Ascends(T, rank)
    BY <2>1, <2>2, <2>4, <2>5
  <2>8. Ascends(C, rank)
    <3>1. rank[Undo!Step("drop_target_volumes", "copy").compensation]
            < rank[Undo!Step("revoke_ephemeral_key", "copy").compensation]
      BY <1>3, <1>4
    <3> QED
      BY <2>2, <2>3, <2>6, <3>1
  <2> QED
    BY <2>7, <2>8
<1> HIDE DEF F, T, C, rank
<1>6. /\ F \o T \in Seq(RollbackSteps) /\ ToSet(F \o T) = ToSet(F) \cup ToSet(T)
      /\ Ascends(F \o T, rank)
  <2>1. \A x \in ToSet(F), y \in ToSet(T) : rank[x.compensation] < rank[y.compensation]
    BY <1>2, <1>3, <1>4
  <2> QED
    BY <1>1, <1>5, <2>1, AscendsTogether
<1>7. /\ (F \o T) \o C \in Seq(RollbackSteps) /\ ToSet((F \o T) \o C) = ToSet(F \o T) \cup ToSet(C)
      /\ Ascends((F \o T) \o C, rank)
  <2>1. \A x \in ToSet(F) \cup ToSet(T), y \in ToSet(C) : rank[x.compensation] < rank[y.compensation]
    BY <1>2, <1>3, <1>4
  <2> QED
    BY <1>1, <1>5, <1>6, <2>1, AscendsTogether
<1>8. Before(E) = (F \o T) \o C
  BY DEF Before, F, T, C
<1>9. ToSet(Before(E)) = StepsBefore(E)
  BY <1>2, <1>6, <1>7, <1>8 DEF StepsBefore
<1>10. ASSUME NEW i \in DOMAIN Before(E)
       PROVE  Before(E)[i].compensation \notin {"restore_source_fqdn", "restart_source"}
  <2>1. Before(E)[i] \in StepsBefore(E)
    BY <1>9 DEF ToSet
  <2> QED
    BY <1>4, <2>1 DEF StepsBefore
<1> QED
  BY <1>7, <1>8, <1>9, <1>10 DEF rank

\* What is planned for any journal: the steps owed, and the one move.
LEMMA PlanIs ==
  ASSUME RollbackQuestion(question)
  PROVE  LET E == Undo!Owed(question) \cap Undo!SideEffects
         IN  Undo!Plan(question) = Before(E) \o Rest(E)
<1> DEFINE owed == Undo!Owed(question)
           E == owed \cap Undo!SideEffects
           completed == question.completed
           more == owed \ Undo!ToSet(completed)
           all == completed \o Undo!SetToSeq(more)
<1>1. Undo!ToSet(completed) \subseteq owed /\ owed \subseteq Undo!States
  <2>1. Undo!ToSet(completed) \subseteq Undo!States
    BY DEF RollbackQuestion, Undo!ToSet
  <2>2. "quiesce" \in Undo!States
    BY DEF Undo!States, Undo!Order
  <2> QED
    BY <2>1, <2>2 DEF RollbackQuestion, Undo!Owed, Undo!OwedStates
<1>2. IsFiniteSet(more)
  <2>1. IsFiniteSet(Undo!States)
    <3>1. IsFiniteSet(1 .. 13)
      <4>1. 1 \in Int /\ 13 \in Int
        OBVIOUS
      <4> QED
        BY <4>1, FS_Interval
    <3> DEFINE f == [i \in 1 .. 13 |-> Undo!Order[i]]
    <3>2. f \in Surjection(1 .. 13, Undo!States)
      BY DEF Undo!States, Surjection
    <3> HIDE DEF f
    <3> QED
      BY <3>1, <3>2, FS_Surjection
  <2> QED
    BY <1>1, <2>1, FS_Subset
<1>3. Undo!ToSet(all) = owed
  <2> HIDE DEF owed, more
  <2>1. Undo!SetToSeq(more) \in Seq(more) /\ ToSet(Undo!SetToSeq(more)) = more
    BY <1>2, SetToSeqElements
  <2>2. completed \in Seq(Undo!States) /\ Undo!SetToSeq(more) \in Seq(Undo!States)
    BY <1>1, <2>1 DEF RollbackQuestion, more
  <2>3. \A s : Range(s) = ToSet(s) /\ Undo!ToSet(s) = ToSet(s)
    BY DEF Range, ToSet, Undo!ToSet
  <2>4. Range(all) = Range(completed) \cup Range(Undo!SetToSeq(more))
    BY <2>2, RangeConcatenation
  <2> HIDE DEF all
  <2> QED
    BY <1>1, <2>1, <2>3, <2>4 DEF more
<1>4. DOMAIN Undo!CompensationMap = Undo!SideEffects
  BY DEF Undo!CompensationMap
<1>5. Undo!Plan(question) = Undo!PlanFor(all, Undo!Order, Undo!CompensationMap, Undo!Precedence)
  BY DEF Undo!Plan
<1> DEFINE last == Undo!Reverse(Undo!Order)
           seqs == [i \in DOMAIN last |-> Undo!OwedSteps(last[i], E, Undo!CompensationMap)]
           pair == << "restore_source_fqdn", "restart_source" >>
<1>6. Undo!PlanFor(all, Undo!Order, Undo!CompensationMap, Undo!Precedence) =
        Undo!FoldLeft(Undo!MoveForward, Undo!FlattenSeq(seqs), << pair >>)
  <2> HIDE DEF all, owed
  <2> QED
    BY <1>3, <1>4 DEF Undo!PlanFor, Undo!Precedence
<1>7. Undo!FlattenSeq(seqs) = (Before(E) \o OwedIn("quiesce", E)) \o OwedIn("create_target", E)
  <2> HIDE DEF owed
  <2> QED
    BY InReverseOrder
<1>8. Undo!FoldLeft(Undo!MoveForward, Undo!FlattenSeq(seqs), << pair >>) =
        Undo!MoveForward(Undo!FlattenSeq(seqs), pair)
  BY OneToMove
<1>9. /\ Before(E) \in Seq(RollbackSteps)
      /\ \A i \in DOMAIN Before(E) :
           Before(E)[i].compensation \notin {"restore_source_fqdn", "restart_source"}
  BY BeforeFacts
<1>10. Undo!MoveForward((Before(E) \o OwedIn("quiesce", E)) \o OwedIn("create_target", E), pair)
         = Before(E) \o Rest(E)
  <2> HIDE DEF owed
  <2> QED
    BY <1>9, MoveInTheRest
<1> HIDE DEF seqs, all, pair, E, owed
<1> QED
  BY <1>5, <1>6, <1>7, <1>8, <1>10 DEF E, owed

\* The plan ascends, and its steps are those owed.
LEMMA PlanFacts ==
  ASSUME NEW E \in SUBSET Undo!SideEffects
  PROVE  /\ Before(E) \o Rest(E) \in Seq(RollbackSteps)
         /\ ToSet(Before(E) \o Rest(E)) = StepsBefore(E) \cup StepsOfRest(E)
         /\ Ascends(Before(E) \o Rest(E), Rank(E))
<1> DEFINE Q == OwedIn("quiesce", E)
           K == OwedIn("create_target", E)
           rank == Rank(E)
           d == Undo!Step("delete_target_resource", "create_target")
           f == Undo!Step("restore_source_fqdn", "create_target")
           u == Undo!Step("release_source_pins", "create_target")
           r == Undo!Step("restart_source", "quiesce")
<1>1. /\ rank["restore_source_fqdn"] = (IF {"quiesce", "create_target"} \subseteq E THEN 5 ELSE 8)
      /\ rank["restart_source"] = 6 /\ rank["delete_target_resource"] = 7
      /\ rank["release_source_pins"] = 9
      /\ rank["restore_source_name"] = 1 /\ rank["stop_target"] = 2
      /\ rank["drop_target_volumes"] = 3 /\ rank["revoke_ephemeral_key"] = 4
  BY DEF Rank
<1>2. /\ d.compensation = "delete_target_resource" /\ f.compensation = "restore_source_fqdn"
      /\ u.compensation = "release_source_pins" /\ r.compensation = "restart_source"
  BY DEF Undo!Step
<1>3. {d, f, u, r} \subseteq RollbackSteps
  BY DEF Undo!Step, RollbackSteps, Undo!Compensations, Undo!SideEffects
<1>4. /\ Q = IF "quiesce" \in E THEN << r >> ELSE << >>
      /\ K = IF "create_target" \in E THEN << d, f, u >> ELSE << >>
  BY OwedInIs
<1>5. /\ Rest(E) = IF {"quiesce", "create_target"} \subseteq E THEN << f, r, d, u >> ELSE Q \o K
  BY DEF Rest, Moved
<1>6. StepsOfRest(E) = (IF "quiesce" \in E THEN {r} ELSE {})
                       \cup (IF "create_target" \in E THEN {d, f, u} ELSE {})
  BY DEF StepsOfRest
<1>7. /\ ToSet(<< >>) = {} /\ ToSet(<< r >>) = {r} /\ ToSet(<< d, f, u >>) = {d, f, u}
      /\ ToSet(<< f, r, d, u >>) = {d, f, u, r}
  BY DEF ToSet
<1> HIDE DEF rank, d, f, u, r, Q, K, RollbackSteps
<1>8. /\ << >> \in Seq(RollbackSteps) /\ << r >> \in Seq(RollbackSteps)
      /\ << d, f, u >> \in Seq(RollbackSteps) /\ << f, r, d, u >> \in Seq(RollbackSteps)
  BY <1>3
<1>9. /\ Rest(E) \in Seq(RollbackSteps)
      /\ ToSet(Rest(E)) = StepsOfRest(E)
      /\ Ascends(Rest(E), rank)
  <2>1. CASE "quiesce" \in E /\ "create_target" \in E
    <3>1. Rest(E) = << f, r, d, u >> /\ StepsOfRest(E) = {d, f, u, r}
      BY <1>5, <1>6, <2>1
    <3>2. rank[f.compensation] = 5 /\ rank[r.compensation] = 6 /\ rank[d.compensation] = 7
          /\ rank[u.compensation] = 9
      BY <1>1, <1>2, <2>1
    <3>3. Ascends(<< f, r, d, u >>, rank)
      <4> DEFINE p == << f, r, d, u >>
      <4>1. p[1] = f /\ p[2] = r /\ p[3] = d /\ p[4] = u /\ DOMAIN p = 1 .. 4
        OBVIOUS
      <4> HIDE DEF p
      <4>2. \A i, j \in 1 .. 4 : i < j =>
              \/ i = 1 /\ (j = 2 \/ j = 3 \/ j = 4)
              \/ i = 2 /\ (j = 3 \/ j = 4)
              \/ i = 3 /\ j = 4
        OBVIOUS
      <4>3. \A i, j \in 1 .. 4 : i < j => rank[p[i].compensation] < rank[p[j].compensation]
        BY <3>2, <4>1, <4>2
      <4> QED
        BY <4>1, <4>3 DEF Ascends, p
    <3> QED
      BY <1>7, <1>8, <3>1, <3>3
  <2>2. CASE "quiesce" \in E /\ "create_target" \notin E
    <3>1. Rest(E) = << r >> /\ StepsOfRest(E) = {r}
      <4>1. << r >> \o << >> = << r >>
        BY <1>8, ConcatEmptySeq
      <4> QED
        BY <1>4, <1>5, <1>6, <2>2, <4>1
    <3>2. Ascends(<< r >>, rank)
      BY DEF Ascends
    <3> QED
      BY <1>7, <1>8, <3>1, <3>2
  <2>3. CASE "quiesce" \notin E /\ "create_target" \in E
    <3>1. Rest(E) = << d, f, u >> /\ StepsOfRest(E) = {d, f, u}
      <4>1. << >> \o << d, f, u >> = << d, f, u >>
        BY <1>8, ConcatEmptySeq
      <4> QED
        BY <1>4, <1>5, <1>6, <2>3, <4>1
    <3>2. rank[d.compensation] = 7 /\ rank[f.compensation] = 8 /\ rank[u.compensation] = 9
      BY <1>1, <1>2, <2>3
    <3>3. Ascends(<< d, f, u >>, rank)
      <4> DEFINE p == << d, f, u >>
      <4>1. p[1] = d /\ p[2] = f /\ p[3] = u /\ DOMAIN p = 1 .. 3
        OBVIOUS
      <4> HIDE DEF p
      <4>2. \A i, j \in 1 .. 3 : i < j =>
              (i = 1 /\ (j = 2 \/ j = 3)) \/ (i = 2 /\ j = 3)
        OBVIOUS
      <4>3. \A i, j \in 1 .. 3 : i < j => rank[p[i].compensation] < rank[p[j].compensation]
        BY <3>2, <4>1, <4>2
      <4> QED
        BY <4>1, <4>3 DEF Ascends, p
    <3> QED
      BY <1>7, <1>8, <3>1, <3>3
  <2>4. CASE "quiesce" \notin E /\ "create_target" \notin E
    <3>1. Rest(E) = << >> /\ StepsOfRest(E) = {}
      <4>1. << >> \o << >> = << >>
        BY <1>8, ConcatEmptySeq
      <4> QED
        BY <1>4, <1>5, <1>6, <2>4, <4>1
    <3>2. Ascends(<< >>, rank)
      BY DEF Ascends
    <3> QED
      BY <1>7, <1>8, <3>1, <3>2
  <2> QED
    BY <2>1, <2>2, <2>3, <2>4
<1>10. ASSUME NEW x \in StepsBefore(E), NEW y \in StepsOfRest(E)
       PROVE  rank[x.compensation] < rank[y.compensation]
  <2>1. rank[x.compensation] \in {1, 2, 3, 4}
    <3>1. x.compensation \in {"restore_source_name", "stop_target", "drop_target_volumes",
                              "revoke_ephemeral_key"}
      BY DEF StepsBefore, Undo!Step
    <3> QED
      BY <1>1, <3>1
  <2>2. rank[y.compensation] \in {5, 6, 7, 8, 9}
    <3>1. y \in {d, f, u, r}
      BY <1>6
    <3> QED
      BY <1>1, <1>2, <3>1
  <2> QED
    BY <2>1, <2>2
<1>11. /\ Before(E) \in Seq(RollbackSteps) /\ ToSet(Before(E)) = StepsBefore(E)
       /\ Ascends(Before(E), rank)
  BY BeforeFacts DEF rank
<1> QED
  BY <1>9, <1>10, <1>11, AscendsTogether DEF rank

\* The names of the steps, in the order of the plan.
LEMMA NamesTogether ==
  ASSUME NEW p \in Seq(RollbackSteps), NEW q \in Seq(RollbackSteps)
  PROVE  /\ Undo!Names(p) \in Seq(Undo!Compensations)
         /\ Undo!Names(p \o q) = Undo!Names(p) \o Undo!Names(q)
<1>1. \A s \in Seq(RollbackSteps) :
        /\ Undo!Names(s) \in Seq(Undo!Compensations) /\ Len(Undo!Names(s)) = Len(s)
        /\ \A i \in 1 .. Len(s) : Undo!Names(s)[i] = s[i].compensation
  <2> SUFFICES ASSUME NEW s \in Seq(RollbackSteps)
               PROVE  /\ Undo!Names(s) \in Seq(Undo!Compensations) /\ Len(Undo!Names(s)) = Len(s)
                      /\ \A i \in 1 .. Len(s) : Undo!Names(s)[i] = s[i].compensation
    OBVIOUS
  <2>1. Len(s) \in Nat /\ DOMAIN s = 1 .. Len(s)
    OBVIOUS
  <2>2. \A i \in 1 .. Len(s) : s[i].compensation \in Undo!Compensations
    <3>1. \A i \in 1 .. Len(s) : s[i] \in RollbackSteps
      OBVIOUS
    <3>2. \A x \in RollbackSteps : x.compensation \in Undo!Compensations
      BY DEF RollbackSteps
    <3> QED
      BY <3>1, <3>2
  <2>3. Undo!Names(s) = [i \in 1 .. Len(s) |-> s[i].compensation]
    BY <2>1 DEF Undo!Names
  <2> QED
    BY <2>1, <2>2, <2>3
<1> DEFINE m == Len(p)
           n == Len(q)
<1> HIDE DEF RollbackSteps
<1>2. /\ p \o q \in Seq(RollbackSteps) /\ Len(p \o q) = m + n
      /\ \A i \in 1 .. m + n : (p \o q)[i] = IF i <= m THEN p[i] ELSE q[i - m]
  BY ConcatProperties
<1>3. /\ Undo!Names(p) \o Undo!Names(q) \in Seq(Undo!Compensations)
      /\ Len(Undo!Names(p) \o Undo!Names(q)) = m + n
      /\ \A i \in 1 .. m + n : (Undo!Names(p) \o Undo!Names(q))[i] =
                                IF i <= m THEN Undo!Names(p)[i] ELSE Undo!Names(q)[i - m]
  <2>1. /\ Undo!Names(p) \in Seq(Undo!Compensations) /\ Undo!Names(q) \in Seq(Undo!Compensations)
        /\ Len(Undo!Names(p)) = m /\ Len(Undo!Names(q)) = n
    BY <1>1
  <2> HIDE DEF m, n
  <2> QED
    BY <2>1, ConcatProperties
<1>4. m \in Nat /\ n \in Nat
  OBVIOUS
<1>5. /\ Undo!Names(p \o q) \in Seq(Undo!Compensations) /\ Len(Undo!Names(p \o q)) = m + n
      /\ \A i \in 1 .. m + n : Undo!Names(p \o q)[i] = (p \o q)[i].compensation
  BY <1>1, <1>2
<1>6. ASSUME NEW i \in 1 .. m + n
      PROVE  Undo!Names(p \o q)[i] = (Undo!Names(p) \o Undo!Names(q))[i]
  <2>1. (i <= m => i \in 1 .. m) /\ (~(i <= m) => i - m \in 1 .. n)
    BY <1>4
  <2>2. CASE i <= m
    BY <1>1, <1>2, <1>3, <1>5, <2>1, <2>2
  <2>3. CASE ~(i <= m)
    BY <1>1, <1>2, <1>3, <1>5, <2>1, <2>3
  <2> QED
    BY <2>2, <2>3
<1>7. Undo!Names(p \o q) = Undo!Names(p) \o Undo!Names(q)
  <2> HIDE DEF m, n
  <2> QED
    BY <1>3, <1>5, <1>6, SeqEqual
<1> QED
  BY <1>1, <1>7

\* The names of the plan are the closed form the executor's model works with.
LEMMA PlanNames ==
  ASSUME NEW owed
  PROVE  LET E == owed \cap Undo!SideEffects
         IN  Undo!Names(Before(E) \o Rest(E)) = Undo!RollbackPlan(owed)
<1> DEFINE E == owed \cap Undo!SideEffects
           F == OwedIn("finalize", E)
           T == OwedIn("start_target", E)
           C == OwedIn("copy", E)
           Q == OwedIn("quiesce", E)
           K == OwedIn("create_target", E)
           both == {"quiesce", "create_target"} \subseteq owed
<1>1. /\ F \in Seq(RollbackSteps) /\ T \in Seq(RollbackSteps) /\ C \in Seq(RollbackSteps)
      /\ Q \in Seq(RollbackSteps) /\ K \in Seq(RollbackSteps)
  <2>1. {"finalize", "start_target", "copy", "quiesce", "create_target"} \subseteq Undo!States
    BY DEF Undo!States, Undo!Order
  <2> QED
    BY <2>1, OwedInIs
<1>2. /\ Undo!Names(F) = Undo!OwedBy("finalize", owed)
      /\ Undo!Names(T) = Undo!OwedBy("start_target", owed)
      /\ Undo!Names(C) = Undo!OwedBy("copy", owed)
      /\ Undo!Names(Q) = Undo!OwedBy("quiesce", owed)
      /\ Undo!Names(K) = Undo!OwedBy("create_target", owed)
  <2>1. Undo!Names(<< >>) = << >>
    BY DEF Undo!Names
  <2>2. \A x : Undo!Names(<< x >>) = << x.compensation >>
    BY DEF Undo!Names
  <2>3. \A x, y : Undo!Names(<< x, y >>) = << x.compensation, y.compensation >>
    BY DEF Undo!Names
  <2>4. \A x, y, z : Undo!Names(<< x, y, z >>) = << x.compensation, y.compensation, z.compensation >>
    BY DEF Undo!Names
  <2>5. \A c, s : Undo!Step(c, s).compensation = c
    BY DEF Undo!Step
  <2>6. \A s \in Undo!SideEffects : s \in E <=> s \in owed
    OBVIOUS
  <2>7. {"finalize", "start_target", "copy", "quiesce", "create_target"} \subseteq Undo!SideEffects
    BY DEF Undo!SideEffects
  <2>8. /\ Undo!Owes("create_target") = << "delete_target_resource", "restore_source_fqdn",
                                           "release_source_pins" >>
        /\ Undo!Owes("quiesce") = << "restart_source" >>
        /\ Undo!Owes("copy") = << "drop_target_volumes", "revoke_ephemeral_key" >>
        /\ Undo!Owes("start_target") = << "stop_target" >>
        /\ Undo!Owes("finalize") = << "restore_source_name" >>
    BY DEF Undo!Owes
  <2> HIDE DEF E
  <2>9. E \in SUBSET Undo!SideEffects
    BY DEF E
  <2>10. Undo!Names(F) = Undo!OwedBy("finalize", owed)
    BY <2>1, <2>2, <2>5, <2>6, <2>7, <2>8, <2>9, OwedInIs DEF Undo!OwedBy
  <2>11. Undo!Names(T) = Undo!OwedBy("start_target", owed)
    BY <2>1, <2>2, <2>5, <2>6, <2>7, <2>8, <2>9, OwedInIs DEF Undo!OwedBy
  <2>12. Undo!Names(C) = Undo!OwedBy("copy", owed)
    BY <2>1, <2>3, <2>5, <2>6, <2>7, <2>8, <2>9, OwedInIs DEF Undo!OwedBy
  <2>13. Undo!Names(Q) = Undo!OwedBy("quiesce", owed)
    BY <2>1, <2>2, <2>5, <2>6, <2>7, <2>8, <2>9, OwedInIs DEF Undo!OwedBy
  <2>14. Undo!Names(K) = Undo!OwedBy("create_target", owed)
    BY <2>1, <2>4, <2>5, <2>6, <2>7, <2>8, <2>9, OwedInIs DEF Undo!OwedBy
  <2> QED
    BY <2>10, <2>11, <2>12, <2>13, <2>14
<1>3. Undo!Names(Rest(E)) =
        IF both THEN << "restore_source_fqdn", "restart_source", "delete_target_resource",
                        "release_source_pins" >>
        ELSE Undo!Names(Q) \o Undo!Names(K)
  <2>1. both <=> {"quiesce", "create_target"} \subseteq E
    BY DEF Undo!SideEffects
  <2>2. Undo!Names(Moved) = << "restore_source_fqdn", "restart_source", "delete_target_resource",
                               "release_source_pins" >>
    BY DEF Undo!Names, Moved, Undo!Step
  <2>3. Undo!Names(Q \o K) = Undo!Names(Q) \o Undo!Names(K)
    BY <1>1, NamesTogether
  <2> HIDE DEF E
  <2> QED
    BY <2>1, <2>2, <2>3 DEF Rest
<1>4. /\ Before(E) = (F \o T) \o C /\ F \o T \in Seq(RollbackSteps)
      /\ Before(E) \in Seq(RollbackSteps)
  <2>1. Before(E) = (F \o T) \o C
    BY DEF Before
  <2> HIDE DEF F, T, C, E, RollbackSteps
  <2> QED
    BY <1>1, <2>1, ConcatProperties
<1>5. Rest(E) \in Seq(RollbackSteps)
  <2>1. E \in SUBSET Undo!SideEffects
    OBVIOUS
  <2>2. Moved \in Seq(RollbackSteps)
    BY DEF Moved, Undo!Step, RollbackSteps, Undo!Compensations, Undo!SideEffects
  <2>3. Q \o K \in Seq(RollbackSteps)
    <3> HIDE DEF Q, K, RollbackSteps
    <3> QED
      BY <1>1, ConcatProperties
  <2> HIDE DEF E, RollbackSteps
  <2> QED
    BY <2>2, <2>3 DEF Rest
<1> HIDE DEF E, F, T, C, Q, K, RollbackSteps
<1>6. /\ Undo!Names(Before(E) \o Rest(E)) = Undo!Names(Before(E)) \o Undo!Names(Rest(E))
      /\ Undo!Names(Before(E)) = Undo!Names(F \o T) \o Undo!Names(C)
      /\ Undo!Names(F \o T) = Undo!Names(F) \o Undo!Names(T)
  BY <1>1, <1>4, <1>5, NamesTogether
<1>7. Undo!RollbackPlan(owed) =
        ((Undo!OwedBy("finalize", owed) \o Undo!OwedBy("start_target", owed))
          \o Undo!OwedBy("copy", owed))
        \o IF both THEN << "restore_source_fqdn", "restart_source", "delete_target_resource",
                           "release_source_pins" >>
           ELSE Undo!OwedBy("quiesce", owed) \o Undo!OwedBy("create_target", owed)
  BY DEF Undo!RollbackPlan
<1> QED
  BY <1>2, <1>3, <1>6, <1>7 DEF E

(***************************************************************************)
(* The plan of the explicit rollback, for any journal: of any length, in   *)
(* any order and with any repetitions (statemachine.py, rollback_plan_for).*)
(***************************************************************************)
THEOREM EveryJournalIsPaid ==
  ASSUME RollbackQuestion(question)
  PROVE  PlanPaysEveryDebt
<1> DEFINE owed == Undo!Owed(question)
           E == owed \cap Undo!SideEffects
           plan == Undo!Plan(question)
           rank == Rank(E)
           At(c) == Undo!PositionOf(c, plan)
<1>1. plan = Before(E) \o Rest(E)
  BY PlanIs
<1>2. /\ plan \in Seq(RollbackSteps)
      /\ ToSet(plan) = StepsBefore(E) \cup StepsOfRest(E)
      /\ Ascends(plan, rank)
  <2> HIDE DEF owed, plan
  <2> QED
    BY <1>1, PlanFacts
<1>3. Undo!Names(plan) = Undo!RollbackPlan(owed)
  <2> HIDE DEF owed, plan
  <2> QED
    BY <1>1, PlanNames
<1>4. E \subseteq Undo!SideEffects
  OBVIOUS
<1>5. "quiesce" \in E <=> "quiesce" \in Undo!ToSet(question.completed) \/ question.stopRequested
  BY DEF Undo!Owed, Undo!OwedStates, Undo!SourceWasStopped, Undo!SideEffects
<1>6. /\ rank["restore_source_fqdn"] = (IF {"quiesce", "create_target"} \subseteq E THEN 5 ELSE 8)
      /\ rank["restart_source"] = 6 /\ rank["delete_target_resource"] = 7
      /\ rank["release_source_pins"] = 9
      /\ rank["restore_source_name"] = 1 /\ rank["stop_target"] = 2
      /\ rank["drop_target_volumes"] = 3 /\ rank["revoke_ephemeral_key"] = 4
  BY DEF Rank
<1> HIDE DEF plan, owed, E, rank, RollbackSteps
<1>7. Len(plan) \in Nat /\ DOMAIN plan = 1 .. Len(plan)
  BY <1>2
\* Each step is owed, and which steps are planned follows from what is owed.
<1>8. ASSUME NEW i \in DOMAIN plan
      PROVE  /\ plan[i] \in StepsBefore(E) \cup StepsOfRest(E)
             /\ rank[plan[i].compensation] \in 1 .. 9
  <2>1. plan[i] \in StepsBefore(E) \cup StepsOfRest(E)
    BY <1>2 DEF ToSet
  <2>2. plan[i].compensation \in
          {"restore_source_name", "stop_target", "drop_target_volumes", "revoke_ephemeral_key",
           "restore_source_fqdn", "restart_source", "delete_target_resource", "release_source_pins"}
    BY <2>1 DEF StepsBefore, StepsOfRest, Undo!Step
  <2> QED
    BY <1>6, <2>1, <2>2
<1>9. \A x \in StepsBefore(E) \cup StepsOfRest(E) : \E i \in DOMAIN plan : plan[i] = x
  BY <1>2 DEF ToSet
<1>10. ASSUME NEW c, At(c) > 0
       PROVE  At(c) \in DOMAIN plan /\ plan[At(c)].compensation = c
  BY <1>2, <1>10, PositionIs
<1>11. \A i, j \in DOMAIN plan : plan[i].compensation = plan[j].compensation => i = j
  <2> SUFFICES ASSUME NEW i \in DOMAIN plan, NEW j \in DOMAIN plan,
                      plan[i].compensation = plan[j].compensation, i < j
               PROVE  FALSE
    BY <1>7
  <2>1. rank[plan[i].compensation] < rank[plan[j].compensation]
    BY <1>2 DEF Ascends
  <2> QED
    BY <1>8, <2>1
\* The steps come in the order of their ranks.
<1>12. ASSUME NEW c, NEW d, At(c) > 0, At(d) > 0, rank[c] < rank[d]
       PROVE  At(c) < At(d)
  <2>1. /\ At(c) \in DOMAIN plan /\ plan[At(c)].compensation = c
        /\ At(d) \in DOMAIN plan /\ plan[At(d)].compensation = d
    BY <1>10, <1>12
  <2> HIDE DEF At
  <2>2. CASE At(d) < At(c)
    <3>1. rank[d] < rank[c]
      BY <1>2, <2>1, <2>2 DEF Ascends
    <3>2. rank[c] \in 1 .. 9 /\ rank[d] \in 1 .. 9
      BY <1>8, <2>1
    <3> QED
      BY <1>12, <3>1, <3>2
  <2>3. CASE At(d) = At(c)
    <3>1. c = d /\ rank[c] \in 1 .. 9
      BY <1>8, <2>1, <2>3
    <3> QED
      BY <1>12, <3>1
  <2> QED
    BY <1>7, <2>1, <2>2, <2>3
<1>13. /\ At("restart_source") > 0 <=> "quiesce" \in E
       /\ At("restore_source_fqdn") > 0 => "create_target" \in E
  <2>1. ASSUME At("restart_source") > 0
        PROVE  "quiesce" \in E
    <3>1. PICK i \in DOMAIN plan : plan[i].compensation = "restart_source"
      BY <1>10, <2>1
    <3>2. plan[i] \in StepsBefore(E) \cup StepsOfRest(E)
      BY <1>8
    <3> QED
      BY <3>1, <3>2 DEF StepsBefore, StepsOfRest, Undo!Step
  <2>2. ASSUME "quiesce" \in E
        PROVE  At("restart_source") > 0
    <3>1. Undo!Step("restart_source", "quiesce") \in StepsOfRest(E)
      BY <2>2 DEF StepsOfRest
    <3>2. \E i \in DOMAIN plan : plan[i].compensation = "restart_source"
      BY <1>9, <3>1 DEF Undo!Step
    <3>3. At("restart_source") \in DOMAIN plan
      BY <1>2, <3>2, PositionIs
    <3> HIDE DEF At
    <3> QED
      BY <1>7, <3>3
  <2>3. ASSUME At("restore_source_fqdn") > 0
        PROVE  "create_target" \in E
    <3>1. PICK i \in DOMAIN plan : plan[i].compensation = "restore_source_fqdn"
      BY <1>10, <2>3
    <3>2. plan[i] \in StepsBefore(E) \cup StepsOfRest(E)
      BY <1>8
    <3> QED
      BY <3>1, <3>2 DEF StepsBefore, StepsOfRest, Undo!Step
  <2> QED
    BY <2>1, <2>2, <2>3
<1>14. PlanIgnoresRecordOrder
  BY <1>3 DEF PlanIgnoresRecordOrder, plan, owed
<1>15. Undo!EveryDebtPlannedOnce(question, plan)
  <2>1. /\ Undo!Owes("create_target") = << "delete_target_resource", "restore_source_fqdn",
                                           "release_source_pins" >>
        /\ Undo!Owes("quiesce") = << "restart_source" >>
        /\ Undo!Owes("copy") = << "drop_target_volumes", "revoke_ephemeral_key" >>
        /\ Undo!Owes("start_target") = << "stop_target" >>
        /\ Undo!Owes("finalize") = << "restore_source_name" >>
    BY DEF Undo!Owes
  <2>2. ASSUME NEW i \in DOMAIN plan
        PROVE  /\ plan[i].because_of \in E
               /\ Undo!Contains(Undo!Owes(plan[i].because_of), plan[i].compensation)
    <3>1. plan[i] \in StepsBefore(E) \cup StepsOfRest(E)
      BY <1>8
    <3>2. plan[i].because_of \in E
      BY <3>1 DEF StepsBefore, StepsOfRest, Undo!Step
    <3>3. Undo!Contains(Undo!Owes(plan[i].because_of), plan[i].compensation)
      <4>1. \A c, s : Undo!Step(c, s).compensation = c /\ Undo!Step(c, s).because_of = s
        BY DEF Undo!Step
      <4>2. /\ Undo!Contains(Undo!Owes("create_target"), "delete_target_resource")
            /\ Undo!Contains(Undo!Owes("create_target"), "restore_source_fqdn")
            /\ Undo!Contains(Undo!Owes("create_target"), "release_source_pins")
        <5>1. 1 \in 1 .. 3 /\ 2 \in 1 .. 3 /\ 3 \in 1 .. 3
          OBVIOUS
        <5> QED
          BY <2>1, <5>1 DEF Undo!Contains
      <4>3. /\ Undo!Contains(Undo!Owes("quiesce"), "restart_source")
            /\ Undo!Contains(Undo!Owes("start_target"), "stop_target")
            /\ Undo!Contains(Undo!Owes("finalize"), "restore_source_name")
        <5>1. 1 \in 1 .. 1
          OBVIOUS
        <5> QED
          BY <2>1, <5>1 DEF Undo!Contains
      <4>4. /\ Undo!Contains(Undo!Owes("copy"), "drop_target_volumes")
            /\ Undo!Contains(Undo!Owes("copy"), "revoke_ephemeral_key")
        <5>1. 1 \in 1 .. 2 /\ 2 \in 1 .. 2
          OBVIOUS
        <5> QED
          BY <2>1, <5>1 DEF Undo!Contains
      <4> QED
        BY <3>1, <4>1, <4>2, <4>3, <4>4 DEF StepsBefore, StepsOfRest
    <3> QED
      BY <3>2, <3>3
  <2>3. ASSUME NEW s \in E
        PROVE  Undo!ToSet(Undo!Owes(s)) \subseteq Undo!ToSet(Undo!Names(plan))
    <3>1. \A x \in StepsBefore(E) \cup StepsOfRest(E) : x.compensation \in Undo!ToSet(Undo!Names(plan))
      BY <1>9 DEF Undo!Names, Undo!ToSet
    <3>2. s \in {"create_target", "quiesce", "copy", "start_target", "finalize"}
      BY <1>4 DEF Undo!SideEffects
    <3>3. \A c \in Undo!ToSet(Undo!Owes(s)) :
            \E x \in StepsBefore(E) \cup StepsOfRest(E) : x.compensation = c
      <4>1. \A c, t : Undo!Step(c, t).compensation = c
        BY DEF Undo!Step
      <4>2. /\ \A x : Undo!ToSet(<< x >>) = {x}
            /\ \A x, y : Undo!ToSet(<< x, y >>) = {x, y}
            /\ \A x, y, z : Undo!ToSet(<< x, y, z >>) = {x, y, z}
        BY DEF Undo!ToSet
      <4>3. CASE s = "create_target"
        BY <2>1, <4>1, <4>2, <4>3 DEF StepsOfRest
      <4>4. CASE s = "copy"
        BY <2>1, <4>1, <4>2, <4>4 DEF StepsBefore
      <4>5. CASE s = "quiesce"
        BY <2>1, <4>1, <4>2, <4>5 DEF StepsOfRest
      <4>6. CASE s = "start_target" \/ s = "finalize"
        BY <2>1, <4>1, <4>2, <4>6 DEF StepsBefore
      <4> QED
        BY <3>2, <4>3, <4>4, <4>5, <4>6
    <3> QED
      BY <3>1, <3>3
  <2>4. Undo!IsInjective(Undo!Names(plan))
    BY <1>11 DEF Undo!IsInjective, Undo!Names
  <2> QED
    BY <2>2, <2>3, <2>4 DEF Undo!EveryDebtPlannedOnce, E, owed
<1>16. Undo!TargetTornDownInOrder(plan)
  <2>1. /\ rank["stop_target"] < rank["drop_target_volumes"]
        /\ rank["drop_target_volumes"] < rank["delete_target_resource"]
    BY <1>6
  <2> QED
    BY <1>12, <2>1 DEF Undo!TargetTornDownInOrder, Undo!InOrder
<1>17. Undo!DomainsBackBeforeRestart(plan)
  <2> DEFINE F == At("restore_source_fqdn")
             R == At("restart_source")
  <2> SUFFICES ASSUME F > 0, R > 0
               PROVE  R = F + 1
    BY DEF Undo!DomainsBackBeforeRestart
  <2>1. {"quiesce", "create_target"} \subseteq E
    BY <1>13
  <2>2. rank["restore_source_fqdn"] = 5 /\ rank["restart_source"] = 6
    BY <1>6, <2>1
  <2>3. F < R
    BY <1>12, <2>2
  <2>4. /\ F \in DOMAIN plan /\ plan[F].compensation = "restore_source_fqdn"
        /\ R \in DOMAIN plan /\ plan[R].compensation = "restart_source"
    BY <1>10
  <2> HIDE DEF F, R
  <2>5. ASSUME F + 1 < R
        PROVE  FALSE
    <3>1. F + 1 \in DOMAIN plan /\ F < F + 1
      BY <1>7, <2>4, <2>5
    <3>2. /\ rank[plan[F].compensation] < rank[plan[F + 1].compensation]
          /\ rank[plan[F + 1].compensation] < rank[plan[R].compensation]
      BY <1>2, <2>4, <2>5, <3>1 DEF Ascends
    <3>3. rank[plan[F + 1].compensation] \in 1 .. 9
      BY <1>8, <3>1
    <3> QED
      BY <2>2, <2>4, <3>2, <3>3
  <2> QED
    BY <1>7, <2>3, <2>4, <2>5
<1>18. Undo!UnpinIsLast(plan)
  <2> DEFINE U == At("release_source_pins")
  <2> SUFFICES ASSUME U > 0
               PROVE  U = Len(plan)
    BY DEF Undo!UnpinIsLast
  <2>1. U \in DOMAIN plan /\ plan[U].compensation = "release_source_pins"
    BY <1>10
  <2> HIDE DEF U
  <2>2. ASSUME U < Len(plan)
        PROVE  FALSE
    <3>1. U + 1 \in DOMAIN plan /\ U < U + 1
      BY <1>7, <2>1, <2>2
    <3>2. rank[plan[U].compensation] < rank[plan[U + 1].compensation]
      BY <1>2, <2>1, <3>1 DEF Ascends
    <3>3. rank[plan[U + 1].compensation] \in 1 .. 9
      BY <1>8, <3>1
    <3> QED
      BY <1>6, <2>1, <3>2, <3>3
  <2> QED
    BY <1>7, <2>1, <2>2
<1>19. Undo!RestartIffStopped(question, plan)
  BY <1>5, <1>13 DEF Undo!RestartIffStopped
<1> QED
  BY <1>14, <1>15, <1>16, <1>17, <1>18, <1>19 DEF PlanPaysEveryDebt, plan

-----------------------------------------------------------------------------
(***************************************************************************)
(* The containers of the source: any number of them, over any volumes.     *)
(* What Coolify labels it manages, and a pin is a container of this tool.  *)
(***************************************************************************)
ContainersOver(Volumes) ==
  {c \in [labels : {"current", "stale"}, managed : BOOLEAN, carriesUuid : BOOLEAN,
          mounts : SUBSET Volumes, running : BOOLEAN, pin : {"none", "ours", "foreign"}] :
     /\ c.labels = "current" => c.managed
     /\ c.pin # "none" => ~c.managed /\ ~c.carriesUuid}

After(before, stopped) == {[c EXCEPT !.running = @ /\ c \notin stopped] : c \in before}

ContainerQuestion(q, Volumes) ==
  /\ q.kind = "containers_asked"
  /\ q.before \subseteq ContainersOver(Volumes)
  /\ q.volumes \subseteq q.answered
  /\ \E stopped : q.after = After(q.before, stopped)

(***************************************************************************)
(* When Docker answers PREFLIGHT for every volume of the resource, quiet   *)
(* means quiet, whatever containers the server has and whichever of them   *)
(* stop (steps.py _assert_containers_are_discoverable, quiesce.py).        *)
(***************************************************************************)
THEOREM QuietHasNoWriter ==
  ASSUME NEW Volumes, ContainerQuestion(question, Volumes)
  PROVE  QuietMeansNoWriter
<1> SUFFICES ASSUME Seen!Discoverable(question.before, question.volumes, question.answered,
                                      question.policy),
                    Seen!Quiet(question.after)
             PROVE  /\ \A c \in question.after :
                         c.running => c.mounts \cap question.volumes = {}
                                      /\ ~(c.managed /\ c.carriesUuid)
                    /\ question.policy = "delete" =>
                         \A c \in question.before :
                           c.pin = "foreign" => c.mounts \cap question.volumes = {}
  BY DEF QuietMeansNoWriter
<1> DEFINE before == question.before
           volumes == question.volumes
           answered == question.answered
<1>1. PICK stopped : question.after = After(before, stopped)
  BY DEF ContainerQuestion
<1>2. ASSUME NEW c \in before
      PROVE  /\ c.labels = "current" => c.managed
             /\ c.pin # "none" => ~c.managed /\ ~c.carriesUuid
             /\ c.managed \in BOOLEAN /\ c.carriesUuid \in BOOLEAN /\ c.running \in BOOLEAN
             /\ c \in [labels : {"current", "stale"}, managed : BOOLEAN, carriesUuid : BOOLEAN,
                       mounts : SUBSET Volumes, running : BOOLEAN,
                       pin : {"none", "ours", "foreign"}]
  BY DEF ContainerQuestion, ContainersOver
\* Whatever mounts a volume of the resource and is no pin has the labels.
<1>3. ASSUME NEW c \in before, c.mounts \cap volumes # {}, c.pin = "none" \/ c.running
      PROVE  c.labels = "current"
  <2>1. c.mounts \cap volumes \cap answered # {}
    BY <1>3 DEF ContainerQuestion
  <2> QED
    BY <1>3, <2>1 DEF Seen!Discoverable, Seen!LabelIndependent, Seen!ListContainers,
       Seen!ContainersMounting, Seen!IsPin
<1>4. ASSUME NEW c \in before, c.managed, c.carriesUuid
      PROVE  c.labels = "current"
  BY <1>4 DEF Seen!Discoverable, Seen!LabelIndependent, Seen!ListContainers,
     Seen!ManagedContainers
<1>5. ASSUME NEW d \in question.after, d.running
      PROVE  d.mounts \cap volumes = {} /\ ~(d.managed /\ d.carriesUuid)
  <2>1. PICK c \in before : d = [c EXCEPT !.running = @ /\ c \notin stopped]
    BY <1>1 DEF After
  <2>2. /\ d.mounts = c.mounts /\ d.managed = c.managed /\ d.carriesUuid = c.carriesUuid
        /\ d.labels = c.labels
    BY <1>2, <2>1
  <2>3. d.running = (c.running /\ c \notin stopped)
    BY <1>2, <2>1
  <2>4. c.running /\ d.labels # "current"
    BY <1>5, <2>3 DEF Seen!Quiet, Seen!ListContainers
  <2> QED
    BY <1>3, <1>4, <2>2, <2>4
<1>6. ASSUME question.policy = "delete", NEW c \in before, c.pin = "foreign",
             c.mounts \cap volumes # {}
      PROVE  FALSE
  <2>1. c.mounts \cap volumes \cap answered # {}
    BY <1>6 DEF ContainerQuestion
  <2>2. c.running
    BY <1>6, <2>1 DEF Seen!Discoverable, Seen!ForeignPins, Seen!ContainersMounting, Seen!IsPin
  <2> QED
    BY <1>2, <1>3, <1>6, <2>2
<1> QED
  BY <1>5, <1>6

-----------------------------------------------------------------------------
(***************************************************************************)
(* DNS: any host, and looks at any addresses.                              *)
(***************************************************************************)
LooksAt(Addresses) ==
  {look \in [exists : BOOLEAN, a : SUBSET Addresses, aaaa : SUBSET Addresses,
             failed : SUBSET Dns!RecordTypes] :
     ~look.exists => look.a = {} /\ look.aaaa = {}}

DnsQuestion(q, Addresses) ==
  /\ q.kind = "dns_asked"
  /\ q.host \in [generated : BOOLEAN, underSource : BOOLEAN, underTarget : BOOLEAN]
  /\ q.host.underTarget => q.host.underSource
  /\ q.planned \in LooksAt(Addresses) /\ q.now \in LooksAt(Addresses)

\* A resolution holds addresses of the records; all of them when no lookup
\* failed; and without an address it is definitive only when no lookup failed or
\* the name does not exist.
LEMMA ResolveFacts ==
  ASSUME NEW Addresses, NEW look \in LooksAt(Addresses)
  PROVE  /\ Dns!Resolve(look).addresses \subseteq Dns!Records(look)
         /\ look.failed = {} => Dns!Resolve(look).addresses = Dns!Records(look)
         /\ Dns!Resolve(look).addresses = {} /\ Dns!IsDefinitive(Dns!Resolve(look)) =>
              look.failed = {} \/ Dns!Records(look) = {}
<1> DEFINE answers == {Dns!RecordsOf(look, t) : t \in Dns!RecordTypes \ look.failed}
           errors == {[type |-> t, kind |-> IF t \in look.failed THEN "failed" ELSE "NXDOMAIN"] :
                        t \in {u \in Dns!Asked(look) : u \in look.failed \/ ~look.exists}}
           kinds == {e.kind : e \in errors}
<1>1. /\ Dns!Resolve(look).addresses = IF look.exists THEN UNION answers ELSE {}
      /\ Dns!Resolve(look).errors = IF Dns!Resolve(look).addresses # {} THEN {} ELSE kinds
  BY DEF Dns!Resolve
<1>2. look \in [exists : BOOLEAN, a : SUBSET Addresses, aaaa : SUBSET Addresses,
                failed : SUBSET Dns!RecordTypes]
  BY DEF LooksAt
<1>3. /\ Dns!RecordsOf(look, "A") = look.a /\ Dns!RecordsOf(look, "AAAA") = look.aaaa
      /\ Dns!RecordTypes = {"A", "AAAA"}
  BY DEF Dns!RecordsOf, Dns!RecordTypes
<1>4. UNION answers \subseteq look.a \cup look.aaaa
  BY <1>3
<1>5. look.failed = {} => UNION answers = look.a \cup look.aaaa
  <2>1. look.failed = {} => answers = {look.a, look.aaaa}
    BY <1>3
  <2> QED
    BY <2>1
<1>6. look.exists /\ look.failed # {} => kinds = {"failed"}
  <2> SUFFICES ASSUME look.exists, look.failed # {}
               PROVE  kinds = {"failed"}
    OBVIOUS
  <2>1. {u \in Dns!Asked(look) : u \in look.failed \/ ~look.exists} = look.failed
    BY <1>2, <1>3 DEF Dns!Asked
  <2>2. errors = {[type |-> t, kind |-> "failed"] : t \in look.failed}
    BY <2>1
  <2>3. PICK t \in look.failed : TRUE
    OBVIOUS
  <2>4. [type |-> t, kind |-> "failed"] \in errors
    BY <2>2, <2>3
  <2>5. \A e \in errors : e.kind = "failed"
    BY <2>2
  <2> HIDE DEF errors
  <2> QED
    BY <2>4, <2>5
<1> HIDE DEF answers, errors, kinds
<1>7. CASE look.exists
  <2>1. Dns!Records(look) = look.a \cup look.aaaa /\ Dns!Resolve(look).addresses = UNION answers
    BY <1>1, <1>7 DEF Dns!Records
  <2>2. Dns!Resolve(look).addresses = {} /\ look.failed # {} => ~Dns!IsDefinitive(Dns!Resolve(look))
    BY <1>1, <1>6, <1>7 DEF Dns!IsDefinitive
  <2> QED
    BY <1>4, <1>5, <2>1, <2>2
<1>8. CASE ~look.exists
  BY <1>1, <1>8 DEF Dns!Records
<1> QED
  BY <1>7, <1>8

(***************************************************************************)
(* The gate opens only on what the nameservers really hold, CREATE refuses *)
(* only a host that really moved, and the plan foretells the gate, for any *)
(* host and any answers, when a lookup does not time out beside one that   *)
(* answers (dns/gate.py, steps.py _refuse_moved_dns).                      *)
(***************************************************************************)
THEOREM DnsProves ==
  ASSUME NEW Addresses, DnsQuestion(question, Addresses), "partial_answers" \notin Hazards
  PROVE  DnsDecisionsAreProven
<1> DEFINE host == question.host
           planned == question.planned
           now == question.now
           found == Dns!Resolve(now).addresses
           base == BaselineOf(question)
<1>0. /\ host \in [generated : BOOLEAN, underSource : BOOLEAN, underTarget : BOOLEAN]
      /\ host.underTarget => host.underSource
      /\ planned \in LooksAt(Addresses) /\ now \in LooksAt(Addresses)
  BY DEF DnsQuestion
<1>1. /\ found \subseteq Dns!Records(now)
      /\ now.failed = {} => found = Dns!Records(now)
      /\ found = {} /\ Dns!IsDefinitive(Dns!Resolve(now)) =>
           now.failed = {} \/ Dns!Records(now) = {}
  BY <1>0, ResolveFacts
<1>2. /\ base \in {{}, Dns!Resolve(planned).addresses}
      /\ base \subseteq Dns!Records(planned)
      /\ ~host.generated /\ ~host.underSource => base = Dns!Resolve(planned).addresses
  BY <1>0, ResolveFacts DEF BaselineOf, Dns!Baseline
<1>3. PassesOnlyProven
  <2> SUFFICES ASSUME ~host.generated,
                      Dns!Passes(host, base, now, SourceIps, TargetIps, question.acceptCutover,
                                 question.acceptedHost)
               PROVE  /\ ~Dns!BoundToSource(host)
                      /\ \/ host.underTarget
                         \/ question.acceptedHost
                         \/ Dns!Records(now) \cap OnlyTarget # {}
                         \/ question.acceptCutover /\ Dns!Records(now) \cap OnlySource # {}
                         \/ base = {} /\ found = {}
    BY DEF PassesOnlyProven
  <2> DEFINE verdict == Dns!Classify(host, Dns!Resolve(now), base, SourceIps, TargetIps)
  <2>1. ~Dns!BoundToSource(host)
        /\ ~Dns!Unaccepted(verdict, question.acceptCutover, question.acceptedHost)
    BY DEF Dns!Passes
  <2>2. CASE host.underSource
    BY <1>0, <2>1, <2>2 DEF Dns!BoundToSource
  <2>3. CASE ~host.underSource /\ found = {} /\ base # {}
    <3>1. verdict \in {"unanswered", "vanished"}
      BY <1>0, <2>3 DEF Dns!Classify, Dns!NoAddress
    <3> QED
      BY <2>1, <3>1 DEF Dns!Unaccepted, Dns!Blocking
  <2>4. CASE ~host.underSource /\ found # {}
    <3>1. verdict = Dns!ByAddress(found, SourceIps, TargetIps)
      BY <1>0, <2>4 DEF Dns!Classify
    <3>2. \/ verdict = "ready" /\ found \cap OnlyTarget # {}
          \/ verdict = "cutover_needed" /\ found \cap OnlySource # {}
          \/ verdict = "elsewhere"
      BY <3>1 DEF Dns!ByAddress, Dns!OnlyOf, OnlyTarget, OnlySource
    <3> QED
      BY <1>1, <2>1, <3>2 DEF Dns!Unaccepted, Dns!Blocking
  <2> QED
    BY <2>1, <2>2, <2>3, <2>4
<1>4. CreateRefusesOnlyMoved
  <2> SUFFICES ASSUME ~Partial(now), Dns!RefusesMoved(base, now, SourceIps)
               PROVE  /\ Dns!Records(planned) \cap SourceIps # {}
                      /\ Dns!Records(now) \cap SourceIps = {}
    BY DEF CreateRefusesOnlyMoved
  <2>1. /\ base \cap SourceIps # {}
        /\ Dns!IsDefinitive(Dns!Resolve(now))
        /\ found \cap SourceIps = {}
    BY DEF Dns!RefusesMoved
  <2>2. now.failed = {} \/ found = {}
    BY DEF Partial
  <2> QED
    BY <1>1, <1>2, <2>1, <2>2
<1>5. PlanForetellsElsewhere
  <2> SUFFICES ASSUME planned = now, ~host.generated, ~host.underSource
               PROVE  Dns!ElsewhereNote(base, SourceIps, TargetIps)
                        <=> Dns!Classify(host, Dns!Resolve(now), base, SourceIps, TargetIps)
                              = "elsewhere"
    BY DEF PlanForetellsElsewhere
  <2>1. base = found
    BY <1>2
  <2>2. CASE found = {}
    BY <2>1, <2>2 DEF Dns!ElsewhereNote, Dns!Classify, Dns!NoAddress
  <2>3. CASE found # {}
    <3>1. Dns!Classify(host, Dns!Resolve(now), base, SourceIps, TargetIps)
            = Dns!ByAddress(found, SourceIps, TargetIps)
      BY <2>3 DEF Dns!Classify
    <3> QED
      BY <2>1, <2>3, <3>1 DEF Dns!ElsewhereNote, Dns!ByAddress, Dns!OnlyOf
  <2> QED
    BY <2>2, <2>3
<1> QED
  BY <1>3, <1>4, <1>5 DEF DnsDecisionsAreProven

-----------------------------------------------------------------------------
(***************************************************************************)
(* Pairing: any volumes, one endpoint for each of the source; those of the *)
(* target may be mounted at several paths.                                 *)
(***************************************************************************)
EndpointsOf(Of, VolumeKeys, VolumePaths) ==
  [name : [of : Of, sep : {"_", "-", ""}, key : VolumeKeys], path : VolumePaths]

PairingQuestion(q, VolumeKeys, VolumePaths) ==
  /\ q.kind = "pairing_asked"
  /\ q.of \in {"git_compose", "service", "database"}
  /\ q.source \subseteq EndpointsOf({"source", "external"}, VolumeKeys, VolumePaths)
  /\ \A e, f \in q.source : e.name = f.name => e = f
  /\ q.target \subseteq EndpointsOf({"target", "external"}, VolumeKeys, VolumePaths)
  /\ q.declared \subseteq EndpointsOf({"source"}, VolumeKeys, VolumePaths)

\* Pairs by a key that is ambiguous on neither side are one to one.
LEMMA PairsByName ==
  ASSUME NEW source, NEW target,
         \A e, f \in source : e.name = f.name => e = f,
         ~Data!PairByNameSuffix(source, target).refused
  PROVE  LET pairs == Data!PairByNameSuffix(source, target).pairs
         IN  /\ {p.source : p \in pairs} = source
             /\ \A p \in pairs : p.target \in target
             /\ \A p, r \in pairs : p.source = r.source <=> p.target = r.target
             /\ \A p \in pairs : Data!Suffix(p.source.name) = Data!Suffix(p.target.name)
             /\ \A t \in target : Data!HasUuid(t.name, "target")
             /\ Data!KeysOf(source, Data!BySuffix) \subseteq Data!KeysOf(target, Data!BySuffix)
<1> DEFINE Found(s) == CHOOSE t \in target : Data!BySuffix(t) = Data!BySuffix(s)
           pairs == {[source |-> s, target |-> Found(s)] : s \in source}
<1>1. /\ Data!PairByNameSuffix(source, target).pairs = pairs
      /\ \A t \in target : Data!HasUuid(t.name, "target")
      /\ \A e, f \in source : Data!BySuffix(e) = Data!BySuffix(f) => e.name = f.name
      /\ Data!KeysOf(source, Data!BySuffix) \subseteq Data!KeysOf(target, Data!BySuffix)
  BY DEF Data!PairByNameSuffix, Data!Refused, Data!PairedAs, Data!PairsBy, Data!Ambiguous
<1>2. ASSUME NEW s \in source
      PROVE  Found(s) \in target /\ Data!BySuffix(Found(s)) = Data!BySuffix(s)
  <2>1. \E t \in target : Data!BySuffix(t) = Data!BySuffix(s)
    BY <1>1 DEF Data!KeysOf
  <2> QED
    BY <2>1
<1>3. ASSUME NEW p \in pairs
      PROVE  p.source \in source /\ p.target = Found(p.source)
  OBVIOUS
<1>4. {p.source : p \in pairs} = source
  <2> HIDE DEF Found
  <2>1. \A s \in source : [source |-> s, target |-> Found(s)] \in pairs
    OBVIOUS
  <2>2. \A s \in source : [source |-> s, target |-> Found(s)].source = s
    OBVIOUS
  <2>3. source \subseteq {p.source : p \in pairs}
    <3> HIDE DEF pairs
    <3> QED
      BY <2>1, <2>2
  <2>4. {p.source : p \in pairs} \subseteq source
    <3> HIDE DEF pairs
    <3> QED
      BY <1>3
  <2> QED
    BY <2>3, <2>4
<1> HIDE DEF Found, pairs
<1>5. ASSUME NEW p \in pairs, NEW r \in pairs
      PROVE  p.source = r.source <=> p.target = r.target
  <2>1. p.target = r.target => Data!BySuffix(p.source) = Data!BySuffix(r.source)
    BY <1>2, <1>3
  <2> QED
    BY <1>1, <1>3, <2>1
<1> QED
  BY <1>1, <1>2, <1>3, <1>4, <1>5 DEF Data!BySuffix

LEMMA PairsByPath ==
  ASSUME NEW source, NEW target,
         \A e, f \in source : e.name = f.name => e = f,
         ~Data!PairByMountPath(source, target).refused
  PROVE  LET pairs == Data!PairByMountPath(source, target).pairs
         IN  /\ {p.source : p \in pairs} = source
             /\ \A p \in pairs : p.target \in target
             /\ \A p, r \in pairs : p.source = r.source <=> p.target = r.target
             /\ \A p \in pairs : p.source.path = p.target.path
             /\ Data!KeysOf(source, Data!ByMountPath) = Data!KeysOf(target, Data!ByMountPath)
<1> DEFINE Found(s) == CHOOSE t \in target : Data!ByMountPath(t) = Data!ByMountPath(s)
           pairs == {[source |-> s, target |-> Found(s)] : s \in source}
<1>1. /\ Data!PairByMountPath(source, target).pairs = pairs
      /\ \A e, f \in source : Data!ByMountPath(e) = Data!ByMountPath(f) => e.name = f.name
      /\ Data!KeysOf(source, Data!ByMountPath) = Data!KeysOf(target, Data!ByMountPath)
  BY DEF Data!PairByMountPath, Data!Refused, Data!PairedAs, Data!PairsBy, Data!Ambiguous
<1>2. ASSUME NEW s \in source
      PROVE  Found(s) \in target /\ Data!ByMountPath(Found(s)) = Data!ByMountPath(s)
  <2>1. \E t \in target : Data!ByMountPath(t) = Data!ByMountPath(s)
    BY <1>1 DEF Data!KeysOf
  <2> QED
    BY <2>1
<1>3. ASSUME NEW p \in pairs
      PROVE  p.source \in source /\ p.target = Found(p.source)
  OBVIOUS
<1>4. {p.source : p \in pairs} = source
  <2> HIDE DEF Found
  <2>1. \A s \in source : [source |-> s, target |-> Found(s)] \in pairs
    OBVIOUS
  <2>2. \A s \in source : [source |-> s, target |-> Found(s)].source = s
    OBVIOUS
  <2>3. source \subseteq {p.source : p \in pairs}
    <3> HIDE DEF pairs
    <3> QED
      BY <2>1, <2>2
  <2>4. {p.source : p \in pairs} \subseteq source
    <3> HIDE DEF pairs
    <3> QED
      BY <1>3
  <2> QED
    BY <2>3, <2>4
<1> HIDE DEF Found, pairs
<1>5. ASSUME NEW p \in pairs, NEW r \in pairs
      PROVE  p.source = r.source <=> p.target = r.target
  <2>1. p.target = r.target => Data!ByMountPath(p.source) = Data!ByMountPath(r.source)
    BY <1>2, <1>3
  <2> QED
    BY <1>1, <1>3, <2>1
<1> QED
  BY <1>1, <1>2, <1>3, <1>4, <1>5 DEF Data!ByMountPath

(***************************************************************************)
(* What is paired is paired one to one, by one identity, is read back by a *)
(* resume as it was, and passes the gate before the stop, for any volumes  *)
(* on either side (domain/naming.py, steps.py _pair_volumes).              *)
(***************************************************************************)
THEOREM PairsAreFaithful ==
  ASSUME NEW VolumeKeys, NEW VolumePaths, PairingQuestion(question, VolumeKeys, VolumePaths)
  PROVE  PairingIsFaithful
<1> DEFINE source == question.source
           target == question.target
           declared == question.declared
           paired == PairingOf(question)
           pairs == paired.pairs
           bySuffix == question.of \in Data!ComposeKinds
                       /\ \A s \in source : Data!HasUuid(s.name, "source")
           byName == Data!PairByNameSuffix(source, target)
           byMount == Data!PairByMountPath(source, target)
<1> SUFFICES ASSUME ~paired.refused
             PROVE  PairingIsFaithful
  BY DEF PairingIsFaithful, PairsKeepIdentity, ResumeLoadsThePairs, GateRefusesNothingPairable
<1>0. /\ \A e, f \in source : e.name = f.name => e = f
      /\ \A e \in source : e.name.of # "host"
      /\ \A d \in declared : Data!HasUuid(d.name, "source")
  BY DEF PairingQuestion, EndpointsOf, Data!HasUuid
<1>1. \/ source = {} /\ pairs = {}
      \/ /\ source # {} /\ bySuffix /\ ~byName.refused /\ pairs = byName.pairs
         /\ question.of = "service" => ~Data!MountsMoved(source, declared, target)
      \/ source # {} /\ ~bySuffix /\ ~byMount.refused /\ pairs = byMount.pairs
  BY DEF PairingOf, Data!PairVolumes, Data!Refused, Data!PairedAs
<1>2. /\ {p.source : p \in pairs} = source
      /\ \A p \in pairs : p.target \in target
      /\ \A p, r \in pairs : p.source = r.source <=> p.target = r.target
  BY <1>0, <1>1, PairsByName, PairsByPath
<1>3. \A p \in pairs : p.source \in source
  BY <1>2
<1> HIDE DEF paired, pairs
<1>4. PairsKeepIdentity
  <2> DEFINE byKey == \A p \in pairs : Data!Suffix(p.source.name) = Data!Suffix(p.target.name)
             byPath == \A p \in pairs : p.source.path = p.target.path
  <2>1. byKey \/ byPath
    BY <1>0, <1>1, PairsByName, PairsByPath
  <2>2. ASSUME question.of = "service", ~byPath, NEW p \in pairs
        PROVE  Data!PathsOf(target, Data!Suffix(p.target.name))
                 \subseteq Data!PathsOf(source \cup declared, Data!Suffix(p.source.name))
    <3>1. /\ ~byName.refused /\ pairs = byName.pairs
          /\ ~Data!MountsMoved(source, declared, target)
      BY <1>0, <1>1, <2>2, PairsByPath
    <3>2. Data!Suffix(p.source.name) = Data!Suffix(p.target.name)
      BY <1>0, <2>2, <3>1, PairsByName
    <3> DEFINE key == Data!Suffix(p.source.name)
               known == source \cup {d \in declared : Data!HasUuid(d.name, "source")}
    <3>3. key \in Data!KeysOf(known, Data!BySuffix) \cap Data!KeysOf(target, Data!BySuffix)
      BY <1>2, <1>3, <2>2, <3>2 DEF Data!KeysOf, Data!BySuffix
    <3>4. Data!PathsOf(target, key) \subseteq Data!PathsOf(known, key)
      BY <3>1, <3>3 DEF Data!MountsMoved
    <3>5. Data!PathsOf(known, key) \subseteq Data!PathsOf(source \cup declared, key)
      BY DEF Data!PathsOf
    <3> HIDE DEF key, known
    <3> QED
      BY <3>2, <3>4, <3>5 DEF key
  <2> QED
    BY <1>2, <2>1, <2>2 DEF PairsKeepIdentity, paired, pairs
<1>5. ResumeLoadsThePairs
  <2> DEFINE items == {[type |-> "volume", name |-> e.name, path |-> e.path,
                        decision |-> "migrate"] : e \in source}
                      \cup {[type |-> "bind", name |-> HostPath("data"), path |-> "p",
                             decision |-> "migrate"]}
             rows == Data!PairsRecorded(pairs, items)
             loaded == Data!DeserialiseVolumePairs(rows)
             volumeRows == {Data!Row(p.source.name, p.target.name) : p \in pairs}
             bindRows == {Data!Row(i.name, i.name) :
                            i \in {j \in Data!Migrating(items) : j.type = "bind"}}
  <2>1. rows = volumeRows \cup bindRows
    BY DEF Data!PairsRecorded
  <2>2. \A row \in volumeRows : Data!IsVolumeRow(row)
    BY <1>0, <1>3 DEF Data!IsVolumeRow, Data!Row
  <2>3. \A row \in bindRows : ~Data!IsVolumeRow(row)
    <3>1. ASSUME NEW i \in items, i.type = "bind"
          PROVE  i.name = HostPath("data")
      BY <3>1
    <3>2. HostPath("data").of = "host"
      BY DEF HostPath, Named
    <3> HIDE DEF items
    <3> QED
      BY <3>1, <3>2 DEF Data!IsVolumeRow, Data!Row, Data!Migrating
  <2> HIDE DEF rows, bindRows, items
  <2>4. loaded = volumeRows
    BY <2>1, <2>2, <2>3 DEF Data!DeserialiseVolumePairs
  <2>5. volumeRows = {} <=> pairs = {}
    OBVIOUS
  <2>6. (\E row \in rows : Data!IsVolumeRow(row)) <=> pairs # {}
    <3> HIDE DEF volumeRows
    <3> QED
      BY <2>1, <2>2, <2>3, <2>5
  <2> HIDE DEF volumeRows
  <2>7. /\ Data!PairsNotLoaded(rows, {}) <=> pairs # {}
        /\ ~Data!PairsNotLoaded(rows, loaded)
    BY <2>4, <2>5, <2>6 DEF Data!PairsNotLoaded
  <2> QED
    BY <2>4, <2>7 DEF ResumeLoadsThePairs, paired, pairs, items, rows, volumeRows
<1>6. GateRefusesNothingPairable
  <2> SUFFICES ASSUME question.of = "git_compose"
               PROVE  Data!ComposeTargetReady(source, target)
    BY DEF GateRefusesNothingPairable
  <2>1. CASE source = {}
    BY <2>1 DEF Data!ComposeTargetReady, Data!KeysOf
  <2>2. CASE source # {} /\ bySuffix
    <3>1. /\ \A t \in target : Data!HasUuid(t.name, "target")
          /\ Data!KeysOf(source, Data!BySuffix) \subseteq Data!KeysOf(target, Data!BySuffix)
      BY <1>0, <1>1, <2>2, PairsByName
    <3>2. {t \in target : Data!HasUuid(t.name, "target")} = target
      BY <3>1
    <3> QED
      BY <2>2, <3>1, <3>2 DEF Data!ComposeTargetReady
  <2>3. CASE source # {} /\ ~bySuffix
    <3>1. Data!KeysOf(source, Data!ByMountPath) = Data!KeysOf(target, Data!ByMountPath)
      BY <1>0, <1>1, <2>3, PairsByPath
    <3>2. ~ \A s \in source : Data!HasUuid(s.name, "source")
      BY <2>3 DEF Data!ComposeKinds
    <3> QED
      BY <3>1, <3>2 DEF Data!ComposeTargetReady
  <2> QED
    BY <2>1, <2>2, <2>3
<1> QED
  BY <1>4, <1>5, <1>6 DEF PairingIsFaithful

-----------------------------------------------------------------------------
(***************************************************************************)
(* The manifest: any mounts and declarations, any number of each, over any *)
(* names.  What docker reports as mounted exists; a path of the host is no *)
(* name of a volume.                                                       *)
(***************************************************************************)
MountsOver(Names, MountPaths) ==
  [type : {"volume"}, name : {n \in Names : n.of # "host"}, path : MountPaths]
  \cup [type : {"bind", "tmpfs"}, name : {n \in Names : n.of = "host"}, path : MountPaths]

StoragesOver(Names, MountPaths) ==
  [kind : {"persistent"}, name : {n \in Names : n.of # "host"}, path : MountPaths]
  \cup [kind : {"file"}, name : {n \in Names : n.of = "host"}, path : MountPaths]

ManifestQuestion(q, Names, MountPaths) ==
  /\ q.kind = "manifest_asked"
  /\ q.mounts \in Seq(MountsOver(Names, MountPaths))
  /\ q.storages \in Seq(StoragesOver(Names, MountPaths))
  /\ MountedVolumes(q.mounts) \subseteq q.existing

\* The first sighting of a mounted volume is an item that migrates (reconcile, step 1).
LEMMA MountedIsMigrated ==
  ASSUME NEW Names, NEW MountPaths, NEW mounts \in Seq(MountsOver(Names, MountPaths))
  PROVE  MountedVolumes(mounts) \subseteq Data!VolumesOf(Data!LiveItems(mounts))
<1> SUFFICES ASSUME NEW i \in DOMAIN mounts, mounts[i].type = "volume",
                    mounts[i].name.of # "anonymous"
             PROVE  mounts[i].name \in Data!VolumesOf(Data!LiveItems(mounts))
  BY DEF MountedVolumes
<1> DEFINE name == mounts[i].name
           sightings == {j \in DOMAIN mounts : mounts[j].name = name}
<1>1. \A j \in DOMAIN mounts : mounts[j] \in MountsOver(Names, MountPaths)
  OBVIOUS
<1>2. DOMAIN mounts \subseteq Nat /\ \A j \in DOMAIN mounts : 1 .. (j - 1) \subseteq DOMAIN mounts
  OBVIOUS
<1>3. PICK x \in sightings : \A y \in sightings : x <= y
  <2>1. sightings \in SUBSET Nat /\ i \in sightings
    BY <1>2
  <2> HIDE DEF sightings
  <2> QED
    BY <2>1, LeastOf
<1>4. mounts[x].type = "volume" /\ mounts[x].name = name
  BY <1>1, <1>3 DEF MountsOver
<1>5. \A j \in 1 .. (x - 1) : mounts[j].name # mounts[x].name
  <2> SUFFICES ASSUME NEW j \in 1 .. (x - 1), mounts[j].name = mounts[x].name
               PROVE  FALSE
    OBVIOUS
  <2>1. x \in Nat /\ j \in sightings
    BY <1>2, <1>3, <1>4
  <2>2. x <= j /\ j < x
    <3> HIDE DEF sightings
    <3> QED
      BY <1>3, <2>1
  <2> QED
    BY <2>1, <2>2
<1>6. x \in Data!Sightings(mounts) /\ Data!Classified(mounts[x]) = "migrate"
  BY <1>3, <1>4, <1>5 DEF Data!Sightings, Data!Classified
<1> DEFINE item == [type |-> mounts[x].type, name |-> mounts[x].name, path |-> mounts[x].path,
                    decision |-> Data!Classified(mounts[x])]
<1>7. item \in Data!LiveItems(mounts)
  BY <1>6 DEF Data!LiveItems
<1>8. item.decision = "migrate" /\ item.type = "volume" /\ item.name = name
  BY <1>4, <1>6
<1> HIDE DEF item
<1> QED
  BY <1>7, <1>8 DEF Data!VolumesOf, Data!Migrating

\* So is the first declaration of a volume that exists, at a path nothing covers (step 2).
LEMMA DeclaredIsMigrated ==
  ASSUME NEW mounts, NEW existing, NEW storages, DOMAIN storages \subseteq Nat,
         NEW k \in DOMAIN storages, storages[k].kind = "persistent",
         storages[k].name \in existing,
         \A j \in DOMAIN mounts : mounts[j].path # storages[k].path
  PROVE  storages[k].name \in Data!VolumesOf(Data!Items(mounts, storages, existing))
<1> DEFINE live == Data!LiveItems(mounts)
           unmounted == Data!Unmounted(mounts, storages, existing)
           declarations == {j \in unmounted : storages[j].name = storages[k].name}
           items == Data!Items(mounts, storages, existing)
<1>1. CASE storages[k].name \in Data!VolumesOf(live)
  BY <1>1 DEF Data!VolumesOf, Data!Migrating, Data!Items
<1>2. CASE storages[k].name \notin Data!VolumesOf(live)
  <2>1. k \in declarations
    BY <1>2 DEF Data!Unmounted
  <2>2. declarations \in SUBSET Nat
    BY DEF Data!Unmounted
  <2>3. PICK x \in declarations : \A y \in declarations : x <= y
    <3> HIDE DEF declarations
    <3> QED
      BY <2>1, <2>2, LeastOf
  <2>4. \A j \in unmounted : j < x => storages[j].name # storages[x].name
    <3> SUFFICES ASSUME NEW j \in unmounted, j < x, storages[j].name = storages[x].name
                 PROVE  FALSE
      OBVIOUS
    <3>1. j \in declarations
      BY <2>3
    <3> HIDE DEF declarations
    <3> QED
      BY <2>2, <2>3, <3>1
  <2> DEFINE item == [type |-> "volume", name |-> storages[x].name, path |-> storages[x].path,
                      decision |-> "migrate"]
  <2>5. item \in items
    BY <2>3, <2>4 DEF Data!Items, Data!DeclaredItems
  <2>6. item.decision = "migrate" /\ item.type = "volume" /\ item.name = storages[k].name
    BY <2>3
  <2> HIDE DEF item, items
  <2> QED
    BY <2>5, <2>6 DEF Data!VolumesOf, Data!Migrating, items
<1> QED
  BY <1>1, <1>2

(***************************************************************************)
(* No volume of the resource is forgotten: what a container mounts and     *)
(* what is declared at a path nothing covers is migrated, the rest of what *)
(* exists is reported (domain/manifest.py, reconcile).                     *)
(***************************************************************************)
THEOREM ManifestForgetsNothing ==
  ASSUME NEW Names, NEW MountPaths, ManifestQuestion(question, Names, MountPaths)
  PROVE  NothingLeftBehind
<1> DEFINE items == ItemsOf(question)
           migrated == Data!VolumesOf(items)
           mounts == question.mounts
           storages == question.storages
           existing == question.existing
<1>1. mounts \in Seq(MountsOver(Names, MountPaths)) /\ storages \in Seq(StoragesOver(Names, MountPaths))
  BY DEF ManifestQuestion
<1>2. MountedVolumes(mounts) \subseteq migrated
  <2>1. MountedVolumes(mounts) \subseteq Data!VolumesOf(Data!LiveItems(mounts))
    BY <1>1, MountedIsMigrated
  <2> QED
    BY <2>1 DEF ItemsOf, Data!Items, Data!VolumesOf, Data!Migrating
<1>3. ASSUME NEW name \in existing \ migrated, Data!HasUuid(name, "source")
      PROVE  /\ name \in Data!Orphans(items, storages, existing)
             /\ \A k \in DOMAIN storages :
                  storages[k].name = name => \E j \in DOMAIN mounts : mounts[j].path = storages[k].path
  <2>1. name \in Data!Orphans(items, storages, existing)
    BY <1>3 DEF Data!Orphans
  <2>2. ASSUME NEW k \in DOMAIN storages, storages[k].name = name
        PROVE  \E j \in DOMAIN mounts : mounts[j].path = storages[k].path
    <3>1. storages[k] \in StoragesOver(Names, MountPaths)
      BY <1>1
    <3>2. name.of = "source"
      BY <1>3 DEF Data!HasUuid
    <3>3. storages[k].kind = "persistent"
      BY <2>2, <3>1, <3>2 DEF StoragesOver
    <3>4. DOMAIN storages \subseteq Nat
      BY <1>1
    <3>5. name \in existing /\ name \notin Data!VolumesOf(Data!Items(mounts, storages, existing))
      BY <1>3 DEF ItemsOf
    <3> QED
      BY <2>2, <3>3, <3>4, <3>5, DeclaredIsMigrated
  <2> QED
    BY <2>1, <2>2
<1> HIDE DEF items, migrated
<1> QED
  BY <1>2, <1>3 DEF NothingLeftBehind, items, migrated

-----------------------------------------------------------------------------
(***************************************************************************)
(* The copy: any tree with finitely many entries at its top, of any sizes  *)
(* and any links, and any two trees that are compared.                     *)
(***************************************************************************)
CopyQuestion(q, names, Roots, TheEntries) ==
  /\ q.kind = "copy_asked"
  /\ \E root \in Roots, entries \in [names -> TheEntries] :
       q.source = [root |-> root, entries |-> entries]
  /\ q.sizes \in [names -> Nat]
  /\ q.parallel \in Nat \ {0}
  /\ q.linked \subseteq names

IsOrder(order, sizes) ==
  /\ order \in [1 .. Cardinality(DOMAIN sizes) -> DOMAIN sizes]
  /\ Copy!IsInjective(order)
  /\ \A i, j \in DOMAIN order : i < j => sizes[order[i]] >= sizes[order[j]]

\* Names of finitely many sizes can be put in order.
LEMMA AnOrderExists ==
  ASSUME NEW names, IsFiniteSet(names), NEW sizes \in [names -> Nat]
  PROVE  \E order : IsOrder(order, sizes)
<1> DEFINE Ordered(T, k) ==
             \E order \in [1 .. k -> T] :
               /\ Copy!IsInjective(order)
               /\ \A i, j \in 1 .. k : i < j => sizes[order[i]] >= sizes[order[j]]
           Sized(T, k) == IsFiniteSet(T) /\ Cardinality(T) = k
           N == {k \in Nat : \A T \in SUBSET names : Sized(T, k) => Ordered(T, k)}
<1>1. 0 \in N
  <2> SUFFICES ASSUME NEW T \in SUBSET names
               PROVE  Ordered(T, 0)
    OBVIOUS
  <2> DEFINE order == [i \in 1 .. 0 |-> i]
  <2>1. order \in [1 .. 0 -> T] /\ Copy!IsInjective(order) /\ 1 .. 0 = {}
    BY DEF Copy!IsInjective
  <2> HIDE DEF order
  <2> QED
    BY <2>1
<1>2. ASSUME NEW k \in Nat, k \in N
      PROVE  k + 1 \in N
  <2> SUFFICES ASSUME NEW T \in SUBSET names, Sized(T, k + 1)
               PROVE  Ordered(T, k + 1)
    OBVIOUS
  <2>1. T # {}
    BY FS_EmptySet
  <2> DEFINE taken == {sizes[name] : name \in T}
  <2>2. PICK m \in T : \A name \in T : sizes[m] <= sizes[name]
    <3>1. taken \in SUBSET Nat /\ taken # {}
      BY <2>1
    <3>2. PICK x \in taken : \A y \in taken : x <= y
      <4> HIDE DEF taken
      <4> QED
        BY <3>1, LeastOf
    <3> QED
      BY <3>2
  <2> DEFINE rest == T \ {m}
  <2>3. rest \in SUBSET names /\ Sized(rest, k)
    <3>1. Cardinality(T) - 1 = k
      OBVIOUS
    <3> QED
      BY <3>1, FS_RemoveElement
  <2>4. PICK order \in [1 .. k -> rest] :
          /\ Copy!IsInjective(order)
          /\ \A i, j \in 1 .. k : i < j => sizes[order[i]] >= sizes[order[j]]
    <3> HIDE DEF rest
    <3> QED
      BY <1>2, <2>3
  <2> DEFINE more == [i \in 1 .. k + 1 |-> IF i = k + 1 THEN m ELSE order[i]]
  <2>5. /\ \A i \in 1 .. k : more[i] = order[i] /\ more[i] \in rest
        /\ more[k + 1] = m
        /\ \A i \in 1 .. k + 1 : i \in 1 .. k \/ i = k + 1
        /\ more \in [1 .. k + 1 -> T]
    BY <2>4
  <2>6. Copy!IsInjective(more)
    <3> HIDE DEF more
    <3> SUFFICES ASSUME NEW i \in 1 .. k + 1, NEW j \in 1 .. k + 1, more[i] = more[j]
                 PROVE  i = j
      BY <2>5 DEF Copy!IsInjective
    <3> QED
      BY <2>4, <2>5 DEF Copy!IsInjective
  <2>7. ASSUME NEW i \in 1 .. k + 1, NEW j \in 1 .. k + 1, i < j
        PROVE  sizes[more[i]] >= sizes[more[j]]
    <3>1. i \in 1 .. k
      BY <2>7
    <3>2. CASE j \in 1 .. k
      BY <2>4, <2>5, <2>7, <3>1, <3>2
    <3>3. CASE j = k + 1
      <4>1. sizes[m] <= sizes[more[i]] /\ sizes[m] \in Nat /\ sizes[more[i]] \in Nat
        BY <2>2, <2>5, <3>1
      <4>2. more[j] = m
        BY <2>5, <3>3
      <4> HIDE DEF more
      <4> QED
        BY <4>1, <4>2
    <3> QED
      BY <2>5, <3>2, <3>3
  <2> HIDE DEF more
  <2> QED
    BY <2>5, <2>6, <2>7
<1> HIDE DEF N
<1>3. Nat \subseteq N
  BY <1>1, <1>2, NatSetInduction
<1>4. Sized(names, Cardinality(names)) /\ Cardinality(names) \in Nat
  BY FS_CardinalityType
<1>5. Ordered(names, Cardinality(names))
  BY <1>3, <1>4 DEF N
<1> QED
  BY <1>5 DEF IsOrder

\* The largest come first, and every name comes.
LEMMA LargestFirstIsAll ==
  ASSUME NEW names, IsFiniteSet(names), NEW sizes \in [names -> Nat]
  PROVE  LET order == Copy!LargestFirst(sizes)
         IN  /\ order \in [1 .. Cardinality(names) -> names]
             /\ Copy!IsInjective(order)
             /\ {order[i] : i \in 1 .. Cardinality(names)} = names
<1> DEFINE n == Cardinality(names)
           order == Copy!LargestFirst(sizes)
<1>1. Copy!Cardinality(DOMAIN sizes) = Cardinality(DOMAIN sizes) /\ DOMAIN sizes = names
  BY DEF Copy!Cardinality, Cardinality
<1>2. order = CHOOSE o : IsOrder(o, sizes)
  BY <1>1 DEF IsOrder, Copy!LargestFirst
<1>3. IsOrder(order, sizes)
  <2> HIDE DEF order
  <2> QED
    BY <1>2, AnOrderExists
<1> HIDE DEF order
<1>4. order \in [1 .. n -> names] /\ Copy!IsInjective(order)
  BY <1>1, <1>3 DEF IsOrder
<1>5. order \in Injection(1 .. n, names)
  BY <1>4 DEF Injection, IsInjective, Copy!IsInjective
<1>6. n \in Nat /\ Cardinality(1 .. n) = n
  <2>1. n \in Nat
    BY FS_CardinalityType
  <2> HIDE DEF n
  <2> QED
    BY <2>1, FS_Interval
<1>7. order \in Surjection(1 .. n, names)
  <2> HIDE DEF n
  <2> QED
    BY <1>5, <1>6, FS_Injection DEF n
<1> QED
  BY <1>4, <1>7 DEF Surjection, order

\* The partial packings, up to the first n names.
Packs(f, sizes, count, n) ==
  f = [k \in 0 .. n |->
         IF k = 0 THEN [i \in 1 .. count |-> [names |-> {}, load |-> 0]]
         ELSE Copy!PutInto(f[k - 1], Copy!Emptiest(f[k - 1]), Copy!LargestFirst(sizes)[k],
                           sizes[Copy!LargestFirst(sizes)[k]])]

\* Such packings there are.
LEMMA PacksSome ==
  ASSUME NEW sizes, NEW count, NEW n \in Nat
  PROVE  \E f : Packs(f, sizes, count, n)
<1> DEFINE order == Copy!LargestFirst(sizes)
           none == [i \in 1 .. count |-> [names |-> {}, load |-> 0]]
           Next1(bins, k) == Copy!PutInto(bins, Copy!Emptiest(bins), order[k], sizes[order[k]])
           N == {k \in Nat : \E f : Packs(f, sizes, count, k)}
<1>0. \A f, k : Packs(f, sizes, count, k) <=>
                  f = [j \in 0 .. k |-> IF j = 0 THEN none ELSE Next1(f[j - 1], j)]
  BY DEF Packs
<1> HIDE DEF none, Next1
<1>1. 0 \in N
  <2> DEFINE f == [j \in 0 .. 0 |-> none]
  <2>1. f = [j \in 0 .. 0 |-> IF j = 0 THEN none ELSE Next1(f[j - 1], j)]
    OBVIOUS
  <2> HIDE DEF f
  <2> QED
    BY <1>0, <2>1
<1>2. ASSUME NEW k \in Nat, k \in N
      PROVE  k + 1 \in N
  <2>1. PICK f : f = [j \in 0 .. k |-> IF j = 0 THEN none ELSE Next1(f[j - 1], j)]
    BY <1>0, <1>2
  <2> DEFINE g == [j \in 0 .. k + 1 |-> IF j = k + 1 THEN Next1(f[k], k + 1) ELSE f[j]]
  <2>2. ASSUME NEW j \in 0 .. k + 1
        PROVE  g[j] = IF j = 0 THEN none ELSE Next1(g[j - 1], j)
    <3>1. CASE j = k + 1
      <4>1. j # 0 /\ j - 1 = k /\ k \in 0 .. k + 1 /\ k # k + 1
        BY <3>1
      <4> QED
        BY <3>1, <4>1
    <3>2. CASE j # k + 1
      <4>1. j \in 0 .. k /\ g[j] = f[j] /\ (j # 0 => j - 1 \in 0 .. k + 1 /\ j - 1 # k + 1)
        BY <3>2
      <4>2. j # 0 => g[j - 1] = f[j - 1]
        BY <4>1
      <4>3. f[j] = IF j = 0 THEN none ELSE Next1(f[j - 1], j)
        BY <2>1, <4>1
      <4> HIDE DEF g
      <4> QED
        BY <4>1, <4>2, <4>3
    <3> QED
      BY <3>1, <3>2
  <2>3. g = [j \in 0 .. k + 1 |-> g[j]]
    OBVIOUS
  <2> HIDE DEF g
  <2>4. g = [j \in 0 .. k + 1 |-> IF j = 0 THEN none ELSE Next1(g[j - 1], j)]
    BY <2>2, <2>3
  <2>5. Packs(g, sizes, count, k + 1)
    BY <1>0, <2>4
  <2> QED
    BY <2>5
<1> HIDE DEF N
<1>3. Nat \subseteq N
  BY <1>1, <1>2, NatSetInduction
<1> QED
  BY <1>3 DEF N

\* Of bins with loads there is an emptiest, the first of those that are.
LEMMA AnEmptiestExists ==
  ASSUME NEW count \in Nat \ {0}, NEW names,
         NEW bins \in [1 .. count -> [names : SUBSET names, load : Nat]]
  PROVE  Copy!Emptiest(bins) \in 1 .. count
<1> DEFINE loads == {bins[i].load : i \in 1 .. count}
<1>1. loads \in SUBSET Nat /\ loads # {}
  <2>1. 1 \in 1 .. count
    OBVIOUS
  <2> QED
    BY <2>1
<1>2. PICK l \in loads : \A x \in loads : l <= x
  <2> HIDE DEF loads
  <2> QED
    BY <1>1, LeastOf
<1> DEFINE least == {i \in 1 .. count : bins[i].load = l}
<1>3. least \in SUBSET Nat /\ least # {}
  BY <1>2
<1>4. PICK x \in least : \A i \in least : x <= i
  <2> HIDE DEF least
  <2> QED
    BY <1>3, LeastOf
<1>5. ASSUME NEW j \in 1 .. count
      PROVE  \/ bins[x].load < bins[j].load
             \/ bins[x].load = bins[j].load /\ x <= j
  <2>1. l <= bins[j].load /\ l \in Nat /\ bins[j].load \in Nat /\ bins[x].load = l
    BY <1>2, <1>4
  <2>2. CASE bins[j].load = l
    BY <1>4, <2>1, <2>2
  <2>3. CASE bins[j].load # l
    BY <2>1, <2>3
  <2> QED
    BY <2>2, <2>3
<1>6. x \in DOMAIN bins /\ DOMAIN bins = 1 .. count
  BY <1>4
<1> QED
  BY <1>5, <1>6 DEF Copy!Emptiest

\* Each bin holds names, no two the same one, and all together those placed so far.
HoldExactly(bins, names, count, placed) ==
  /\ bins \in [1 .. count -> [names : SUBSET names, load : Nat]]
  /\ \A i, j \in 1 .. count : i # j => bins[i].names \cap bins[j].names = {}
  /\ UNION {bins[i].names : i \in 1 .. count} = placed

\* So it is after one more name.
LEMMA OneMoreIsPlaced ==
  ASSUME NEW count \in Nat \ {0}, NEW names, NEW bins, NEW placed, NEW name \in names,
         name \notin placed, NEW size \in Nat, HoldExactly(bins, names, count, placed)
  PROVE  HoldExactly(Copy!PutInto(bins, Copy!Emptiest(bins), name, size), names, count,
                     placed \cup {name})
<1> DEFINE e == Copy!Emptiest(bins)
           bins2 == Copy!PutInto(bins, e, name, size)
<1>1. bins \in [1 .. count -> [names : SUBSET names, load : Nat]]
  BY DEF HoldExactly
<1>2. e \in 1 .. count
  BY <1>1, AnEmptiestExists
<1> HIDE DEF e
<1>3. /\ DOMAIN bins2 = 1 .. count
      /\ bins2[e] = [names |-> bins[e].names \cup {name}, load |-> bins[e].load + size]
      /\ \A i \in 1 .. count : i # e => bins2[i] = bins[i]
      /\ bins2 = [i \in 1 .. count |-> bins2[i]]
  BY <1>1, <1>2 DEF Copy!PutInto
<1> HIDE DEF bins2
<1>4. bins2[e] \in [names : SUBSET names, load : Nat]
  BY <1>1, <1>2, <1>3
<1>5. bins2 \in [1 .. count -> [names : SUBSET names, load : Nat]]
  BY <1>1, <1>3, <1>4
<1>6. \A i \in 1 .. count : name \notin bins[i].names
  BY DEF HoldExactly
<1>7. /\ bins2[e].names = bins[e].names \cup {name}
      /\ \A i \in 1 .. count : i # e => bins2[i].names = bins[i].names
  BY <1>3
<1>8. ASSUME NEW i \in 1 .. count, NEW j \in 1 .. count, i # j
      PROVE  bins2[i].names \cap bins2[j].names = {}
  <2>1. bins[i].names \cap bins[j].names = {} /\ name \notin bins[i].names /\ name \notin bins[j].names
    BY <1>6, <1>8 DEF HoldExactly
  <2> QED
    BY <1>7, <1>8, <2>1
<1>9. UNION {bins2[i].names : i \in 1 .. count} = placed \cup {name}
  <2>1. \A x : x \in placed <=> \E i \in 1 .. count : x \in bins[i].names
    BY DEF HoldExactly
  <2>2. \A x : (x \in placed \/ x = name) <=> \E i \in 1 .. count : x \in bins2[i].names
    BY <1>2, <1>7, <2>1
  <2> QED
    BY <2>2
<1> QED
  BY <1>5, <1>8, <1>9 DEF HoldExactly, bins2, e

\* The bins hold every name once, however many bins and whatever the sizes.
LEMMA BinsHoldAll ==
  ASSUME NEW names, IsFiniteSet(names), NEW sizes \in [names -> Nat], NEW count \in Nat \ {0}
  PROVE  HoldExactly(Copy!Bins(sizes, count), names, count, names)
<1> DEFINE n == Cardinality(names)
           order == Copy!LargestFirst(sizes)
           f == CHOOSE g : Packs(g, sizes, count, n)
           Placed(k) == {order[i] : i \in 1 .. k}
<1>1. n \in Nat
  BY FS_CardinalityType
<1>2. Copy!Cardinality(DOMAIN sizes) = n
  BY DEF Copy!Cardinality, Cardinality
<1>3. Copy!Bins(sizes, count) = f[n]
  BY <1>2 DEF Copy!Bins, Packs
<1>4. Packs(f, sizes, count, n)
  <2> HIDE DEF n
  <2> QED
    BY <1>1, PacksSome
<1>5. /\ order \in [1 .. n -> names]
      /\ \A i, j \in 1 .. n : order[i] = order[j] => i = j
      /\ Placed(n) = names
  <2>1. Copy!IsInjective(order) /\ order \in [1 .. n -> names] /\ Placed(n) = names
    BY LargestFirstIsAll
  <2> QED
    BY <2>1 DEF Copy!IsInjective
<1> HIDE DEF f, n, order
<1> DEFINE N == {k \in Nat : k <= n => HoldExactly(f[k], names, count, Placed(k))}
<1>6. 0 \in N
  <2>1. f[0] = [i \in 1 .. count |-> [names |-> {}, load |-> 0]]
    BY <1>1, <1>4 DEF Packs
  <2>2. Placed(0) = {} /\ 1 \in 1 .. count
    OBVIOUS
  <2> HIDE DEF Placed
  <2>3. /\ f[0] \in [1 .. count -> [names : SUBSET names, load : Nat]]
        /\ \A i \in 1 .. count : f[0][i].names = {}
    BY <2>1
  <2>4. UNION {f[0][i].names : i \in 1 .. count} = {}
    BY <2>3
  <2> QED
    BY <2>2, <2>3, <2>4 DEF HoldExactly
<1>7. ASSUME NEW k \in Nat, k \in N
      PROVE  k + 1 \in N
  <2> SUFFICES ASSUME k + 1 <= n
               PROVE  HoldExactly(f[k + 1], names, count, Placed(k + 1))
    OBVIOUS
  <2> DEFINE name == order[k + 1]
  <2>1. k + 1 \in 0 .. n /\ k + 1 \in 1 .. n /\ k + 1 # 0 /\ (k + 1) - 1 = k /\ k <= n
    BY <1>1
  <2>2. f[k + 1] = Copy!PutInto(f[k], Copy!Emptiest(f[k]), name, sizes[name])
    BY <1>4, <2>1 DEF Packs, order
  <2>3. name \in names /\ sizes[name] \in Nat
    BY <1>5, <2>1
  <2>4. name \notin Placed(k)
    <3>1. \A i \in 1 .. k : i \in 1 .. n /\ i # k + 1
      BY <1>1, <2>1
    <3> QED
      BY <1>5, <2>1, <3>1
  <2>5. Placed(k + 1) = Placed(k) \cup {name}
    <3>1. \A i : i \in 1 .. k + 1 <=> i \in 1 .. k \/ i = k + 1
      OBVIOUS
    <3> QED
      BY <3>1
  <2>6. HoldExactly(f[k], names, count, Placed(k))
    BY <1>7, <2>1
  <2> HIDE DEF Placed, name
  <2> QED
    BY <2>2, <2>3, <2>4, <2>5, <2>6, OneMoreIsPlaced
<1> HIDE DEF N
<1>8. Nat \subseteq N
  BY <1>6, <1>7, NatSetInduction
<1>9. HoldExactly(f[n], names, count, Placed(n))
  <2> HIDE DEF Placed
  <2>1. n \in N /\ n <= n
    BY <1>1, <1>8
  <2> QED
    BY <2>1 DEF N
<1> QED
  BY <1>3, <1>5, <1>9 DEF f, n

LEMMA MinOfTwo ==
  ASSUME NEW a \in Nat, NEW b \in Nat
  PROVE  Copy!Min({a, b}) \in {a, b} /\ Copy!Min({a, b}) <= a /\ Copy!Min({a, b}) <= b
<1>1. \E x \in {a, b} : \A y \in {a, b} : x <= y
  OBVIOUS
<1>2. /\ Copy!Min({a, b}) \in {a, b}
      /\ \A y \in {a, b} : Copy!Min({a, b}) <= y
  BY <1>1 DEF Copy!Min
<1> QED
  BY <1>2

\* At least one rsync, and no more than are allowed.
LEMMA ParallelIsBounded ==
  ASSUME NEW names, IsFiniteSet(names), NEW sizes \in [names -> Nat], NEW allowed \in Nat \ {0}
  PROVE  Copy!Parallel(allowed, sizes) \in 1 .. allowed
<1> DEFINE n == Copy!Cardinality(DOMAIN sizes)
           total == Copy!SumFunction(sizes)
<1>1. n \in Nat
  <2>1. n = Cardinality(names)
    BY DEF Copy!Cardinality, Cardinality
  <2> QED
    BY <2>1, FS_CardinalityType
<1> HIDE DEF n, total
<1>2. Copy!SuggestParallelism(n, total) \in Nat \ {0}
  <2>1. CASE n <= 1 \/ total < Large
    BY <2>1 DEF Copy!SuggestParallelism
  <2>2. CASE ~(n <= 1 \/ total < Large)
    <3>1. Copy!Min({n, 4}) \in {n, 4}
      BY <1>1, MinOfTwo
    <3>2. n \in Nat \ {0}
      BY <1>1, <2>2
    <3> QED
      BY <2>2, <3>1, <3>2 DEF Copy!SuggestParallelism
  <2> QED
    BY <2>1, <2>2
<1> DEFINE suggested == Copy!SuggestParallelism(n, total)
<1>3. Copy!Parallel(allowed, sizes) = Copy!Min({allowed, suggested})
  BY DEF Copy!Parallel, n, total
<1> HIDE DEF suggested
<1> QED
  BY <1>2, <1>3, MinOfTwo DEF suggested

(***************************************************************************)
(* A plan is one run over everything, or several that share the entries    *)
(* out: none over nothing, none named twice, and no more than allowed      *)
(* (partition.py, plan_transfer).                                          *)
(***************************************************************************)
LEMMA PlanSharesOut ==
  ASSUME NEW names, IsFiniteSet(names), NEW sizes \in [names -> Nat], NEW allowed \in Nat \ {0},
         NEW hasHardlinks \in BOOLEAN,
         NEW plan, plan = Copy!PlanTransfer(sizes, allowed, hasHardlinks)
  PROVE  /\ \/ plan = Copy!Whole(names)
            \/ ~hasHardlinks /\ plan = Copy!Split(plan.chunks)
         /\ UNION plan.chunks = names
         /\ \A c, d \in plan.chunks : c # d => c \cap d = {}
         /\ Cardinality(plan.chunks) \in 1 .. allowed
         /\ ~plan.whole => Cardinality(plan.chunks) > 1 /\ {} \notin plan.chunks
<1> DEFINE n == Cardinality(names)
           count == Copy!Min({allowed, n})
           bins == Copy!Bins(sizes, count)
           chunks == Copy!Chunks(sizes, allowed)
<1>1. \A S : Copy!Cardinality(S) = Cardinality(S)
  BY DEF Copy!Cardinality, Cardinality
<1>2. n \in Nat /\ DOMAIN sizes = names
  BY FS_CardinalityType
<1>3. CASE plan = Copy!Whole(names)
  <2>1. plan.whole = TRUE /\ plan.chunks = {names}
    BY <1>3 DEF Copy!Whole
  <2>2. Cardinality({names}) = 1
    BY FS_Singleton
  <2> QED
    BY <1>3, <2>1, <2>2
<1>4. CASE plan # Copy!Whole(names)
  <2>1. /\ plan = Copy!Split(chunks) /\ ~hasHardlinks
        /\ Cardinality(chunks) > 1 /\ allowed > 1 /\ n > 1
    BY <1>1, <1>2, <1>4 DEF Copy!PlanTransfer, Copy!MayBeSplit
  <2>2. plan.whole = FALSE /\ plan.chunks = chunks
    BY <2>1 DEF Copy!Split
  <2>3. count \in Nat \ {0} /\ count <= allowed
    <3>1. count \in {allowed, n} /\ count <= allowed
      BY <1>2, MinOfTwo
    <3> HIDE DEF n, count
    <3> QED
      BY <1>2, <2>1, <3>1
  <2>4. HoldExactly(bins, names, count, names)
    <3> HIDE DEF count
    <3> QED
      BY <2>3, BinsHoldAll
  <2>5. chunks = Copy!NamesOf(bins) \ {{}}
    BY <1>1, <1>2 DEF Copy!Chunks
  <2> HIDE DEF count, bins, chunks, n
  <2>6. DOMAIN bins = 1 .. count
    BY <2>4 DEF HoldExactly
  <2>7. /\ \A c \in chunks : c # {} /\ \E i \in 1 .. count : c = bins[i].names
        /\ \A i \in 1 .. count : bins[i].names # {} => bins[i].names \in chunks
    BY <2>5, <2>6 DEF Copy!NamesOf
  <2>8. UNION chunks = names
    <3>1. \A x : x \in names <=> \E i \in 1 .. count : x \in bins[i].names
      BY <2>4 DEF HoldExactly
    <3> QED
      BY <2>7, <3>1
  <2>9. \A c, d \in chunks : c # d => c \cap d = {}
    BY <2>4, <2>7 DEF HoldExactly
  <2>10. Cardinality(chunks) \in Nat /\ Cardinality(chunks) <= count
    <3> DEFINE first == [c \in chunks |-> CHOOSE i \in 1 .. count : c = bins[i].names]
    <3>1. \A c \in chunks : first[c] \in 1 .. count /\ c = bins[first[c]].names
      BY <2>7
    <3>2. first \in Injection(chunks, 1 .. count)
      <4>1. first \in [chunks -> 1 .. count]
        BY <3>1
      <4>2. \A c, d \in chunks : first[c] = first[d] => c = d
        BY <3>1
      <4> HIDE DEF first
      <4> QED
        BY <4>1, <4>2 DEF Injection, IsInjective
    <3>3. IsFiniteSet(1 .. count) /\ Cardinality(1 .. count) = count
      BY <2>3, FS_Interval
    <3> HIDE DEF first
    <3>4. IsFiniteSet(chunks) /\ Cardinality(chunks) <= count
      BY <3>2, <3>3, FS_Injection
    <3> QED
      BY <3>4, FS_CardinalityType
  <2>11. Cardinality(chunks) \in 1 .. allowed
    <3> DEFINE size == Cardinality(chunks)
    <3>1. size > 1 /\ size \in Nat /\ size <= count
      BY <2>1, <2>10
    <3> HIDE DEF size
    <3>2. size \in 1 .. allowed
      BY <2>3, <3>1
    <3> QED
      BY <3>2 DEF size
  <2> QED
    BY <2>1, <2>2, <2>7, <2>8, <2>9, <2>11
<1> QED
  BY <1>3, <1>4

\* The runs of a plan and the pass over the root make a new volume the source's tree.
LEMMA CopyIsTheSource ==
  ASSUME NEW names, NEW TheEntries, NEW root, NEW entries \in [names -> TheEntries],
         NEW plan, plan = Copy!Whole(names) \/ plan = Copy!Split(plan.chunks),
         UNION plan.chunks = names
  PROVE  LET source == [root |-> root, entries |-> entries]
         IN  Copy!CopyOne(source, Empty, plan) = source
<1> DEFINE source == [root |-> root, entries |-> entries]
           copied == Copy!RunChunks(source, Empty, plan.chunks)
<1>1. CASE plan.whole
  BY <1>1 DEF Copy!CopyOne, Copy!RunWhole
<1>2. CASE ~plan.whole
  <2>1. UNION {Copy!Listed(chunk) : chunk \in plan.chunks} = names
    BY DEF Copy!Listed, Copy!IsComment, Copy!FilesFromLine
  <2>2. DOMAIN Empty.entries = {}
    BY DEF Empty
  <2>3. copied.entries = [name \in names |-> entries[name]]
    BY <2>1, <2>2 DEF Copy!RunChunks, Empty
  <2>4. copied = [root |-> "root", entries |-> entries]
    BY <2>1, <2>2, <2>3 DEF Copy!RunChunks, Empty
  <2> QED
    BY <1>2, <2>4 DEF Copy!CopyOne, Copy!RunRootOnly
<1> QED
  BY <1>1, <1>2

LEMMA NothingDiffersFromItself ==
  ASSUME NEW tree, NEW unreadable
  PROVE  Copy!Compare(tree, tree, unreadable) = {}
BY DEF Copy!Compare, Copy!MetadataDiffers, Copy!ContentDiffers

(***************************************************************************)
(* Whatever the tree, its sizes and its links: the runs of the plan copy   *)
(* every entry and the root, no file with links is torn apart, and VERIFY  *)
(* accepts the copy (partition.py, rsync.py, steps.py _copy_one).          *)
(***************************************************************************)
THEOREM SplitLosesNothing ==
  ASSUME NEW names, NEW Roots, NEW TheEntries, IsFiniteSet(names),
         CopyQuestion(question, names, Roots, TheEntries)
  PROVE  CopyIsWhole
<1> DEFINE sizes == question.sizes
           allowed == Copy!Parallel(question.parallel, sizes)
           plan == Plan(question)
<1>1. PICK root \in Roots, entries \in [names -> TheEntries] :
        question.source = [root |-> root, entries |-> entries]
  BY DEF CopyQuestion
<1>2. /\ question.kind = "copy_asked" /\ sizes \in [names -> Nat]
      /\ question.parallel \in Nat \ {0} /\ question.linked \subseteq names
  BY DEF CopyQuestion
<1>3. allowed \in 1 .. question.parallel
  BY <1>2, ParallelIsBounded
<1>4. /\ \/ plan = Copy!Whole(names)
         \/ question.linked = {} /\ plan = Copy!Split(plan.chunks)
      /\ UNION plan.chunks = names
      /\ \A c, d \in plan.chunks : c # d => c \cap d = {}
      /\ Cardinality(plan.chunks) \in 1 .. allowed
      /\ ~plan.whole => Cardinality(plan.chunks) > 1 /\ {} \notin plan.chunks
  <2>1. plan = Copy!PlanTransfer(sizes, allowed, question.linked # {})
    BY DEF Plan
  <2>2. allowed \in Nat \ {0}
    BY <1>2, <1>3
  <2> DEFINE hasHardlinks == question.linked # {}
  <2>3. hasHardlinks \in BOOLEAN
    OBVIOUS
  <2> HIDE DEF allowed, sizes, hasHardlinks
  <2>4. plan = Copy!PlanTransfer(sizes, allowed, hasHardlinks)
    BY <2>1 DEF hasHardlinks
  <2> HIDE DEF plan
  <2>5. /\ \/ plan = Copy!Whole(names)
           \/ ~hasHardlinks /\ plan = Copy!Split(plan.chunks)
        /\ UNION plan.chunks = names
        /\ \A c, d \in plan.chunks : c # d => c \cap d = {}
        /\ Cardinality(plan.chunks) \in 1 .. allowed
        /\ ~plan.whole => Cardinality(plan.chunks) > 1 /\ {} \notin plan.chunks
    BY <1>2, <2>2, <2>3, <2>4, PlanSharesOut
  <2> QED
    BY <2>5 DEF hasHardlinks
<1>5. DOMAIN question.source.entries = names
  BY <1>1
<1> HIDE DEF allowed, plan
<1>6. Cardinality(plan.chunks) \in 1 .. question.parallel
  BY <1>2, <1>3, <1>4
<1>7. TypeOK
  <2>1. plan.chunks \subseteq SUBSET names
    BY <1>4
  <2> QED
    BY <1>2, <1>4, <1>5, <1>6, <2>1 DEF TypeOK, Asked, plan
<1>8. FreshCopyVerifies
  <2>1. Copy!CopyOne(question.source, Empty, plan) = question.source
    BY <1>1, <1>4, CopyIsTheSource
  <2> QED
    BY <2>1, NothingDiffersFromItself DEF FreshCopyVerifies, plan
<1>9. LinksStayTogether
  <2>1. \E c \in plan.chunks : question.linked \subseteq c
    <3>1. CASE plan = Copy!Whole(names)
      BY <1>2, <3>1 DEF Copy!Whole
    <3>2. CASE question.linked = {}
      <4>1. plan.chunks # {}
        <5>1. Cardinality(plan.chunks) # 0
          BY <1>2, <1>6
        <5> QED
          BY <5>1, FS_EmptySet
      <4> QED
        BY <3>2, <4>1
    <3> QED
      BY <1>4, <3>1, <3>2
  <2> QED
    BY <1>4, <1>5, <2>1 DEF LinksStayTogether, plan
<1>10. VerifiedMeansIdentical
  BY <1>2 DEF VerifiedMeansIdentical, Asked
<1> QED
  BY <1>7, <1>8, <1>9, <1>10 DEF CopyIsWhole

\* A tree whose top has the names of its entries, none of them the root's own.
TreesOf(Roots, names, TheMetas, Contents) ==
  [root : Roots, entries : [names -> [meta : TheMetas, content : Contents]]]

CompareQuestion(q, AllNames, Roots, TheMetas, Contents) ==
  /\ q.kind = "compare_asked"
  /\ "." \notin AllNames
  /\ \E n, m \in SUBSET AllNames : /\ q.source \in TreesOf(Roots, n, TheMetas, Contents)
                                   /\ q.target \in TreesOf(Roots, m, TheMetas, Contents)
  /\ q.unreadable = {}

\* Two trees VERIFY finds no difference between are the same, when every file of
\* both could be read (verify.py, compare).
THEOREM VerifyMissesNothing ==
  ASSUME NEW AllNames, NEW Roots, NEW TheMetas, NEW Contents,
         CompareQuestion(question, AllNames, Roots, TheMetas, Contents)
  PROVE  CopyIsWhole
<1> DEFINE s == question.source
           t == question.target
<1>1. question.kind = "compare_asked" /\ question.unreadable = {}
  BY DEF CompareQuestion
<1>2. PICK n \in SUBSET AllNames, m \in SUBSET AllNames :
        /\ s \in TreesOf(Roots, n, TheMetas, Contents) /\ t \in TreesOf(Roots, m, TheMetas, Contents)
        /\ "." \notin n /\ "." \notin m
  BY DEF CompareQuestion
<1>3. ASSUME Copy!Compare(s, t, {}) = {}
      PROVE  s = t
  <2> DEFINE sm == Copy!CollectMetadata(s)
             tm == Copy!CollectMetadata(t)
  <2>1. /\ \A path \in DOMAIN sm \cup DOMAIN tm :
             path \in DOMAIN sm /\ path \in DOMAIN tm /\ sm[path] = tm[path]
        /\ Copy!ContentDiffers(s, t, {}) = {}
    BY <1>3 DEF Copy!Compare, Copy!MetadataDiffers
  <2>2. DOMAIN s.entries = n /\ DOMAIN t.entries = m
    BY <1>2 DEF TreesOf
  <2>3. /\ DOMAIN sm = n \cup {"."} /\ sm["."] = <<s.root, TRUE>>
        /\ DOMAIN tm = m \cup {"."} /\ tm["."] = <<t.root, TRUE>>
        /\ \A x \in n : sm[x] = <<s.entries[x].meta, Copy!IsDirectory(s.entries[x])>>
        /\ \A x \in m : tm[x] = <<t.entries[x].meta, Copy!IsDirectory(t.entries[x])>>
    BY <1>2, <2>2 DEF Copy!CollectMetadata
  <2> HIDE DEF sm, tm
  <2>4. n = m
    BY <1>2, <2>1, <2>3
  <2>5. s.root = t.root
    BY <2>1, <2>3
  <2>6. ASSUME NEW x \in n
        PROVE  s.entries[x] = t.entries[x]
    <3>1. /\ s.entries[x].meta = t.entries[x].meta
          /\ Copy!IsDirectory(s.entries[x]) <=> Copy!IsDirectory(t.entries[x])
      <4>1. <<s.entries[x].meta, Copy!IsDirectory(s.entries[x])>>
               = <<t.entries[x].meta, Copy!IsDirectory(t.entries[x])>>
        BY <2>1, <2>3, <2>4
      <4> QED
        BY <4>1
    <3>2. s.entries[x].content = t.entries[x].content
      <4>1. CASE Copy!IsDirectory(s.entries[x])
        BY <3>1, <4>1 DEF Copy!IsDirectory
      <4>2. CASE ~Copy!IsDirectory(s.entries[x])
        <5> DEFINE sc == Copy!CollectContent(s, {})
                   tc == Copy!CollectContent(t, {})
        <5>1. /\ x \in DOMAIN sc /\ sc[x] = s.entries[x].content
              /\ x \in DOMAIN tc /\ tc[x] = t.entries[x].content
          BY <2>2, <2>4, <3>1, <4>2 DEF Copy!CollectContent
        <5>2. \A path \in DOMAIN sc \cap DOMAIN tc : sc[path] = tc[path]
          BY <2>1 DEF Copy!ContentDiffers
        <5> HIDE DEF sc, tc
        <5> QED
          BY <5>1, <5>2
      <4> QED
        BY <4>1, <4>2
    <3>3. /\ s.entries[x] \in [meta : TheMetas, content : Contents]
          /\ t.entries[x] \in [meta : TheMetas, content : Contents]
      BY <1>2, <2>4 DEF TreesOf
    <3> QED
      BY <3>1, <3>2, <3>3
  <2>7. s.entries = t.entries
    <3>1. /\ s.entries \in [n -> [meta : TheMetas, content : Contents]]
          /\ t.entries \in [n -> [meta : TheMetas, content : Contents]]
      BY <1>2, <2>4 DEF TreesOf
    <3> QED
      BY <2>6, <3>1
  <2>8. s = [root |-> s.root, entries |-> s.entries] /\ t = [root |-> t.root, entries |-> t.entries]
    BY <1>2 DEF TreesOf
  <2> QED
    BY <2>5, <2>7, <2>8
<1>4. VerifiedMeansIdentical
  BY <1>1, <1>3 DEF VerifiedMeansIdentical
<1> QED
  BY <1>1, <1>4 DEF CopyIsWhole, TypeOK, FreshCopyVerifies, LinksStayTogether, Asked

-----------------------------------------------------------------------------
(***************************************************************************)
(* The schedules: any number of rows, of calls that end in any way.        *)
(***************************************************************************)
ApiQuestion(q, n) ==
  /\ q.kind = "api_asked"
  /\ q.table \in {"tasks", "backups"}
  /\ q.calls \in [1 .. n -> Api!Calls]

\* The last attempt is the first that is not retried, or the last there can be.
LEMMA LastAttemptFacts ==
  ASSUME NEW call \in Api!Calls, NEW retried
  PROVE  /\ Api!LastAttempt(call, retried) \in 1 .. MaxRetries + 1
         /\ \A i \in 1 .. Api!LastAttempt(call, retried) - 1 : call[i].answer \in retried
<1> DEFINE last == {i \in DOMAIN call : call[i].answer \notin retried \/ i = MaxRetries + 1}
<1>1. DOMAIN call = 1 .. MaxRetries + 1 /\ MaxRetries + 1 \in last /\ last \subseteq Nat
  BY MaxRetriesAssumption DEF Api!Calls
<1>2. \E x \in last : \A y \in last : x <= y
  <2> HIDE DEF last
  <2> QED
    BY <1>1, LeastOf
<1>3. Api!LastAttempt(call, retried) = CHOOSE x \in last : \A y \in last : x <= y
  BY DEF Api!LastAttempt, Api!Min
<1>4. /\ Api!LastAttempt(call, retried) \in last
      /\ \A y \in last : Api!LastAttempt(call, retried) <= y
  <2> HIDE DEF last
  <2> QED
    BY <1>2, <1>3
<1> QED
  BY <1>1, <1>4, MaxRetriesAssumption

\* An attempt that was throttled committed nothing, so with no other retried one
\* row at most comes of a call.
LEMMA OneOfAThrottledCall ==
  ASSUME NEW call \in Api!Calls
  PROVE  Api!CommittedBy(call, Api!Throttled) \subseteq {Api!LastAttempt(call, Api!Throttled)}
<1> DEFINE last == Api!LastAttempt(call, Api!Throttled)
<1>1. last \in 1 .. MaxRetries + 1
      /\ \A i \in 1 .. last - 1 : call[i].answer \in Api!Throttled
  BY LastAttemptFacts
<1> SUFFICES ASSUME NEW i \in 1 .. last, i # last
             PROVE  ~call[i].committed
  BY DEF Api!CommittedBy
<1> HIDE DEF last
<1>2. i \in 1 .. MaxRetries + 1 /\ i \in 1 .. last - 1
  BY <1>1, MaxRetriesAssumption
<1>3. call[i] \in Api!Attempts /\ call[i].answer = "throttled"
  BY <1>1, <1>2 DEF Api!Calls, Api!Throttled
<1> QED
  BY <1>3 DEF Api!Attempts

LEMMA RowsOfACall ==
  ASSUME NEW table, NEW calls, NEW n \in DOMAIN calls
  PROVE  Api!RowsFor(table, calls, n) =
           IF n \in Api!Made(table, calls)
           THEN {<< n, i >> : i \in Api!CommittedBy(calls[n], Api!RetriedFor(table))}
           ELSE {}
<1> DEFINE Rows(m) == {<< m, i >> : i \in Api!CommittedBy(calls[m], Api!RetriedFor(table))}
<1>1. Api!Present(table, calls) = UNION {Rows(m) : m \in Api!Made(table, calls)}
  BY DEF Api!Present
<1>2. \A m : \A row \in Rows(m) : row[1] = m
  OBVIOUS
<1> HIDE DEF Rows
<1>3. Api!RowsFor(table, calls, n) = {row \in Api!Present(table, calls) : row[1] = n}
  BY DEF Api!RowsFor
<1>4. Api!RowsFor(table, calls, n) = IF n \in Api!Made(table, calls) THEN Rows(n) ELSE {}
  BY <1>1, <1>2, <1>3
<1> QED
  BY <1>4 DEF Rows

(***************************************************************************)
(* CREATE goes on only with one row for each of the source's, and a backup *)
(* schedule is saved once at most, for any number of rows and retries and  *)
(* any loss of answers (api/client.py, api/schedules.py).                  *)
(***************************************************************************)
THEOREM SchedulesAreCopiedOnce ==
  ASSUME NEW n \in Nat, ApiQuestion(question, n)
  PROVE  SchedulesAreExact
<1> DEFINE table == question.table
           calls == question.calls
           retried == Api!RetriedFor(table)
           Last1(m) == Api!LastAttempt(calls[m], retried)
<1>0. DOMAIN calls = 1 .. n /\ \A m \in 1 .. n : calls[m] \in Api!Calls
  BY DEF ApiQuestion
<1>1. CopiedScheduleIsExact
  <2> SUFFICES ASSUME Api!Copied(table, calls), NEW m \in DOMAIN calls
               PROVE  Cardinality(Api!RowsFor(table, calls, m)) = 1
    BY DEF CopiedScheduleIsExact
  <2>1. /\ \A k \in DOMAIN calls : Api!Answered(calls[k], retried)
        /\ Api!Created(table, calls) = Api!Present(table, calls)
    BY DEF Api!Copied, Api!CopyCountMismatches
  <2>2. Api!Made(table, calls) = DOMAIN calls
    <3>1. \A k \in DOMAIN calls : \A j \in 1 .. k - 1 : j \in DOMAIN calls
      BY <1>0
    <3> QED
      BY <2>1, <3>1 DEF Api!Made
  <2>3. Api!RowsFor(table, calls, m) = {row \in Api!Created(table, calls) : row[1] = m}
    BY <2>1 DEF Api!RowsFor
  <2>4. Api!Created(table, calls) = {<< k, Last1(k) >> : k \in DOMAIN calls}
    BY <2>2 DEF Api!Created
  <2>5. Api!RowsFor(table, calls, m) = {<< m, Last1(m) >>}
    <3> HIDE DEF Last1, table, calls
    <3> QED
      BY <2>3, <2>4
  <2> QED
    BY <2>5, FS_Singleton
<1>2. BackupAtMostOnce
  <2> SUFFICES ASSUME table = "backups", NEW m \in DOMAIN calls
               PROVE  Cardinality(Api!RowsFor("backups", calls, m)) <= 1
    BY DEF BackupAtMostOnce
  <2>1. retried = Api!Throttled
    BY DEF Api!RetriedFor
  <2>2. Api!CommittedBy(calls[m], retried) \subseteq {Last1(m)}
    BY <1>0, <2>1, OneOfAThrottledCall
  <2> DEFINE rows == Api!RowsFor("backups", calls, m)
  <2>3. rows \subseteq {<< m, Last1(m) >>}
    <3>1. rows = {} \/ rows = {<< m, i >> : i \in Api!CommittedBy(calls[m], retried)}
      BY RowsOfACall
    <3> HIDE DEF rows, Last1
    <3> QED
      BY <2>2, <3>1
  <2>4. rows = {} \/ rows = {<< m, Last1(m) >>}
    <3> HIDE DEF rows, Last1
    <3> QED
      BY <2>3
  <2> HIDE DEF rows
  <2>5. Cardinality(rows) \in {0, 1}
    BY <2>4, FS_EmptySet, FS_Singleton
  <2> QED
    BY <2>5 DEF rows
<1> QED
  BY <1>1, <1>2 DEF SchedulesAreExact

-----------------------------------------------------------------------------
(***************************************************************************)
(* The rows of the variables: any number of them, under any keys.          *)
(***************************************************************************)
\* Rows that name the same variable.
Same(r, s) == r.key = s.key /\ r.preview = s.preview

OnePerName(rows) == \A i, j \in DOMAIN rows : Same(rows[i], rows[j]) => i = j

LEMMA VarsToSet == \A s : Vars!ToSet(s) = {s[i] : i \in DOMAIN s}
BY DEF Vars!ToSet

\* One list of rows after another.
LEMMA JoinedRows ==
  ASSUME NEW S, NEW s \in Seq(S), NEW t \in Seq(S), OnePerName(s), OnePerName(t),
         \A r \in Vars!ToSet(s), q \in Vars!ToSet(t) : ~Same(r, q)
  PROVE  /\ s \o t \in Seq(S)
         /\ OnePerName(s \o t)
         /\ Vars!ToSet(s \o t) = Vars!ToSet(s) \cup Vars!ToSet(t)
<1> DEFINE u == s \o t
<1>1. /\ u \in Seq(S) /\ Len(s) \in Nat /\ Len(t) \in Nat
      /\ DOMAIN u = 1 .. Len(s) + Len(t) /\ DOMAIN s = 1 .. Len(s) /\ DOMAIN t = 1 .. Len(t)
      /\ \A i \in 1 .. Len(s) + Len(t) : u[i] = IF i <= Len(s) THEN s[i] ELSE t[i - Len(s)]
  BY ConcatProperties
<1> HIDE DEF u
<1>2. ASSUME NEW i \in DOMAIN u
      PROVE  \/ i \in DOMAIN s /\ u[i] = s[i]
             \/ i > Len(s) /\ i - Len(s) \in DOMAIN t /\ u[i] = t[i - Len(s)]
  BY <1>1
<1>3. OnePerName(u)
  <2> SUFFICES ASSUME NEW i \in DOMAIN u, NEW j \in DOMAIN u, Same(u[i], u[j])
               PROVE  i = j
    BY DEF OnePerName
  <2>0. i \in Nat /\ j \in Nat
    BY <1>1
  <2>1. CASE i \in DOMAIN s /\ u[i] = s[i] /\ j \in DOMAIN s /\ u[j] = s[j]
    BY <2>1 DEF OnePerName
  <2>2. CASE /\ i > Len(s) /\ i - Len(s) \in DOMAIN t /\ u[i] = t[i - Len(s)]
             /\ j > Len(s) /\ j - Len(s) \in DOMAIN t /\ u[j] = t[j - Len(s)]
    <3>1. i - Len(s) = j - Len(s)
      BY <2>2 DEF OnePerName
    <3> QED
      BY <2>0, <3>1, <1>1
  <2>3. CASE /\ i \in DOMAIN s /\ u[i] = s[i]
             /\ j - Len(s) \in DOMAIN t /\ u[j] = t[j - Len(s)]
    BY <2>3, VarsToSet
  <2>4. CASE /\ j \in DOMAIN s /\ u[j] = s[j]
             /\ i - Len(s) \in DOMAIN t /\ u[i] = t[i - Len(s)]
    <3>1. Same(s[j], t[i - Len(s)])
      BY <2>4 DEF Same
    <3> QED
      BY <2>4, <3>1, VarsToSet
  <2> QED
    BY <1>2, <2>1, <2>2, <2>3, <2>4
<1>4. \A i \in DOMAIN s : i \in DOMAIN u /\ u[i] = s[i]
  BY <1>1
<1>5. \A i \in DOMAIN t : i + Len(s) \in DOMAIN u /\ u[i + Len(s)] = t[i]
  BY <1>1
<1>6. Vars!ToSet(u) = Vars!ToSet(s) \cup Vars!ToSet(t)
  <2>1. Vars!ToSet(u) \subseteq Vars!ToSet(s) \cup Vars!ToSet(t)
    BY <1>2, VarsToSet
  <2>2. Vars!ToSet(s) \subseteq Vars!ToSet(u)
    BY <1>4, VarsToSet
  <2>3. Vars!ToSet(t) \subseteq Vars!ToSet(u)
    BY <1>5, VarsToSet
  <2> QED
    BY <2>1, <2>2, <2>3
<1> QED
  BY <1>1, <1>3, <1>6 DEF u

LEMMA ShortRows ==
  /\ OnePerName(<< >>) /\ Vars!ToSet(<< >>) = {}
  /\ \A r : OnePerName(<< r >>) /\ Vars!ToSet(<< r >>) = {r}
<1>1. Vars!ToSet(<< >>) = {}
  BY VarsToSet
<1>2. \A r : Vars!ToSet(<< r >>) = {r}
  BY VarsToSet
<1> QED
  BY <1>1, <1>2 DEF OnePerName

\* Pieces of a row each, or of none, in one list.
ShortPieces(pieces, n, S) ==
  \A i \in 1 .. n : pieces[i] = << >> \/ \E r \in S : pieces[i] = << r >>

ApartPieces(pieces, n) ==
  \A i, j \in 1 .. n :
    i # j => \A r \in Vars!ToSet(pieces[i]), q \in Vars!ToSet(pieces[j]) : ~Same(r, q)

LEMMA FlattenedRows ==
  ASSUME NEW S, NEW n \in Nat, NEW pieces \in [1 .. n -> Seq(S)],
         ShortPieces(pieces, n, S), ApartPieces(pieces, n)
  PROVE  /\ Vars!FlattenSeq(pieces) \in Seq(S)
         /\ OnePerName(Vars!FlattenSeq(pieces))
         /\ Vars!ToSet(Vars!FlattenSeq(pieces)) = UNION {Vars!ToSet(pieces[i]) : i \in 1 .. n}
<1>0. pieces \in Seq(Seq(S)) /\ Len(pieces) = n
  OBVIOUS
<1>1. CASE n = 0
  <2>1. pieces = << >>
    BY <1>0, <1>1
  <2>2. Vars!FlattenSeq(pieces) = << >>
    BY <1>0, <1>1, <2>1 DEF Vars!FlattenSeq
  <2>3. UNION {Vars!ToSet(pieces[i]) : i \in 1 .. n} = {}
    BY <1>1
  <2> QED
    <3>1. << >> \in Seq(S)
      OBVIOUS
    <3> HIDE DEF Same
    <3> QED
      BY <2>2, <2>3, <3>1, ShortRows
<1>2. CASE n # 0
  <2> DEFINE f == CHOOSE g : Flattens(g, pieces, n)
  <2>1. Vars!FlattenSeq(pieces) = f[n]
    BY <1>0, <1>2 DEF Vars!FlattenSeq, Flattens
  <2>2. Flattens(f, pieces, n)
    BY FlattensSome
  <2> HIDE DEF f
  <2>3. \A k \in 1 .. n : f[k] = IF k = 1 THEN pieces[k] ELSE f[k - 1] \o pieces[k]
    BY <2>2 DEF Flattens
  <2> DEFINE Good(m) == /\ f[m] \in Seq(S) /\ OnePerName(f[m])
                        /\ Vars!ToSet(f[m]) = UNION {Vars!ToSet(pieces[i]) : i \in 1 .. m}
             M == {m \in Nat : m + 1 \in 1 .. n => Good(m + 1)}
  <2>4. \A i \in 1 .. n : OnePerName(pieces[i])
    BY ShortRows DEF ShortPieces
  <2>5. 0 \in M
    <3>1. 1 \in 1 .. n /\ f[1] = pieces[1]
      BY <1>2, <2>3
    <3>2. UNION {Vars!ToSet(pieces[i]) : i \in 1 .. 1} = Vars!ToSet(pieces[1])
      OBVIOUS
    <3>3. Good(1)
      BY <3>1, <3>2, <2>4
    <3> QED
      BY <3>3
  <2>6. ASSUME NEW m \in Nat, m \in M
        PROVE  m + 1 \in M
    <3> SUFFICES ASSUME m + 2 \in 1 .. n
                 PROVE  Good(m + 2)
      <4>1. (m + 1) + 1 = m + 2
        OBVIOUS
      <4> HIDE DEF Good
      <4> QED
        BY <4>1
    <3>1. Good(m + 1)
      <4>1. m + 1 \in 1 .. n
        OBVIOUS
      <4> HIDE DEF Good
      <4> QED
        BY <2>6, <4>1
    <3>2. f[m + 2] = f[m + 1] \o pieces[m + 2]
      <4>1. f[m + 2] = IF m + 2 = 1 THEN pieces[m + 2] ELSE f[(m + 2) - 1] \o pieces[m + 2]
        BY <2>3
      <4>2. m + 2 # 1 /\ (m + 2) - 1 = m + 1
        OBVIOUS
      <4> QED
        BY <4>1, <4>2
    <3>3. \A r \in Vars!ToSet(f[m + 1]), q \in Vars!ToSet(pieces[m + 2]) : ~Same(r, q)
      <4> SUFFICES ASSUME NEW r \in Vars!ToSet(f[m + 1]), NEW q \in Vars!ToSet(pieces[m + 2])
                   PROVE  ~Same(r, q)
        OBVIOUS
      <4>1. PICK i \in 1 .. m + 1 : r \in Vars!ToSet(pieces[i])
        BY <3>1
      <4>2. i \in 1 .. n /\ i # m + 2
        OBVIOUS
      <4> QED
        BY <4>1, <4>2 DEF ApartPieces
    <3>4. /\ f[m + 2] \in Seq(S) /\ OnePerName(f[m + 2])
          /\ Vars!ToSet(f[m + 2]) = Vars!ToSet(f[m + 1]) \cup Vars!ToSet(pieces[m + 2])
      BY <2>4, <3>1, <3>2, <3>3, JoinedRows
    <3>5. UNION {Vars!ToSet(pieces[i]) : i \in 1 .. m + 2}
            = (UNION {Vars!ToSet(pieces[i]) : i \in 1 .. m + 1}) \cup Vars!ToSet(pieces[m + 2])
      <4> DEFINE U(i) == Vars!ToSet(pieces[i])
      <4>1. 1 .. m + 2 = (1 .. m + 1) \cup {m + 2}
        OBVIOUS
      <4> HIDE DEF U
      <4>2. UNION {U(i) : i \in 1 .. m + 2} = (UNION {U(i) : i \in 1 .. m + 1}) \cup U(m + 2)
        <5>1. ASSUME NEW x
              PROVE  (\E i \in 1 .. m + 2 : x \in U(i))
                       <=> ((\E i \in 1 .. m + 1 : x \in U(i)) \/ x \in U(m + 2))
          BY <4>1
        <5> QED
          BY <5>1
      <4> QED
        BY <4>2 DEF U
    <3> QED
      BY <3>1, <3>4, <3>5
  <2> HIDE DEF M, Good
  <2>7. n - 1 \in M
    <3>1. Nat \subseteq M
      BY <2>5, <2>6, NatSetInduction
    <3>2. n - 1 \in Nat
      BY <1>2
    <3> QED
      BY <3>1, <3>2
  <2>8. Good(n)
    <3>1. (n - 1) + 1 = n /\ n \in 1 .. n
      BY <1>2
    <3> QED
      BY <2>7, <3>1 DEF M
  <2> QED
    BY <2>1, <2>8 DEF Good
<1> QED
  BY <1>1, <1>2

\* The wanted of some rows are a list of their own.
LEMMA ThoseRows ==
  ASSUME NEW S, NEW rows \in Seq(S), OnePerName(rows), NEW wanted
  PROVE  /\ Vars!Those(rows, wanted) \in Seq(S)
         /\ OnePerName(Vars!Those(rows, wanted))
         /\ Vars!ToSet(Vars!Those(rows, wanted)) = Vars!ToSet(rows) \cap wanted
<1> DEFINE n == Len(rows)
           pieces == [i \in DOMAIN rows |-> IF rows[i] \in wanted THEN << rows[i] >> ELSE << >>]
<1>1. n \in Nat /\ DOMAIN rows = 1 .. n /\ \A i \in 1 .. n : rows[i] \in S
  OBVIOUS
<1>2. pieces \in [1 .. n -> Seq(S)]
  BY <1>1
<1>3. \A i \in 1 .. n : pieces[i] = IF rows[i] \in wanted THEN << rows[i] >> ELSE << >>
  BY <1>1
<1>4. Vars!Those(rows, wanted) = Vars!FlattenSeq(pieces)
  BY DEF Vars!Those
<1> HIDE DEF n, pieces
<1>5. \A i \in 1 .. n : Vars!ToSet(pieces[i]) = {rows[i]} \cap wanted
  BY <1>3, ShortRows
<1>6. ShortPieces(pieces, n, S)
  BY <1>1, <1>3 DEF ShortPieces
<1>7. ApartPieces(pieces, n)
  BY <1>1, <1>5 DEF OnePerName, ApartPieces
<1>8. UNION {Vars!ToSet(pieces[i]) : i \in 1 .. n} = Vars!ToSet(rows) \cap wanted
  BY <1>1, <1>5, VarsToSet
<1>9. /\ Vars!FlattenSeq(pieces) \in Seq(S) /\ OnePerName(Vars!FlattenSeq(pieces))
      /\ Vars!ToSet(Vars!FlattenSeq(pieces)) = UNION {Vars!ToSet(pieces[i]) : i \in 1 .. n}
  <2>1. n \in Nat
    BY <1>1
  <2> QED
    BY <2>1, <1>2, <1>6, <1>7, FlattenedRows
<1> QED
  BY <1>4, <1>8, <1>9
-----------------------------------------------------------------------------
RowsOver(keys, values) ==
  [key : keys \cup Vars!Keys, preview : BOOLEAN, locked : BOOLEAN,
   value : values \cup {Vars!Withheld, Vars!Generated}]

\* The rows a target has of itself are Coolify's own values, which the tool
\* regenerates or leaves to the target.
LEMMA OwnRowsOf ==
  ASSUME NEW keys, NEW values, NEW kind
  PROVE  /\ Vars!OwnRows(kind) \in Seq(RowsOver(keys, values))
         /\ OnePerName(Vars!OwnRows(kind))
         /\ \A r \in Vars!ToSet(Vars!OwnRows(kind)) :
              /\ ~Vars!IsApplication(kind)
              /\ ~r.preview /\ ~r.locked /\ r.value = Vars!Generated
              /\ Vars!TargetRegenerates(kind, r.key) \/ Vars!LeftToTarget(kind, r.key)
<1> DEFINE password == Vars!NewRow("PASSWORD", FALSE, FALSE, Vars!Generated)
           url == Vars!NewRow("URL", FALSE, FALSE, Vars!Generated)
<1>1. /\ password \in RowsOver(keys, values) /\ password.key = "PASSWORD"
      /\ ~password.preview /\ ~password.locked /\ password.value = Vars!Generated
  BY DEF Vars!NewRow, RowsOver, Vars!Keys
<1>2. /\ url \in RowsOver(keys, values) /\ url.key = "URL"
      /\ ~url.preview /\ ~url.locked /\ url.value = Vars!Generated
  BY DEF Vars!NewRow, RowsOver, Vars!Keys
<1>3. CASE kind = "service"
  <2>1. Vars!OwnRows(kind) = << password, url >>
    BY <1>3 DEF Vars!OwnRows
  <2> HIDE DEF password, url
  <2>2. OnePerName(<< password, url >>)
    BY <1>1, <1>2 DEF OnePerName, Same
  <2>3. Vars!ToSet(<< password, url >>) = {password, url}
    BY VarsToSet
  <2>4. /\ ~Vars!IsApplication(kind) /\ Vars!TargetRegenerates(kind, "PASSWORD")
        /\ Vars!LeftToTarget(kind, "URL")
    BY <1>3 DEF Vars!IsApplication, Vars!TargetRegenerates, Vars!LeftToTarget
  <2>5. << password, url >> \in Seq(RowsOver(keys, values))
    BY <1>1, <1>2
  <2>6. \A r \in {password, url} :
          /\ ~r.preview /\ ~r.locked /\ r.value = Vars!Generated
          /\ Vars!TargetRegenerates(kind, r.key) \/ Vars!LeftToTarget(kind, r.key)
    BY <1>1, <1>2, <2>4
  <2> QED
    BY <2>1, <2>2, <2>3, <2>4, <2>5, <2>6
<1>4. CASE kind = "redis"
  <2>1. Vars!OwnRows(kind) = << password >>
    BY <1>4 DEF Vars!OwnRows
  <2> HIDE DEF password, url
  <2>2. ~Vars!IsApplication(kind) /\ Vars!TargetRegenerates(kind, "PASSWORD")
    BY <1>4 DEF Vars!IsApplication, Vars!TargetRegenerates
  <2>3. << password >> \in Seq(RowsOver(keys, values))
    BY <1>1
  <2> QED
    BY <1>1, <2>1, <2>2, <2>3, ShortRows
<1>5. CASE kind \notin {"service", "redis"}
  <2>1. Vars!OwnRows(kind) = << >>
    BY <1>5 DEF Vars!OwnRows
  <2>2. << >> \in Seq(RowsOver(keys, values))
    OBVIOUS
  <2> QED
    BY <2>1, <2>2, ShortRows
<1> QED
  BY <1>3, <1>4, <1>5

\* t is the preview row Coolify makes beside a new production row like e.
IsTwin(t, e, kind, release) ==
  /\ Vars!IsApplication(kind) /\ ~e.preview
  /\ ~(release = "4.5.1" /\ kind = "compose_app" /\ e.key = "PASSWORD")
  /\ t.preview /\ t.key = e.key /\ t.value = e.value
  /\ e.locked /\ release = "4.5.1" => t.locked

LEMMA TwinRow ==
  ASSUME NEW keys, NEW values, NEW kind, NEW release, NEW rows,
         NEW e \in RowsOver(keys, values), ~e.preview
  PROVE  /\ Vars!Twin(kind, release, rows, e) \in Seq(RowsOver(keys, values))
         /\ OnePerName(Vars!Twin(kind, release, rows, e))
         /\ \A t \in Vars!ToSet(Vars!Twin(kind, release, rows, e)) :
              IsTwin(t, e, kind, release) /\ ~Vars!Has(rows, e.key, TRUE)
<1> DEFINE none == \/ ~Vars!IsApplication(kind)
                   \/ Vars!Has(rows, e.key, TRUE)
                   \/ release = "4.5.1" /\ kind = "compose_app" /\ e.key = "PASSWORD"
           locked == e.locked /\ release = "4.5.1"
           t == Vars!NewRow(e.key, TRUE, locked, e.value)
<1>1. Vars!Twin(kind, release, rows, e) = IF none THEN << >> ELSE << t >>
  BY DEF Vars!Twin
<1>2. CASE none
  <2>1. << >> \in Seq(RowsOver(keys, values))
    OBVIOUS
  <2>2. Vars!Twin(kind, release, rows, e) = << >>
    BY <1>1, <1>2
  <2> QED
    BY <2>1, <2>2, ShortRows
<1>3. CASE ~none
  <2>1. Vars!Twin(kind, release, rows, e) = << t >>
    BY <1>1, <1>3
  <2>2. e.key \in keys \cup Vars!Keys /\ e.value \in values \cup {Vars!Withheld, Vars!Generated}
    BY DEF RowsOver
  <2>3. e.locked /\ release = "4.5.1" => locked
    OBVIOUS
  <2>4. locked \in BOOLEAN
    OBVIOUS
  <2> HIDE DEF locked
  <2>5. t.key = e.key /\ t.preview = TRUE /\ t.locked = locked /\ t.value = e.value
    BY DEF Vars!NewRow
  <2>6. t \in RowsOver(keys, values)
    BY <2>2, <2>4 DEF Vars!NewRow, RowsOver
  <2> HIDE DEF t
  <2>7. IsTwin(t, e, kind, release) /\ ~Vars!Has(rows, e.key, TRUE)
    <3>1. t.preview
      BY <2>5
    <3>2. e.locked /\ release = "4.5.1" => t.locked
      BY <2>3, <2>5
    <3> QED
      BY <1>3, <2>5, <3>1, <3>2 DEF IsTwin
  <2>8. << t >> \in Seq(RowsOver(keys, values))
    BY <2>6
  <2> QED
    BY <2>1, <2>7, <2>8, ShortRows
<1> QED
  BY <1>2, <1>3

\* An upsert of a row that is there replaces it and no other.
LEMMA UpdatedRows ==
  ASSUME NEW S, NEW rows \in Seq(S), NEW e \in S, OnePerName(rows),
         Vars!Has(rows, e.key, e.preview)
  PROVE  /\ Vars!Updated(rows, e) \in Seq(S)
         /\ OnePerName(Vars!Updated(rows, e))
         /\ Vars!ToSet(Vars!Updated(rows, e)) = {r \in Vars!ToSet(rows) : ~Same(r, e)} \cup {e}
<1> DEFINE new == Vars!Updated(rows, e)
<1>1. /\ DOMAIN new = DOMAIN rows /\ DOMAIN rows = 1 .. Len(rows) /\ Len(rows) \in Nat
      /\ \A i \in DOMAIN rows : rows[i] \in S
      /\ \A i \in DOMAIN rows : new[i] = IF Same(rows[i], e) THEN e ELSE rows[i]
  BY DEF Vars!Updated, Same
<1>2. new = [i \in 1 .. Len(rows) |-> new[i]]
  BY <1>1 DEF Vars!Updated
<1> HIDE DEF new
<1>3. new \in Seq(S)
  BY <1>1, <1>2
<1>4. OnePerName(new)
  <2>1. \A i \in DOMAIN rows : Same(new[i], rows[i])
    BY <1>1 DEF Same
  <2> QED
    BY <1>1, <2>1 DEF OnePerName, Same
<1>5. PICK i \in DOMAIN rows : Same(rows[i], e)
  BY VarsToSet DEF Vars!Has, Same
<1>6. e \in Vars!ToSet(new)
  BY <1>1, <1>5, VarsToSet
<1>7. \A r \in Vars!ToSet(rows) : ~Same(r, e) => r \in Vars!ToSet(new)
  BY <1>1, VarsToSet
<1>8. ASSUME NEW r \in Vars!ToSet(new)
      PROVE  r = e \/ (r \in Vars!ToSet(rows) /\ ~Same(r, e))
  <2>1. PICK j \in DOMAIN rows : r = new[j]
    BY <1>1, VarsToSet
  <2>2. rows[j] \in Vars!ToSet(rows)
    BY VarsToSet
  <2> QED
    BY <1>1, <2>1, <2>2
<1>9. Vars!ToSet(new) = {r \in Vars!ToSet(rows) : ~Same(r, e)} \cup {e}
  BY <1>6, <1>7, <1>8
<1> QED
  BY <1>3, <1>4, <1>9 DEF new

(***************************************************************************)
(* The target after n entries: the entries, the rows it has of itself, and *)
(* twins only of entries whose key no preview entry carries, for these are *)
(* sent first.                                                             *)
(***************************************************************************)
PreviewsFirst(entries) ==
  \A i, j \in DOMAIN entries : i < j /\ entries[j].preview => entries[i].preview

NoPreviewOf(e, entries) == \A j \in DOMAIN entries : ~(entries[j].preview /\ entries[j].key = e.key)

ComesFrom(r, entries, n, kind, release) ==
  \/ \E i \in 1 .. n : r = entries[i]
  \/ r \in Vars!ToSet(Vars!OwnRows(kind))
  \/ \E i \in 1 .. n : IsTwin(r, entries[i], kind, release) /\ NoPreviewOf(entries[i], entries)

HoldsEntries(target, entries, n, kind, release) ==
  /\ OnePerName(target.rows)
  /\ \A i \in 1 .. n : entries[i] \in Vars!ToSet(target.rows)
  /\ \A r \in Vars!ToSet(target.rows) : ComesFrom(r, entries, n, kind, release)
  /\ target.loaded \in {{}, {Vars!OwnRows(kind)}}
  /\ target.loaded = {} => \A i \in 1 .. n : ~entries[i].preview

\* One upsert more.
LEMMA UpsertHolds ==
  ASSUME NEW keys, NEW values, NEW kind, NEW release,
         NEW entries \in Seq(RowsOver(keys, values)), OnePerName(entries), PreviewsFirst(entries),
         NEW n \in Nat, n + 1 \in DOMAIN entries,
         NEW target, target.rows \in Seq(RowsOver(keys, values)),
         HoldsEntries(target, entries, n, kind, release),
         target.loaded = {} /\ n = 0 => target.rows = Vars!OwnRows(kind)
  PROVE  LET next == Vars!Upserted(kind, release, target, entries[n + 1])
         IN  /\ next.rows \in Seq(RowsOver(keys, values))
             /\ HoldsEntries(next, entries, n + 1, kind, release)
<1> DEFINE e == entries[n + 1]
           next == Vars!Upserted(kind, release, target, e)
           loaded == IF e.preview /\ target.loaded = {} THEN {target.rows} ELSE target.loaded
           known == IF e.preview /\ release = "4.3" THEN CHOOSE l \in loaded : TRUE ELSE target.rows
           S == RowsOver(keys, values)
           twin == IF e.preview THEN << >> ELSE Vars!Twin(kind, release, target.rows, e)
<1>1. /\ Len(entries) \in Nat /\ DOMAIN entries = 1 .. Len(entries) /\ e \in S
      /\ \A i \in 1 .. n : i \in DOMAIN entries /\ i # n + 1 /\ i < n + 1
      /\ 1 .. n + 1 = (1 .. n) \cup {n + 1}
  OBVIOUS
<1>2. /\ next.loaded = loaded
      /\ next.rows = IF Vars!Has(known, e.key, e.preview) THEN Vars!Updated(target.rows, e)
                     ELSE target.rows \o << e >> \o twin
  BY DEF Vars!Upserted
<1>3. e.preview \in BOOLEAN
  BY <1>1 DEF RowsOver
<1> HIDE DEF e
\* A preview entry finds only preview entries before it.
<1>4. e.preview => \A i \in 1 .. n : entries[i].preview
  BY <1>1 DEF PreviewsFirst, e
<1>5. \A i \in 1 .. n : ~Same(entries[i], e)
  BY <1>1 DEF OnePerName, e
<1>6. /\ loaded \in {{}, {Vars!OwnRows(kind)}}
      /\ e.preview => loaded = {Vars!OwnRows(kind)}
      /\ loaded = {} => \A i \in 1 .. n + 1 : ~entries[i].preview
  <2>1. e.preview /\ target.loaded = {} => n = 0
    <3> SUFFICES ASSUME e.preview, target.loaded = {}, n # 0
                 PROVE  FALSE
      OBVIOUS
    <3>1. 1 \in 1 .. n
      OBVIOUS
    <3> QED
      BY <1>4, <3>1 DEF HoldsEntries
  <2>2. loaded \in {{}, {Vars!OwnRows(kind)}} /\ (e.preview => loaded = {Vars!OwnRows(kind)})
    BY <1>3, <2>1 DEF HoldsEntries
  <2>3. loaded = {} => ~e.preview /\ target.loaded = {}
    BY <1>3
  <2> HIDE DEF loaded
  <2> QED
    BY <1>1, <2>2, <2>3 DEF HoldsEntries, e
\* So it is new to the target, and to what was loaded of it.
<1>7. e.preview => ~Vars!Has(known, e.key, e.preview) /\ ~Vars!Has(target.rows, e.key, e.preview)
  <2> SUFFICES ASSUME e.preview
               PROVE  /\ ~Vars!Has(known, e.key, e.preview)
                      /\ ~Vars!Has(target.rows, e.key, e.preview)
    OBVIOUS
  <2>0. e.preview = TRUE
    BY <1>3
  <2>1. ~Vars!Has(Vars!OwnRows(kind), e.key, e.preview)
    BY <2>0, OwnRowsOf DEF Vars!Has
  <2>2. ASSUME NEW r \in Vars!ToSet(target.rows), Same(r, e)
        PROVE  FALSE
    <3>1. ComesFrom(r, entries, n, kind, release)
      BY DEF HoldsEntries
    <3>2. ~ \E i \in 1 .. n : r = entries[i]
      BY <1>5, <2>2
    <3>3. r \notin Vars!ToSet(Vars!OwnRows(kind))
      BY <2>0, <2>2, OwnRowsOf DEF Same
    <3>4. ~ \E i \in 1 .. n : IsTwin(r, entries[i], kind, release)
      BY <1>4 DEF IsTwin
    <3> QED
      BY <3>1, <3>2, <3>3, <3>4 DEF ComesFrom
  <2>3. ~Vars!Has(target.rows, e.key, e.preview)
    BY <2>2 DEF Vars!Has, Same
  <2>4. known \in {Vars!OwnRows(kind), target.rows}
    <3>1. (CHOOSE l \in loaded : TRUE) \in loaded
      BY <1>6
    <3> QED
      BY <1>6, <3>1
  <2> HIDE DEF known
  <2> QED
    BY <2>1, <2>3, <2>4
<1>8. ~e.preview => known = target.rows
  OBVIOUS
<1> HIDE DEF known, loaded
<1> DEFINE Kept == next.rows \in Seq(S) /\ HoldsEntries(next, entries, n + 1, kind, release)
<1>9. ASSUME Vars!Has(known, e.key, e.preview)
      PROVE  Kept
  <2>0. ~e.preview /\ Vars!Has(target.rows, e.key, e.preview)
    BY <1>7, <1>8, <1>9
  <2>1. next.rows = Vars!Updated(target.rows, e)
    BY <1>2, <1>9
  <2>2. /\ Vars!Updated(target.rows, e) \in Seq(S)
        /\ OnePerName(Vars!Updated(target.rows, e))
        /\ Vars!ToSet(Vars!Updated(target.rows, e))
             = {r \in Vars!ToSet(target.rows) : ~Same(r, e)} \cup {e}
    BY <1>1, <2>0, UpdatedRows DEF HoldsEntries
  <2>3. \A i \in 1 .. n + 1 : entries[i] \in Vars!ToSet(next.rows)
    BY <1>1, <1>5, <2>1, <2>2 DEF HoldsEntries, e
  <2>4. \A r \in Vars!ToSet(next.rows) : r = e \/ ComesFrom(r, entries, n, kind, release)
    BY <2>1, <2>2 DEF HoldsEntries
  <2>5. \A r \in Vars!ToSet(next.rows) : ComesFrom(r, entries, n + 1, kind, release)
    BY <1>1, <2>4 DEF ComesFrom, e
  <2> HIDE DEF next
  <2> QED
    <3>1. next.rows \in Seq(S) /\ OnePerName(next.rows)
      BY <2>1, <2>2
    <3>2. /\ next.loaded \in {{}, {Vars!OwnRows(kind)}}
          /\ next.loaded = {} => \A i \in 1 .. n + 1 : ~entries[i].preview
      BY <1>2, <1>6
    <3>3. HoldsEntries(next, entries, n + 1, kind, release)
      BY <2>3, <2>5, <3>1, <3>2 DEF HoldsEntries
    <3> QED
      BY <3>1, <3>3 DEF Kept
<1>10. ASSUME ~Vars!Has(known, e.key, e.preview)
       PROVE  Kept
  <2>0. ~Vars!Has(target.rows, e.key, e.preview)
    BY <1>7, <1>8, <1>10
  <2>1. next.rows = target.rows \o << e >> \o twin
    BY <1>2, <1>10
  <2>2. \A r \in Vars!ToSet(target.rows) : ~Same(r, e)
    BY <2>0 DEF Vars!Has, Same
  <2>3. /\ << e >> \in Seq(S) /\ OnePerName(<< e >>) /\ Vars!ToSet(<< e >>) = {e}
    BY <1>1, ShortRows
  <2>4a. \A r \in Vars!ToSet(target.rows), q \in Vars!ToSet(<< e >>) : ~Same(r, q)
    BY <2>2, <2>3
  <2>4b. OnePerName(target.rows)
    BY DEF HoldsEntries
  <2>4. /\ target.rows \o << e >> \in Seq(S) /\ OnePerName(target.rows \o << e >>)
        /\ Vars!ToSet(target.rows \o << e >>) = Vars!ToSet(target.rows) \cup {e}
    <3> DEFINE rows == target.rows
               one == << e >>
    <3>1. /\ rows \in Seq(S) /\ one \in Seq(S) /\ OnePerName(rows) /\ OnePerName(one)
          /\ Vars!ToSet(one) = {e}
          /\ \A r \in Vars!ToSet(rows), q \in Vars!ToSet(one) : ~Same(r, q)
      BY <2>3, <2>4a, <2>4b
    <3> HIDE DEF S, rows, one
    <3>2. /\ rows \o one \in Seq(S) /\ OnePerName(rows \o one)
          /\ Vars!ToSet(rows \o one) = Vars!ToSet(rows) \cup Vars!ToSet(one)
      BY <3>1, JoinedRows
    <3> QED
      BY <3>1, <3>2 DEF rows, one
  <2>5. /\ twin \in Seq(S) /\ OnePerName(twin)
        /\ \A t \in Vars!ToSet(twin) :
             /\ ~e.preview /\ IsTwin(t, e, kind, release) /\ ~Vars!Has(target.rows, e.key, TRUE)
    <3>1. CASE e.preview
      <4>1. << >> \in Seq(S)
        OBVIOUS
      <4>2. twin = << >>
        BY <3>1
      <4> QED
        BY <4>1, <4>2, ShortRows
    <3>2. CASE ~e.preview
      <4>1. twin = Vars!Twin(kind, release, target.rows, e)
        BY <3>2
      <4> HIDE DEF twin
      <4> QED
        BY <1>1, <3>2, <4>1, TwinRow
    <3> QED
      BY <3>1, <3>2
  <2> HIDE DEF twin
  <2>6. \A r \in Vars!ToSet(target.rows) \cup {e}, t \in Vars!ToSet(twin) : ~Same(r, t)
    <3> SUFFICES ASSUME NEW r \in Vars!ToSet(target.rows) \cup {e}, NEW t \in Vars!ToSet(twin),
                        Same(r, t)
                 PROVE  FALSE
      OBVIOUS
    <3>1. r.key = e.key /\ r.preview = t.preview /\ t.preview
      BY <2>5 DEF Same, IsTwin
    <3>2. r # e
      BY <2>5, <3>1
    <3>3. r \in S
      <4>1. r \in Vars!ToSet(target.rows)
        BY <3>2
      <4> QED
        BY <4>1, VarsToSet
    <3>4. r.preview = TRUE
      BY <3>1, <3>3 DEF RowsOver
    <3> QED
      BY <2>5, <3>1, <3>2, <3>4 DEF Vars!Has
  <2>7. /\ next.rows \in Seq(S) /\ OnePerName(next.rows)
        /\ Vars!ToSet(next.rows) = (Vars!ToSet(target.rows) \cup {e}) \cup Vars!ToSet(twin)
    <3>1. \A r \in Vars!ToSet(target.rows \o << e >>), t \in Vars!ToSet(twin) : ~Same(r, t)
      BY <2>4, <2>6
    <3> DEFINE more == target.rows \o << e >>
    <3>2. /\ more \in Seq(S) /\ OnePerName(more) /\ twin \in Seq(S) /\ OnePerName(twin)
          /\ Vars!ToSet(more) = Vars!ToSet(target.rows) \cup {e}
          /\ \A r \in Vars!ToSet(more), t \in Vars!ToSet(twin) : ~Same(r, t)
      BY <2>4, <2>5, <3>1
    <3>3. next.rows = more \o twin
      BY <2>1
    <3> HIDE DEF S, next, more
    <3>4. /\ more \o twin \in Seq(S) /\ OnePerName(more \o twin)
          /\ Vars!ToSet(more \o twin) = Vars!ToSet(more) \cup Vars!ToSet(twin)
      BY <3>2, JoinedRows
    <3> QED
      BY <3>2, <3>3, <3>4
  <2> HIDE DEF next
  <2>8. \A i \in 1 .. n + 1 : entries[i] \in Vars!ToSet(next.rows)
    BY <1>1, <2>7 DEF HoldsEntries, e
  <2>9. ASSUME NEW t \in Vars!ToSet(twin)
        PROVE  NoPreviewOf(e, entries)
    <3> SUFFICES ASSUME NEW j \in DOMAIN entries, entries[j].preview, entries[j].key = e.key
                 PROVE  FALSE
      BY DEF NoPreviewOf
    <3>1. ~e.preview
      BY <2>5
    <3>2. j \in 1 .. n
      <4>1. ~(n + 1 < j)
        BY <1>1, <3>1 DEF PreviewsFirst, e
      <4>2. j # n + 1
        BY <3>1 DEF e
      <4> QED
        BY <1>1, <4>1, <4>2
    <3>3. entries[j] \in Vars!ToSet(target.rows) /\ entries[j] \in S
      BY <3>2 DEF HoldsEntries
    <3>4. entries[j].preview = TRUE
      BY <3>3 DEF RowsOver
    <3> QED
      BY <2>5, <3>3, <3>4 DEF Vars!Has
  <2>10. \A r \in Vars!ToSet(next.rows) : ComesFrom(r, entries, n + 1, kind, release)
    <3>1. \A r \in Vars!ToSet(target.rows) : ComesFrom(r, entries, n, kind, release)
      BY DEF HoldsEntries
    <3>2. \A r \in Vars!ToSet(target.rows) : ComesFrom(r, entries, n + 1, kind, release)
      BY <1>1, <3>1 DEF ComesFrom
    <3>3. ComesFrom(e, entries, n + 1, kind, release)
      BY <1>1 DEF ComesFrom, e
    <3>4. \A t \in Vars!ToSet(twin) : ComesFrom(t, entries, n + 1, kind, release)
      BY <1>1, <2>5, <2>9 DEF ComesFrom, e
    <3> QED
      BY <2>7, <3>2, <3>3, <3>4
  <2> QED
    <3>1. /\ next.loaded \in {{}, {Vars!OwnRows(kind)}}
          /\ next.loaded = {} => \A i \in 1 .. n + 1 : ~entries[i].preview
      BY <1>2, <1>6
    <3>2. HoldsEntries(next, entries, n + 1, kind, release)
      BY <2>7, <2>8, <2>10, <3>1 DEF HoldsEntries
    <3> QED
      BY <2>7, <3>2 DEF Kept
<1> QED
  <2>1. Kept
    <3> HIDE DEF Kept
    <3> QED
      BY <1>9, <1>10
  <2> QED
    BY <2>1 DEF Kept, e

\* The target, wherever the bulk breaks off.
LEMMA CopyHolds ==
  ASSUME NEW keys, NEW values, NEW kind, NEW release,
         NEW entries \in Seq(RowsOver(keys, values)), OnePerName(entries), PreviewsFirst(entries),
         NEW n \in 0 .. Len(entries)
  PROVE  LET rows == Vars!CopyEnvs(kind, release, entries, n)
         IN  /\ rows \in Seq(RowsOver(keys, values))
             /\ OnePerName(rows)
             /\ \A i \in 1 .. n : entries[i] \in Vars!ToSet(rows)
             /\ \A r \in Vars!ToSet(rows) : ComesFrom(r, entries, n, kind, release)
<1> DEFINE S == RowsOver(keys, values)
           init == [rows |-> Vars!OwnRows(kind), loaded |-> {}]
           IsAfter(f) == f = [m \in 0 .. Len(entries) |->
                                IF m = 0 THEN init
                                ELSE Vars!Upserted(kind, release, f[m - 1], entries[m])]
           after == CHOOSE f : IsAfter(f)
<1>1. Vars!CopyEnvs(kind, release, entries, n) = after[n].rows
  BY DEF Vars!CopyEnvs
<1>2. Len(entries) \in Nat /\ DOMAIN entries = 1 .. Len(entries)
  OBVIOUS
<1>3. \E f : IsAfter(f)
  <2> DEFINE Upto(f, k) == f = [m \in 0 .. k |->
                                  IF m = 0 THEN init
                                  ELSE Vars!Upserted(kind, release, f[m - 1], entries[m])]
             T == {k \in Nat : \E f : Upto(f, k)}
  <2>1. 0 \in T
    <3>1. Upto([m \in 0 .. 0 |-> init], 0)
      OBVIOUS
    <3> QED
      BY <3>1
  <2>2. ASSUME NEW k \in Nat, k \in T
        PROVE  k + 1 \in T
    <3>1. PICK f : Upto(f, k)
      BY <2>2
    <3> DEFINE g == [m \in 0 .. k + 1 |->
                       IF m <= k THEN f[m] ELSE Vars!Upserted(kind, release, f[k], entries[k + 1])]
    <3> HIDE DEF init
    <3>2. ASSUME NEW m \in 0 .. k + 1
          PROVE  g[m] = IF m = 0 THEN init ELSE Vars!Upserted(kind, release, g[m - 1], entries[m])
      <4>1. CASE m = 0
        BY <3>1, <4>1
      <4>2. CASE m # 0 /\ m <= k
        <5>1. m - 1 \in 0 .. k + 1 /\ m - 1 <= k /\ m \in 0 .. k
          BY <4>2
        <5>2. g[m] = f[m] /\ g[m - 1] = f[m - 1]
          BY <4>2, <5>1
        <5> QED
          BY <3>1, <4>2, <5>1, <5>2
      <4>3. CASE m = k + 1
        <5>1. k \in 0 .. k + 1 /\ g[k] = f[k] /\ m # 0 /\ ~(m <= k) /\ m - 1 = k
          BY <4>3
        <5> QED
          BY <4>3, <5>1
      <4> QED
        BY <4>1, <4>2, <4>3
    <3>3. g = [m \in 0 .. k + 1 |-> g[m]]
      OBVIOUS
    <3> HIDE DEF g
    <3>4. Upto(g, k + 1)
      BY <3>2, <3>3
    <3> QED
      BY <3>4
  <2> HIDE DEF T
  <2>3. Len(entries) \in T
    BY <1>2, <2>1, <2>2, NatSetInduction
  <2> QED
    BY <2>3 DEF T
<1>4. IsAfter(after)
  <2> HIDE DEF IsAfter
  <2> QED
    BY <1>3
<1> HIDE DEF after
<1> DEFINE Held(m) == /\ after[m].rows \in Seq(S)
                      /\ HoldsEntries(after[m], entries, m, kind, release)
                      /\ m = 0 => after[m].rows = Vars!OwnRows(kind)
           M == {m \in Nat : m <= Len(entries) => Held(m)}
<1>5. 0 \in M
  <2>1. after[0] = init
    BY <1>2, <1>4
  <2>2. after[0].rows = Vars!OwnRows(kind) /\ after[0].loaded = {}
    BY <2>1
  <2>3. Vars!OwnRows(kind) \in Seq(S) /\ OnePerName(Vars!OwnRows(kind))
    BY OwnRowsOf
  <2>4. HoldsEntries(after[0], entries, 0, kind, release)
    BY <2>2, <2>3 DEF HoldsEntries, ComesFrom
  <2> QED
    BY <2>2, <2>3, <2>4
<1>6. ASSUME NEW m \in Nat, m \in M
      PROVE  m + 1 \in M
  <2> SUFFICES ASSUME m + 1 <= Len(entries)
               PROVE  Held(m + 1)
    <3> HIDE DEF Held
    <3> QED
      OBVIOUS
  <2>1. m + 1 \in DOMAIN entries /\ m <= Len(entries)
    BY <1>2
  <2>2. Held(m)
    <3> HIDE DEF Held
    <3> QED
      BY <1>6, <2>1
  <2>3. after[m + 1] = Vars!Upserted(kind, release, after[m], entries[m + 1])
    <3>1. m + 1 \in 0 .. Len(entries) /\ m + 1 # 0 /\ (m + 1) - 1 = m
      BY <1>2
    <3> QED
      BY <1>4, <3>1
  <2> DEFINE target == after[m]
  <2>4. /\ target.rows \in Seq(S) /\ HoldsEntries(target, entries, m, kind, release)
        /\ m = 0 => target.rows = Vars!OwnRows(kind)
    BY <2>2
  <2> HIDE DEF target
  <2>5. /\ Vars!Upserted(kind, release, target, entries[m + 1]).rows \in Seq(S)
        /\ HoldsEntries(Vars!Upserted(kind, release, target, entries[m + 1]), entries, m + 1,
                        kind, release)
    BY <2>1, <2>4, UpsertHolds
  <2>6. m + 1 # 0
    OBVIOUS
  <2> QED
    BY <2>3, <2>5, <2>6 DEF target
<1>7. Held(n)
  <2> HIDE DEF M, Held
  <2>1. n \in M
    BY <1>5, <1>6, NatSetInduction
  <2>2. n <= Len(entries)
    OBVIOUS
  <2> QED
    BY <2>1, <2>2 DEF M
<1> QED
  BY <1>1, <1>7 DEF HoldsEntries

-----------------------------------------------------------------------------
(***************************************************************************)
(* The entries: each row of the source that can be sent, and the preview   *)
(* rows that the tool makes beside production rows without one.            *)
(***************************************************************************)
PreviewsOf(rows, key) == {r \in Vars!ToSet(rows) : r.preview /\ r.key = key}

EntriesOf(kind, rows, recovered) == {r \in Vars!ToSet(rows) : Vars!IsEntry(kind, r, recovered)}

\* The production entries that no preview entry goes with.
Bare(kind, rows, recovered) ==
  {p \in EntriesOf(kind, rows, recovered) :
     /\ Vars!IsApplication(kind) /\ ~p.preview
     /\ \A e \in EntriesOf(kind, rows, recovered) : ~(e.preview /\ e.key = p.key)}

FillOf(kind, rows, release, known, p) ==
  Vars!PreviewFor(p, PreviewsOf(rows, p.key), Vars!OwnPreviewSecret(kind, p.key, release, known))

HidesPreview(rows, key) == \E r \in PreviewsOf(rows, key) : r.locked

\* Nothing runs on the locked value of p but production, and what Coolify would
\* make of it by itself is not locked.
SharesSecret(kind, rows, release, known, p) ==
  /\ p.locked /\ PreviewsOf(rows, p.key) = {}
  /\ ~Vars!OwnPreviewSecret(kind, p.key, release, known)

IsFill(a, kind, rows, release, known, p) ==
  /\ a.key = p.key /\ a.preview /\ a.locked
  /\ \/ HidesPreview(rows, p.key) /\ a.value = Vars!Withheld
     \/ SharesSecret(kind, rows, release, known, p) /\ a.value = p.value

LEMMA FillIs ==
  ASSUME NEW keys, NEW values, NEW kind, NEW rows, NEW release, NEW known,
         NEW p \in RowsOver(keys, values)
  PROVE  LET fill == FillOf(kind, rows, release, known, p)
         IN  /\ fill = << >> \/ \E a \in RowsOver(keys, values) : fill = << a >>
             /\ \A a \in Vars!ToSet(fill) : IsFill(a, kind, rows, release, known, p)
             /\ HidesPreview(rows, p.key) \/ SharesSecret(kind, rows, release, known, p) =>
                  \E a \in Vars!ToSet(fill) : a.preview /\ a.key = p.key
<1> DEFINE fill == FillOf(kind, rows, release, known, p)
           hidden == [p EXCEPT !.preview = TRUE, !.locked = TRUE, !.value = Vars!Withheld]
           shared == [p EXCEPT !.preview = TRUE]
<1>1. fill = IF HidesPreview(rows, p.key) THEN << hidden >>
             ELSE IF SharesSecret(kind, rows, release, known, p) THEN << shared >> ELSE << >>
  BY DEF FillOf, Vars!PreviewFor, HidesPreview, SharesSecret
<1>2. p = [key |-> p.key, preview |-> p.preview, locked |-> p.locked, value |-> p.value]
  BY DEF RowsOver
<1>3. /\ hidden \in RowsOver(keys, values) /\ hidden.key = p.key /\ hidden.preview = TRUE
      /\ hidden.locked = TRUE /\ hidden.value = Vars!Withheld
  BY <1>2 DEF RowsOver
<1>4. /\ shared \in RowsOver(keys, values) /\ shared.key = p.key /\ shared.preview = TRUE
      /\ shared.locked = p.locked /\ shared.value = p.value
  BY <1>2 DEF RowsOver
<1> HIDE DEF hidden, shared, fill
<1>5. CASE HidesPreview(rows, p.key)
  <2>1. fill = << hidden >> /\ Vars!ToSet(fill) = {hidden}
    BY <1>1, <1>5, ShortRows
  <2>2. IsFill(hidden, kind, rows, release, known, p)
    BY <1>3, <1>5 DEF IsFill
  <2> QED
    BY <1>3, <2>1, <2>2 DEF fill
<1>6. CASE ~HidesPreview(rows, p.key) /\ SharesSecret(kind, rows, release, known, p)
  <2>1. fill = << shared >> /\ Vars!ToSet(fill) = {shared}
    BY <1>1, <1>6, ShortRows
  <2>2. IsFill(shared, kind, rows, release, known, p)
    <3>1. p.locked
      BY <1>6 DEF SharesSecret
    <3> QED
      BY <1>4, <1>6, <3>1 DEF IsFill
  <2> QED
    BY <1>4, <2>1, <2>2 DEF fill
<1>7. CASE ~HidesPreview(rows, p.key) /\ ~SharesSecret(kind, rows, release, known, p)
  <2>1. fill = << >> /\ Vars!ToSet(fill) = {}
    BY <1>1, <1>7, ShortRows
  <2> QED
    BY <1>7, <2>1 DEF fill
<1> QED
  BY <1>5, <1>6, <1>7

\* Previews, and then the others.
LEMMA JoinedPreviews ==
  ASSUME NEW S, NEW s \in Seq(S), NEW t \in Seq(S),
         \A r \in Vars!ToSet(s) : r.preview, \A r \in Vars!ToSet(t) : ~r.preview
  PROVE  PreviewsFirst(s \o t)
<1> DEFINE u == s \o t
<1>1. /\ Len(s) \in Nat /\ Len(t) \in Nat
      /\ DOMAIN u = 1 .. Len(s) + Len(t) /\ DOMAIN s = 1 .. Len(s) /\ DOMAIN t = 1 .. Len(t)
      /\ \A i \in 1 .. Len(s) + Len(t) : u[i] = IF i <= Len(s) THEN s[i] ELSE t[i - Len(s)]
  BY ConcatProperties
<1> HIDE DEF u
<1>2. ASSUME NEW i \in DOMAIN u
      PROVE  u[i].preview <=> i <= Len(s)
  <2>1. CASE i <= Len(s)
    <3>1. i \in DOMAIN s /\ u[i] = s[i]
      BY <1>1, <2>1
    <3> QED
      BY <2>1, <3>1, VarsToSet
  <2>2. CASE ~(i <= Len(s))
    <3>1. i - Len(s) \in DOMAIN t /\ u[i] = t[i - Len(s)]
      BY <1>1, <2>2
    <3> QED
      BY <2>2, <3>1, VarsToSet
  <2> QED
    BY <2>1, <2>2
<1>3. ASSUME NEW i \in DOMAIN u, NEW j \in DOMAIN u, i < j, u[j].preview
      PROVE  u[i].preview
  <2>1. i \in Nat /\ j \in Nat
    BY <1>1
  <2>2. j <= Len(s)
    BY <1>2, <1>3
  <2>3. i <= Len(s)
    BY <1>1, <1>3, <2>1, <2>2
  <2> QED
    BY <1>2, <2>3
<1>4. PreviewsFirst(u)
  BY <1>3 DEF PreviewsFirst
<1> QED
  BY <1>4 DEF u

IsBuilt(entries, kind, rows, recovered, release, known) ==
  /\ OnePerName(entries) /\ PreviewsFirst(entries)
  /\ Vars!ToSet(entries)
       = EntriesOf(kind, rows, recovered)
         \cup UNION {Vars!ToSet(FillOf(kind, rows, release, known, p)) : p \in Bare(kind, rows, recovered)}

NoPreviews(rows) == \A r \in Vars!ToSet(rows) : ~r.preview

LEMMA EntriesBuilt ==
  ASSUME NEW keys, NEW values, NEW kind, NEW release, NEW known, NEW recovered,
         NEW rows \in Seq(RowsOver(keys, values)), OnePerName(rows),
         Vars!IsApplication(kind) \/ NoPreviews(rows)
  PROVE  LET entries == Vars!BuildEnvEntries(kind, rows, recovered, release, known)
         IN  /\ entries \in Seq(RowsOver(keys, values))
             /\ IsBuilt(entries, kind, rows, recovered, release, known)
<1> DEFINE S == RowsOver(keys, values)
           wanted == {row \in Vars!ToSet(rows) : Vars!IsEntry(kind, row, recovered)}
           entries == Vars!Those(rows, wanted)
           previews == Vars!Those(entries, {e \in Vars!ToSet(entries) : e.preview})
           production == Vars!Those(entries, {e \in Vars!ToSet(entries) : ~e.preview})
           sent == {p.key : p \in Vars!ToSet(previews)}
           Filled(e) == IF e.key \in sent THEN << >> ELSE FillOf(kind, rows, release, known, e)
           fills == [i \in DOMAIN production |-> Filled(production[i])]
           built == Vars!BuildEnvEntries(kind, rows, recovered, release, known)
           fill == Vars!FlattenSeq(fills)
<1>1. built = IF ~Vars!IsApplication(kind) THEN entries ELSE previews \o fill \o production
  BY DEF Vars!BuildEnvEntries, FillOf, PreviewsOf
<1>2. /\ entries \in Seq(S) /\ OnePerName(entries)
      /\ Vars!ToSet(entries) = EntriesOf(kind, rows, recovered)
  <2>1. wanted = EntriesOf(kind, rows, recovered) /\ wanted \subseteq Vars!ToSet(rows)
    BY DEF EntriesOf
  <2> HIDE DEF wanted
  <2>2. /\ entries \in Seq(S) /\ OnePerName(entries)
        /\ Vars!ToSet(entries) = Vars!ToSet(rows) \cap wanted
    BY ThoseRows
  <2> QED
    BY <2>1, <2>2
<1> HIDE DEF built, entries
<1>3. /\ previews \in Seq(S) /\ OnePerName(previews)
      /\ Vars!ToSet(previews) = {e \in EntriesOf(kind, rows, recovered) : e.preview}
  <2> DEFINE some == {e \in Vars!ToSet(entries) : e.preview}
  <2>1. some = {e \in EntriesOf(kind, rows, recovered) : e.preview} /\ some \subseteq Vars!ToSet(entries)
    BY <1>2
  <2> HIDE DEF some
  <2>2. /\ Vars!Those(entries, some) \in Seq(S) /\ OnePerName(Vars!Those(entries, some))
        /\ Vars!ToSet(Vars!Those(entries, some)) = Vars!ToSet(entries) \cap some
    BY <1>2, ThoseRows
  <2> QED
    BY <2>1, <2>2 DEF some
<1>4. /\ production \in Seq(S) /\ OnePerName(production)
      /\ Vars!ToSet(production) = {e \in EntriesOf(kind, rows, recovered) : ~e.preview}
  <2> DEFINE some == {e \in Vars!ToSet(entries) : ~e.preview}
  <2>1. some = {e \in EntriesOf(kind, rows, recovered) : ~e.preview} /\ some \subseteq Vars!ToSet(entries)
    BY <1>2
  <2> HIDE DEF some
  <2>2. /\ Vars!Those(entries, some) \in Seq(S) /\ OnePerName(Vars!Those(entries, some))
        /\ Vars!ToSet(Vars!Those(entries, some)) = Vars!ToSet(entries) \cap some
    BY <1>2, ThoseRows
  <2> QED
    BY <2>1, <2>2 DEF some
<1> HIDE DEF previews, production
<1> DEFINE n == Len(production)
<1>5. /\ n \in Nat /\ DOMAIN production = 1 .. n
      /\ \A i \in 1 .. n : /\ production[i] \in S /\ ~production[i].preview
                           /\ production[i] \in EntriesOf(kind, rows, recovered)
  <2>1. n \in Nat /\ DOMAIN production = 1 .. n /\ \A i \in 1 .. n : production[i] \in S
    BY <1>4
  <2>2. \A i \in 1 .. n : production[i] \in Vars!ToSet(production)
    BY <2>1, VarsToSet
  <2> QED
    BY <1>4, <2>1, <2>2
<1>6. \A k : k \in sent <=> \E e \in EntriesOf(kind, rows, recovered) : e.preview /\ e.key = k
  BY <1>3
<1> HIDE DEF sent
<1>7. ASSUME NEW p \in S
      PROVE  /\ Filled(p) = << >> \/ \E a \in S : Filled(p) = << a >>
             /\ \A a \in Vars!ToSet(Filled(p)) :
                  a.key = p.key /\ a.preview /\ p.key \notin sent
  <2>1. CASE p.key \in sent
    <3>1. Filled(p) = << >>
      BY <2>1
    <3> HIDE DEF Filled
    <3> QED
      BY <3>1, ShortRows
  <2>2. CASE p.key \notin sent
    <3>1. Filled(p) = FillOf(kind, rows, release, known, p)
      BY <2>2
    <3> HIDE DEF Filled
    <3> QED
      BY <2>2, <3>1, FillIs DEF IsFill
  <2> QED
    BY <2>1, <2>2
<1>8. ASSUME NEW p \in EntriesOf(kind, rows, recovered), ~p.preview, Vars!IsApplication(kind)
      PROVE  Vars!ToSet(Filled(p)) = IF p \in Bare(kind, rows, recovered)
                                     THEN Vars!ToSet(FillOf(kind, rows, release, known, p)) ELSE {}
  <2>1. p \in Bare(kind, rows, recovered) <=> p.key \notin sent
    BY <1>6, <1>8 DEF Bare
  <2> QED
    BY <2>1, ShortRows
<1> HIDE DEF Filled
<1>9. \A i \in 1 .. n : fills[i] = Filled(production[i])
  BY <1>5
<1>10. /\ fill \in Seq(S) /\ OnePerName(fill)
       /\ Vars!ToSet(fill) = UNION {Vars!ToSet(fills[i]) : i \in 1 .. n}
  <2>1. \A i \in 1 .. n : fills[i] = << >> \/ \E a \in S : fills[i] = << a >>
    BY <1>5, <1>7, <1>9
  <2>2. fills \in [1 .. n -> Seq(S)]
    <3>1. ASSUME NEW i \in 1 .. n
          PROVE  fills[i] \in Seq(S)
      <4>1. << >> \in Seq(S) /\ \A a \in S : << a >> \in Seq(S)
        OBVIOUS
      <4> HIDE DEF fills, S, n
      <4> QED
        BY <2>1, <4>1
    <3>2. DOMAIN fills = 1 .. n /\ fills = [i \in DOMAIN production |-> fills[i]]
      BY <1>5
    <3> HIDE DEF fills
    <3> QED
      BY <1>5, <3>1, <3>2
  <2>3. ApartPieces(fills, n)
    <3> SUFFICES ASSUME NEW i \in 1 .. n, NEW j \in 1 .. n, i # j,
                        NEW r \in Vars!ToSet(fills[i]), NEW q \in Vars!ToSet(fills[j]), Same(r, q)
                 PROVE  FALSE
      BY DEF ApartPieces
    <3>1. r.key = production[i].key /\ q.key = production[j].key
      BY <1>5, <1>7, <1>9
    <3>2. production[i].preview = FALSE /\ production[j].preview = FALSE
      BY <1>5 DEF RowsOver
    <3>3. Same(production[i], production[j])
      BY <3>1, <3>2 DEF Same
    <3> QED
      BY <1>4, <1>5, <3>3 DEF OnePerName
  <2>4. n \in Nat
    BY <1>5
  <2>5. ShortPieces(fills, n, S)
    BY <2>1 DEF ShortPieces
  <2> HIDE DEF S, fills, n, fill, wanted, Filled
  <2>6. /\ Vars!FlattenSeq(fills) \in Seq(S) /\ OnePerName(Vars!FlattenSeq(fills))
        /\ Vars!ToSet(Vars!FlattenSeq(fills)) = UNION {Vars!ToSet(fills[i]) : i \in 1 .. n}
    BY <2>2, <2>3, <2>4, <2>5, FlattenedRows
  <2> QED
    BY <2>6 DEF fill
<1>11. Vars!IsApplication(kind) =>
         Vars!ToSet(fill) = UNION {Vars!ToSet(FillOf(kind, rows, release, known, p)) :
                                     p \in Bare(kind, rows, recovered)}
  <2> SUFFICES ASSUME Vars!IsApplication(kind)
               PROVE  Vars!ToSet(fill) = UNION {Vars!ToSet(FillOf(kind, rows, release, known, p)) :
                                                  p \in Bare(kind, rows, recovered)}
    OBVIOUS
  <2> HIDE DEF fills, fill, S, n
  <2>1. ASSUME NEW a \in Vars!ToSet(fill)
        PROVE  \E p \in Bare(kind, rows, recovered) : a \in Vars!ToSet(FillOf(kind, rows, release, known, p))
    <3>1. PICK i \in 1 .. n : a \in Vars!ToSet(fills[i])
      BY <1>10
    <3>2. production[i] \in EntriesOf(kind, rows, recovered) /\ ~production[i].preview
      BY <1>5
    <3>3. a \in Vars!ToSet(Filled(production[i]))
      BY <1>9, <3>1
    <3> QED
      BY <1>8, <3>2, <3>3
  <2>2. ASSUME NEW p \in Bare(kind, rows, recovered),
               NEW a \in Vars!ToSet(FillOf(kind, rows, release, known, p))
        PROVE  a \in Vars!ToSet(fill)
    <3>1. p \in EntriesOf(kind, rows, recovered) /\ ~p.preview
      BY DEF Bare
    <3>2. PICK i \in DOMAIN production : production[i] = p
      <4>1. p \in Vars!ToSet(production)
        BY <1>4, <3>1
      <4> QED
        BY <4>1, VarsToSet
    <3>3. i \in 1 .. n /\ fills[i] = Filled(p)
      BY <1>5, <1>9, <3>2
    <3>4. a \in Vars!ToSet(fills[i])
      BY <1>8, <3>1, <3>3
    <3> QED
      BY <1>10, <3>3, <3>4
  <2> QED
    BY <2>1, <2>2
<1>12. CASE ~Vars!IsApplication(kind)
  <2>1. built = entries
    BY <1>1, <1>12
  <2>2. PreviewsFirst(entries)
    <3>1. \A e \in Vars!ToSet(entries) : ~e.preview
      BY <1>2, <1>12 DEF NoPreviews, EntriesOf
    <3> QED
      BY <3>1, VarsToSet DEF PreviewsFirst
  <2>3. Bare(kind, rows, recovered) = {}
    BY <1>12 DEF Bare
  <2>4. UNION {Vars!ToSet(FillOf(kind, rows, release, known, p)) : p \in Bare(kind, rows, recovered)} = {}
    BY <2>3
  <2> QED
    BY <1>2, <2>1, <2>2, <2>4 DEF IsBuilt, built
<1>13. CASE Vars!IsApplication(kind)
  <2>1. built = (previews \o fill) \o production
    BY <1>1, <1>13
  <2>2. \A a \in Vars!ToSet(fill) : a.preview /\ a.key \notin sent
    <3> SUFFICES ASSUME NEW a \in Vars!ToSet(fill)
                 PROVE  a.preview /\ a.key \notin sent
      OBVIOUS
    <3> HIDE DEF fill, fills, S, n
    <3>1. PICK i \in 1 .. n : a \in Vars!ToSet(fills[i])
      BY <1>10
    <3>2. a \in Vars!ToSet(Filled(production[i])) /\ production[i] \in S
      BY <1>5, <1>9, <3>1
    <3> QED
      BY <1>7, <3>2
  <2> HIDE DEF fill, fills, S, n
  <2>3. \A r \in Vars!ToSet(previews), q \in Vars!ToSet(fill) : ~Same(r, q)
    BY <1>3, <1>6, <2>2 DEF Same
  <2> DEFINE first == previews \o fill
  <2>4. /\ first \in Seq(S) /\ OnePerName(first)
        /\ Vars!ToSet(first) = Vars!ToSet(previews) \cup Vars!ToSet(fill)
    BY <1>3, <1>10, <2>3, JoinedRows
  <2> HIDE DEF first
  <2>5. /\ \A r \in Vars!ToSet(first) : r.preview
        /\ \A r \in Vars!ToSet(production) : ~r.preview
    BY <1>3, <1>4, <2>2, <2>4
  <2>6. \A r \in Vars!ToSet(first), q \in Vars!ToSet(production) : ~Same(r, q)
    BY <2>5 DEF Same
  <2>7. /\ first \o production \in Seq(S) /\ OnePerName(first \o production)
        /\ Vars!ToSet(first \o production) = Vars!ToSet(first) \cup Vars!ToSet(production)
    BY <1>4, <2>4, <2>6, JoinedRows
  <2>8. PreviewsFirst(first \o production)
    BY <1>4, <2>4, <2>5, JoinedPreviews
  <2>9. built = first \o production
    BY <2>1 DEF first
  <2>10. Vars!ToSet(previews) \cup Vars!ToSet(production) = EntriesOf(kind, rows, recovered)
    BY <1>3, <1>4
  <2>11. Vars!ToSet(built) = EntriesOf(kind, rows, recovered) \cup Vars!ToSet(fill)
    BY <2>4, <2>7, <2>9, <2>10
  <2>12. IsBuilt(built, kind, rows, recovered, release, known)
    BY <1>11, <1>13, <2>7, <2>8, <2>9, <2>11 DEF IsBuilt
  <2>13. built \in Seq(S)
    BY <2>7, <2>9
  <2> QED
    BY <2>12, <2>13 DEF built, S
<1> QED
  BY <1>12, <1>13

-----------------------------------------------------------------------------
(***************************************************************************)
(* Where a row of the target comes from, wherever the bulk breaks off: it  *)
(* is an entry; one of Coolify's own; or the twin of an entry with which   *)
(* no preview is sent, and whose value no preview has to be kept from.     *)
(***************************************************************************)
Origin(t, kind, rows, recovered, release, known) ==
  \/ t \in EntriesOf(kind, rows, recovered)
  \/ \E p \in Bare(kind, rows, recovered) : IsFill(t, kind, rows, release, known, p)
  \/ /\ ~Vars!IsApplication(kind) /\ ~t.preview /\ t.value = Vars!Generated
     /\ Vars!TargetRegenerates(kind, t.key) \/ Vars!LeftToTarget(kind, t.key)
  \/ \E p \in Bare(kind, rows, recovered) :
       /\ IsTwin(t, p, kind, release)
       /\ ~HidesPreview(rows, p.key) /\ ~SharesSecret(kind, rows, release, known, p)

LEMMA Arrived ==
  ASSUME NEW keys, NEW values, NEW kind, NEW release, NEW known, NEW recovered,
         NEW rows \in Seq(RowsOver(keys, values)), OnePerName(rows),
         Vars!IsApplication(kind) \/ NoPreviews(rows),
         NEW entries, entries = Vars!BuildEnvEntries(kind, rows, recovered, release, known),
         NEW n \in 0 .. Len(entries)
  PROVE  LET target == Vars!CopyEnvs(kind, release, entries, n)
         IN  /\ target \in Seq(RowsOver(keys, values)) /\ OnePerName(target)
             /\ \A t \in Vars!ToSet(target) : Origin(t, kind, rows, recovered, release, known)
             /\ n = Len(entries) => EntriesOf(kind, rows, recovered) \subseteq Vars!ToSet(target)
<1> DEFINE S == RowsOver(keys, values)
           target == Vars!CopyEnvs(kind, release, entries, n)
<1>1. entries \in Seq(S) /\ IsBuilt(entries, kind, rows, recovered, release, known)
  BY EntriesBuilt
<1>2. OnePerName(entries) /\ PreviewsFirst(entries)
  BY <1>1 DEF IsBuilt
<1>3. /\ target \in Seq(S) /\ OnePerName(target)
      /\ \A i \in 1 .. n : entries[i] \in Vars!ToSet(target)
      /\ \A t \in Vars!ToSet(target) : ComesFrom(t, entries, n, kind, release)
  BY <1>1, <1>2, CopyHolds
<1> HIDE DEF target
<1>4. Len(entries) \in Nat /\ DOMAIN entries = 1 .. Len(entries)
  BY <1>1
<1>5. EntriesOf(kind, rows, recovered) \subseteq S
  BY VarsToSet DEF EntriesOf
<1>6. ASSUME NEW e \in Vars!ToSet(entries)
      PROVE  \/ e \in EntriesOf(kind, rows, recovered)
             \/ \E p \in Bare(kind, rows, recovered) : IsFill(e, kind, rows, release, known, p)
  <2> SUFFICES ASSUME e \notin EntriesOf(kind, rows, recovered)
               PROVE  \E p \in Bare(kind, rows, recovered) : IsFill(e, kind, rows, release, known, p)
    OBVIOUS
  <2>1. PICK p \in Bare(kind, rows, recovered) :
          e \in Vars!ToSet(FillOf(kind, rows, release, known, p))
    BY <1>1 DEF IsBuilt
  <2>2. p \in S
    BY <1>5 DEF Bare
  <2> QED
    BY <2>1, <2>2, FillIs
<1>7. ASSUME NEW t, NEW e \in Vars!ToSet(entries), IsTwin(t, e, kind, release),
             NoPreviewOf(e, entries)
      PROVE  /\ e \in Bare(kind, rows, recovered)
             /\ ~HidesPreview(rows, e.key) /\ ~SharesSecret(kind, rows, release, known, e)
  <2>0. \A x \in Vars!ToSet(entries) : ~(x.preview /\ x.key = e.key)
    BY <1>7, VarsToSet DEF NoPreviewOf
  <2>1. e \in EntriesOf(kind, rows, recovered)
    BY <1>6, <1>7 DEF IsTwin, IsFill
  <2>2. EntriesOf(kind, rows, recovered) \subseteq Vars!ToSet(entries)
    BY <1>1 DEF IsBuilt
  <2>3. e \in Bare(kind, rows, recovered)
    BY <1>7, <2>0, <2>1, <2>2 DEF Bare, IsTwin
  <2>4. Vars!ToSet(FillOf(kind, rows, release, known, e)) \subseteq Vars!ToSet(entries)
    BY <1>1, <2>3 DEF IsBuilt
  <2>5. e \in S
    BY <1>5, <2>1
  <2>6. HidesPreview(rows, e.key) \/ SharesSecret(kind, rows, release, known, e) =>
          \E a \in Vars!ToSet(FillOf(kind, rows, release, known, e)) : a.preview /\ a.key = e.key
    BY <2>5, FillIs
  <2> QED
    BY <2>0, <2>3, <2>4, <2>6
<1>8. ASSUME NEW t \in Vars!ToSet(target)
      PROVE  Origin(t, kind, rows, recovered, release, known)
  <2>1. \A i \in 1 .. n : entries[i] \in Vars!ToSet(entries)
    BY <1>4, VarsToSet
  <2>2. ComesFrom(t, entries, n, kind, release)
    BY <1>3
  <2>3. CASE \E i \in 1 .. n : t = entries[i]
    BY <1>6, <2>1, <2>3 DEF Origin
  <2>4. CASE t \in Vars!ToSet(Vars!OwnRows(kind))
    BY <2>4, OwnRowsOf DEF Origin
  <2>5. CASE \E i \in 1 .. n : IsTwin(t, entries[i], kind, release) /\ NoPreviewOf(entries[i], entries)
    <3>1. PICK i \in 1 .. n : IsTwin(t, entries[i], kind, release) /\ NoPreviewOf(entries[i], entries)
      BY <2>5
    <3> QED
      BY <1>7, <2>1, <3>1 DEF Origin
  <2> QED
    BY <2>2, <2>3, <2>4, <2>5 DEF ComesFrom
<1>9. ASSUME n = Len(entries)
      PROVE  EntriesOf(kind, rows, recovered) \subseteq Vars!ToSet(target)
  <2>1. Vars!ToSet(entries) \subseteq Vars!ToSet(target)
    BY <1>3, <1>4, <1>9, VarsToSet
  <2> QED
    BY <1>1, <2>1 DEF IsBuilt
<1> QED
  BY <1>3, <1>8, <1>9 DEF target, S

-----------------------------------------------------------------------------
(***************************************************************************)
(* A question about the variables: any rows of any keys, one per name, of  *)
(* which each has a value of its own or, a URL, the host of the source.    *)
(* Previews are an application's.  What is locked between PLAN and CREATE  *)
(* can be read back, or is a credential Coolify generates.                 *)
(***************************************************************************)
SourceValues(keys) ==
  {OwnValue(key, preview) : key \in keys, preview \in BOOLEAN} \cup {Vars!SourceHost}

SourceValue(row) ==
  \/ row.value = OwnValue(row.key, row.preview)
  \/ row.key = "URL" /\ ~row.preview /\ row.value = Vars!SourceHost

VarsQuestion(q, keys) ==
  /\ q.kind = "vars_asked"
  /\ q.rows \in Seq([key : keys, preview : BOOLEAN, lockedFrom : {"plan", "create", "never"},
                     value : SourceValues(keys)])
  /\ OnePerName(q.rows)
  /\ \A i \in DOMAIN q.rows :
       /\ SourceValue(q.rows[i]) /\ (q.rows[i].preview => Vars!IsApplication(q.of))
       /\ q.rows[i].lockedFrom = "create" /\ ~q.rows[i].preview =>
            q.rows[i].key \in q.atCreate \/ Vars!TargetRegenerates(q.of, q.rows[i].key)

\* Each row has a value that no other has, that Coolify makes of none, and that is shown.
LEMMA ValuesDiffer ==
  /\ \A k, l : \A p, q \in BOOLEAN : OwnValue(k, p) = OwnValue(l, q) => k = l /\ p = q
  /\ \A k : \A p \in BOOLEAN : OwnValue(k, p) \notin {Vars!Withheld, Vars!Generated, Vars!SourceHost}
  /\ Vars!SourceHost \notin {Vars!Withheld, Vars!Generated} /\ Vars!Withheld # Vars!Generated
<1>1. \A k : \A p \in BOOLEAN : Len(OwnValue(k, p)) = 2 /\ OwnValue(k, p)[1] = k
                               /\ OwnValue(k, p)[2] = IF p THEN "preview" ELSE "production"
  BY DEF OwnValue
<1>2. /\ Len(Vars!Withheld) = 0 /\ Len(Vars!Generated) = 1 /\ Len(Vars!SourceHost) = 1
      /\ Vars!Generated[1] = "generated" /\ Vars!SourceHost[1] = "source_host"
  BY DEF Vars!Withheld, Vars!Generated, Vars!SourceHost
<1>3. \A k, l : \A p, q \in BOOLEAN : OwnValue(k, p) = OwnValue(l, q) => k = l /\ p = q
  <2> SUFFICES ASSUME NEW k, NEW l, NEW p \in BOOLEAN, NEW q \in BOOLEAN, OwnValue(k, p) = OwnValue(l, q)
               PROVE  k = l /\ p = q
    OBVIOUS
  <2>1. k = l
    BY <1>1
  <2>2. (IF p THEN "preview" ELSE "production") = (IF q THEN "preview" ELSE "production")
    BY <1>1
  <2> QED
    BY <2>1, <2>2
<1>4. \A k : \A p \in BOOLEAN : OwnValue(k, p) \notin {Vars!Withheld, Vars!Generated, Vars!SourceHost}
  BY <1>1, <1>2
<1>5. Vars!SourceHost \notin {Vars!Withheld, Vars!Generated} /\ Vars!Withheld # Vars!Generated
  BY <1>2
<1> QED
  BY <1>3, <1>4, <1>5

SameRow(r, s) == r.key = s.key /\ r.preview = s.preview /\ r.value = s.value

\* The API's rows at CREATE and at the copy, and what is locked of them at PLAN.
LEMMA RowsAreShown ==
  ASSUME NEW keys, NEW q, VarsQuestion(q, keys)
  PROVE  LET rows == RowsAt(q.rows, "create")
         IN  /\ RowsAt(q.rows, "copying") = rows
             /\ rows \in Seq(RowsOver(keys, SourceValues(keys))) /\ OnePerName(rows)
             /\ Vars!IsApplication(q.of) \/ NoPreviews(rows)
             /\ DOMAIN rows = DOMAIN q.rows
             /\ \A i \in DOMAIN rows :
                  /\ SameRow(rows[i], q.rows[i]) /\ SourceValue(rows[i])
                  /\ rows[i].locked /\ ~rows[i].preview =>
                       \/ rows[i].key \in q.atCreate \/ Vars!TargetRegenerates(q.of, rows[i].key)
                       \/ rows[i].key \in Vars!LockedProduction(RowsAt(q.rows, "plan"))
<1> DEFINE R == [key : keys, preview : BOOLEAN, lockedFrom : {"plan", "create", "never"},
                 value : SourceValues(keys)]
           rows == RowsAt(q.rows, "create")
           plan == RowsAt(q.rows, "plan")
<1>1. q.rows \in Seq(R) /\ OnePerName(q.rows)
  BY DEF VarsQuestion
<1>2. /\ Len(q.rows) \in Nat /\ DOMAIN q.rows = 1 .. Len(q.rows)
      /\ \A i \in DOMAIN q.rows : q.rows[i] \in R
  <2> HIDE DEF R
  <2> QED
    BY <1>1
<1>3. \A i \in DOMAIN q.rows :
        /\ q.rows[i].key \in keys /\ q.rows[i].preview \in BOOLEAN
        /\ q.rows[i].lockedFrom \in {"plan", "create", "never"}
        /\ q.rows[i].value \in SourceValues(keys)
  BY <1>2
<1>4. ASSUME NEW moment \in {"plan", "create", "copying"}
      PROVE  /\ RowsAt(q.rows, moment)
                  = [i \in DOMAIN q.rows |->
                       Vars!NewRow(q.rows[i].key, q.rows[i].preview,
                                   Moment[q.rows[i].lockedFrom] <= Moment[moment], q.rows[i].value)]
             /\ \A i \in DOMAIN q.rows :
                  Moment[q.rows[i].lockedFrom] <= Moment[moment] <=>
                    q.rows[i].lockedFrom \in IF moment = "plan" THEN {"plan"} ELSE {"plan", "create"}
  BY <1>3 DEF RowsAt, Moment
<1>5. ASSUME NEW moment \in {"plan", "create", "copying"}, NEW i \in DOMAIN q.rows
      PROVE  LET row == RowsAt(q.rows, moment)[i]
                 old == IF moment = "plan" THEN {"plan"} ELSE {"plan", "create"}
             IN  /\ SameRow(row, q.rows[i]) /\ row.locked = (q.rows[i].lockedFrom \in old)
                 /\ row = [key |-> row.key, preview |-> row.preview, locked |-> row.locked,
                           value |-> row.value]
                 /\ row.locked \in BOOLEAN
  <2> DEFINE locked == Moment[q.rows[i].lockedFrom] <= Moment[moment]
             row == RowsAt(q.rows, moment)[i]
  <2>1. row = Vars!NewRow(q.rows[i].key, q.rows[i].preview, locked, q.rows[i].value)
    BY <1>4
  <2>2. locked = (q.rows[i].lockedFrom \in IF moment = "plan" THEN {"plan"} ELSE {"plan", "create"})
    BY <1>4
  <2> HIDE DEF locked, row
  <2>3. row = [key |-> q.rows[i].key, preview |-> q.rows[i].preview, locked |-> locked,
               value |-> q.rows[i].value]
    BY <2>1 DEF Vars!NewRow
  <2>4. /\ row.key = q.rows[i].key /\ row.preview = q.rows[i].preview
        /\ row.value = q.rows[i].value /\ row.locked = locked
    BY <2>3
  <2>5. locked \in BOOLEAN
    BY DEF locked
  <2> QED
    BY <2>2, <2>3, <2>4, <2>5 DEF row, SameRow
<1>6. DOMAIN rows = DOMAIN q.rows /\ DOMAIN plan = DOMAIN q.rows
  BY DEF RowsAt
<1>7. RowsAt(q.rows, "copying") = rows
  <2>1. ASSUME NEW i \in DOMAIN q.rows
        PROVE  RowsAt(q.rows, "copying")[i] = rows[i]
    <3> DEFINE r == RowsAt(q.rows, "copying")[i]
               s == RowsAt(q.rows, "create")[i]
    <3>1. /\ r.key = q.rows[i].key /\ r.preview = q.rows[i].preview /\ r.value = q.rows[i].value
          /\ r.locked = (q.rows[i].lockedFrom \in {"plan", "create"})
          /\ r = [key |-> r.key, preview |-> r.preview, locked |-> r.locked, value |-> r.value]
      BY <1>5 DEF SameRow
    <3>2. /\ s.key = q.rows[i].key /\ s.preview = q.rows[i].preview /\ s.value = q.rows[i].value
          /\ s.locked = (q.rows[i].lockedFrom \in {"plan", "create"})
          /\ s = [key |-> s.key, preview |-> s.preview, locked |-> s.locked, value |-> s.value]
      BY <1>5 DEF SameRow
    <3> HIDE DEF r, s
    <3>3. r = s
      BY <3>1, <3>2
    <3> QED
      BY <3>3 DEF r, s
  <2>2. /\ RowsAt(q.rows, "copying") = [i \in DOMAIN q.rows |-> RowsAt(q.rows, "copying")[i]]
        /\ rows = [i \in DOMAIN q.rows |-> rows[i]]
    BY DEF RowsAt
  <2> HIDE DEF rows
  <2> QED
    BY <2>1, <2>2
<1>8. \A i \in DOMAIN q.rows : rows[i] \in RowsOver(keys, SourceValues(keys))
  <2> SUFFICES ASSUME NEW i \in DOMAIN q.rows
               PROVE  rows[i] \in RowsOver(keys, SourceValues(keys))
    OBVIOUS
  <2>1. /\ rows[i].key = q.rows[i].key /\ rows[i].preview = q.rows[i].preview
        /\ rows[i].value = q.rows[i].value /\ rows[i].locked \in BOOLEAN
        /\ rows[i] = [key |-> rows[i].key, preview |-> rows[i].preview,
                      locked |-> rows[i].locked, value |-> rows[i].value]
    BY <1>5 DEF SameRow
  <2> HIDE DEF rows
  <2> QED
    BY <1>3, <2>1 DEF RowsOver
<1>9. rows \in Seq(RowsOver(keys, SourceValues(keys)))
  <2> DEFINE m == Len(q.rows)
  <2>1. rows = [i \in 1 .. m |-> rows[i]]
    BY <1>2 DEF RowsAt
  <2>2. m \in Nat /\ \A i \in 1 .. m : rows[i] \in RowsOver(keys, SourceValues(keys))
    BY <1>2, <1>8
  <2> HIDE DEF rows, m
  <2>3. rows \in [1 .. m -> RowsOver(keys, SourceValues(keys))]
    BY <2>1, <2>2
  <2> QED
    BY <2>2, <2>3
<1>10. \A i \in DOMAIN q.rows : SameRow(rows[i], q.rows[i])
  BY <1>5
<1> HIDE DEF rows
<1>11. OnePerName(rows)
  BY <1>1, <1>6, <1>10 DEF OnePerName, Same, SameRow
<1>12. Vars!IsApplication(q.of) \/ NoPreviews(rows)
  BY <1>6, <1>10, VarsToSet DEF VarsQuestion, NoPreviews, SameRow
<1>13. ASSUME NEW i \in DOMAIN q.rows
       PROVE  SourceValue(rows[i])
  BY <1>10 DEF VarsQuestion, SourceValue, SameRow
<1>14. ASSUME NEW i \in DOMAIN q.rows, rows[i].locked, ~rows[i].preview,
              rows[i].key \notin q.atCreate, ~Vars!TargetRegenerates(q.of, rows[i].key)
       PROVE  rows[i].key \in Vars!LockedProduction(plan)
  <2>1. rows[i].key = q.rows[i].key /\ rows[i].preview = q.rows[i].preview
    BY <1>10 DEF SameRow
  <2>2. q.rows[i].lockedFrom \in {"plan", "create"}
    BY <1>5, <1>14 DEF rows
  <2>3. q.rows[i].lockedFrom = "plan"
    BY <1>14, <2>1, <2>2 DEF VarsQuestion
  <2>4. /\ plan[i].locked /\ plan[i].key = q.rows[i].key /\ plan[i].preview = q.rows[i].preview
    BY <1>5, <2>3 DEF SameRow
  <2>5. plan[i] \in Vars!ToSet(plan)
    BY <1>6, VarsToSet
  <2> HIDE DEF plan
  <2> QED
    BY <1>14, <2>1, <2>4, <2>5 DEF Vars!LockedProduction
<1> QED
  BY <1>6, <1>7, <1>9, <1>10, <1>11, <1>12, <1>13, <1>14 DEF rows

-----------------------------------------------------------------------------
(***************************************************************************)
(* The rows of the source as CREATE sees them, and what the target's rows, *)
(* each of its origin, say of them.                                        *)
(***************************************************************************)
IsSource(rows, keys) ==
  /\ rows \in Seq(RowsOver(keys, SourceValues(keys))) /\ OnePerName(rows)
  /\ \A i \in DOMAIN rows : SourceValue(rows[i])

LEMMA SourceRowsOf ==
  ASSUME NEW keys, NEW rows, IsSource(rows, keys), NEW r \in Vars!ToSet(rows)
  PROVE  /\ r \in RowsOver(keys, SourceValues(keys)) /\ r.preview \in BOOLEAN /\ r.locked \in BOOLEAN
         /\ SourceValue(r) /\ r.value \notin {Vars!Withheld, Vars!Generated}
<1>1. PICK i \in DOMAIN rows : r = rows[i]
  BY VarsToSet
<1>2. r \in RowsOver(keys, SourceValues(keys)) /\ SourceValue(r)
  BY <1>1 DEF IsSource
<1>3. r.preview \in BOOLEAN /\ r.locked \in BOOLEAN
  BY <1>2 DEF RowsOver
<1>4. r.value \notin {Vars!Withheld, Vars!Generated}
  BY <1>2, <1>3, ValuesDiffer DEF SourceValue
<1> QED
  BY <1>2, <1>3, <1>4

\* No two rows have the same name, or the same value.
LEMMA SourceRowsDiffer ==
  ASSUME NEW keys, NEW rows, IsSource(rows, keys),
         NEW r \in Vars!ToSet(rows), NEW s \in Vars!ToSet(rows)
  PROVE  Same(r, s) \/ r.value = s.value => r = s
<1>1. Same(r, s) => r = s
  BY VarsToSet DEF IsSource, OnePerName
<1>2. ASSUME r.value = s.value
      PROVE  Same(r, s)
  <2>1. /\ r.preview \in BOOLEAN /\ s.preview \in BOOLEAN
        /\ SourceValue(r) /\ SourceValue(s)
    BY SourceRowsOf
  <2>2. CASE r.value = OwnValue(r.key, r.preview) /\ s.value = OwnValue(s.key, s.preview)
    <3> DEFINE a == r.preview
               b == s.preview
    <3>1. /\ a \in BOOLEAN /\ b \in BOOLEAN
          /\ OwnValue(r.key, a) = OwnValue(s.key, b)
      BY <1>2, <2>1, <2>2
    <3> HIDE DEF a, b
    <3>2. r.key = s.key /\ a = b
      <4>1. \A k, l : \A p, q \in BOOLEAN : OwnValue(k, p) = OwnValue(l, q) => k = l /\ p = q
        BY ValuesDiffer
      <4> QED
        BY <3>1, <4>1, ZenonT(60)
    <3> QED
      BY <3>2 DEF Same, a, b
  <2>3. CASE r.value = Vars!SourceHost \/ s.value = Vars!SourceHost
    <3>1. r.value = Vars!SourceHost /\ s.value = Vars!SourceHost
      BY <1>2, <2>3
    <3>2. r.value # OwnValue(r.key, r.preview) /\ s.value # OwnValue(s.key, s.preview)
      BY <2>1, <3>1, ValuesDiffer
    <3> QED
      BY <2>1, <3>2 DEF SourceValue, Same
  <2> QED
    BY <2>1, <2>2, <2>3 DEF SourceValue
<1> QED
  BY <1>1, <1>2

\* Coolify is left to make the twin only of a row that is not locked, and of which
\* the source has no preview.
LEMMA TwinsAreHarmless ==
  ASSUME NEW keys, NEW rows, IsSource(rows, keys), NEW kind, NEW recovered, NEW release, NEW known,
         NEW p \in Bare(kind, rows, recovered), NEW t, IsTwin(t, p, kind, release),
         ~HidesPreview(rows, p.key), ~SharesSecret(kind, rows, release, known, p)
  PROVE  /\ ~p.locked /\ PreviewsOf(rows, p.key) = {}
         /\ ~Vars!OwnPreviewSecret(kind, p.key, release, known)
<1>1. PreviewsOf(rows, p.key) = {}
  <2> SUFFICES ASSUME NEW r \in PreviewsOf(rows, p.key)
               PROVE  FALSE
    OBVIOUS
  <2>1. r \in Vars!ToSet(rows) /\ r.preview /\ r.key = p.key /\ ~r.locked
    BY DEF PreviewsOf, HidesPreview
  <2>2. kind # "service"
    BY DEF IsTwin, Vars!IsApplication
  <2>3. r \in EntriesOf(kind, rows, recovered)
    BY <2>1, <2>2 DEF EntriesOf, Vars!IsEntry
  <2> QED
    BY <2>1, <2>3 DEF Bare
<1>2. ~Vars!OwnPreviewSecret(kind, p.key, release, known)
  BY DEF IsTwin, Vars!OwnPreviewSecret
<1> QED
  BY <1>1, <1>2 DEF SharesSecret

LEMMA SecretsStayLocked ==
  ASSUME NEW keys, NEW rows, IsSource(rows, keys), NEW kind, NEW recovered, NEW release, NEW known,
         NEW t, Origin(t, kind, rows, recovered, release, known),
         NEW s \in Vars!ToSet(rows), s.locked, t.value = s.value
  PROVE  t.locked
<1>1. CASE t \in EntriesOf(kind, rows, recovered)
  <2>1. t \in Vars!ToSet(rows)
    BY <1>1 DEF EntriesOf
  <2> QED
    BY <2>1, SourceRowsDiffer
<1>2. CASE \E p \in Bare(kind, rows, recovered) : IsFill(t, kind, rows, release, known, p)
  BY <1>2 DEF IsFill
<1>3. CASE t.value = Vars!Generated
  BY <1>3, SourceRowsOf
<1>4. CASE \E p \in Bare(kind, rows, recovered) :
             /\ IsTwin(t, p, kind, release)
             /\ ~HidesPreview(rows, p.key) /\ ~SharesSecret(kind, rows, release, known, p)
  <2>1. PICK p \in Bare(kind, rows, recovered) :
          /\ IsTwin(t, p, kind, release)
          /\ ~HidesPreview(rows, p.key) /\ ~SharesSecret(kind, rows, release, known, p)
    BY <1>4
  <2>2. ~p.locked
    BY <2>1, TwinsAreHarmless
  <2>3. p \in Vars!ToSet(rows) /\ p.value = s.value
    BY <2>1 DEF Bare, EntriesOf, IsTwin
  <2>4. p = s
    BY <2>3, SourceRowsDiffer
  <2> QED
    BY <2>2, <2>4
<1> QED
  BY <1>1, <1>2, <1>3, <1>4 DEF Origin

LEMMA PreviewsAreTheirOwn ==
  ASSUME NEW keys, NEW rows, IsSource(rows, keys), NEW kind, NEW recovered, NEW release, NEW known,
         NEW t, Origin(t, kind, rows, recovered, release, known), t.preview
  PROVE  /\ PreviewsOf(rows, t.key) # {} => t.value \in {OwnValue(t.key, TRUE), Vars!Withheld}
         /\ Vars!OwnPreviewSecret(kind, t.key, release, known) => PreviewsOf(rows, t.key) # {}
<1>1. CASE t \in EntriesOf(kind, rows, recovered)
  <2>1. t \in Vars!ToSet(rows)
    BY <1>1 DEF EntriesOf
  <2>2. t \in PreviewsOf(rows, t.key)
    BY <2>1 DEF PreviewsOf
  <2>3. t.preview = TRUE /\ SourceValue(t)
    BY <2>1, SourceRowsOf
  <2> QED
    BY <2>2, <2>3 DEF SourceValue
<1>2. CASE \E p \in Bare(kind, rows, recovered) : IsFill(t, kind, rows, release, known, p)
  <2>1. PICK p \in Bare(kind, rows, recovered) : IsFill(t, kind, rows, release, known, p)
    BY <1>2
  <2>2. p.key = t.key
    BY <2>1 DEF IsFill
  <2> QED
    BY <2>1, <2>2 DEF IsFill, HidesPreview, SharesSecret
<1>3. CASE \E p \in Bare(kind, rows, recovered) :
             /\ IsTwin(t, p, kind, release)
             /\ ~HidesPreview(rows, p.key) /\ ~SharesSecret(kind, rows, release, known, p)
  <2>1. PICK p \in Bare(kind, rows, recovered) :
          /\ IsTwin(t, p, kind, release)
          /\ ~HidesPreview(rows, p.key) /\ ~SharesSecret(kind, rows, release, known, p)
    BY <1>3
  <2>2. p.key = t.key
    BY <2>1 DEF IsTwin
  <2> QED
    BY <2>1, <2>2, TwinsAreHarmless
<1> QED
  BY <1>1, <1>2, <1>3 DEF Origin

\* A production row of a variable that is no entry is Coolify's own.
LEMMA OthersAreCoolifys ==
  ASSUME NEW keys, NEW rows, IsSource(rows, keys), NEW kind, NEW recovered, NEW release, NEW known,
         NEW t, Origin(t, kind, rows, recovered, release, known), ~t.preview,
         NEW c \in Vars!ToSet(rows), c.key = t.key, ~c.preview, ~Vars!IsEntry(kind, c, recovered)
  PROVE  /\ t.value = Vars!Generated
         /\ Vars!TargetRegenerates(kind, t.key) \/ Vars!LeftToTarget(kind, t.key)
<1>1. t \notin EntriesOf(kind, rows, recovered)
  <2> SUFFICES ASSUME t \in EntriesOf(kind, rows, recovered)
               PROVE  FALSE
    OBVIOUS
  <2>1. t \in Vars!ToSet(rows) /\ Vars!IsEntry(kind, t, recovered)
    BY DEF EntriesOf
  <2>2. t.preview = FALSE /\ c.preview = FALSE
    BY <2>1, SourceRowsOf
  <2>3. t = c
    BY <2>1, <2>2, SourceRowsDiffer DEF Same
  <2> QED
    BY <2>1, <2>3
<1> QED
  BY <1>1 DEF Origin, IsFill, IsTwin

LEMMA DeployedRows ==
  ASSUME NEW S, NEW rows \in Seq(S), NEW kind, NEW r \in Vars!ToSet(Vars!Deployed(kind, rows))
  PROVE  \/ r \in Vars!ToSet(rows)
         \/ /\ kind = "compose_app" /\ ~Vars!Has(rows, "PASSWORD", FALSE)
            /\ r.key = "PASSWORD" /\ r.value = Vars!Generated
<1> DEFINE own == Vars!NewRow("PASSWORD", FALSE, FALSE, Vars!Generated)
<1>1. own.key = "PASSWORD" /\ own.value = Vars!Generated
  BY DEF Vars!NewRow
<1> HIDE DEF own
<1>2. \A x \in Vars!ToSet(Append(rows, own)) : x \in Vars!ToSet(rows) \/ x = own
  <2> SUFFICES ASSUME NEW x \in Vars!ToSet(Append(rows, own)), x # own
               PROVE  x \in Vars!ToSet(rows)
    OBVIOUS
  <2>1. PICK i \in DOMAIN Append(rows, own) : x = Append(rows, own)[i]
    BY VarsToSet
  <2>2. /\ Len(rows) \in Nat /\ DOMAIN rows = 1 .. Len(rows)
        /\ DOMAIN Append(rows, own) = 1 .. Len(rows) + 1
        /\ Append(rows, own)[i] = IF i <= Len(rows) THEN rows[i] ELSE own
    BY <2>1
  <2>3. i \in DOMAIN rows /\ x = rows[i]
    BY <2>1, <2>2
  <2> QED
    BY <2>3, VarsToSet
<1> QED
  BY <1>1, <1>2 DEF Vars!Deployed, own

\* A row that is sent stays as it is; Coolify adds only what is missing.
LEMMA DeployedKeeps ==
  ASSUME NEW S, NEW rows \in Seq(S), NEW kind
  PROVE  Vars!ToSet(rows) \subseteq Vars!ToSet(Vars!Deployed(kind, rows))
<1> DEFINE own == Vars!NewRow("PASSWORD", FALSE, FALSE, Vars!Generated)
<1>1. Vars!ToSet(rows) \subseteq Vars!ToSet(Append(rows, own))
  <2> SUFFICES ASSUME NEW i \in DOMAIN rows
               PROVE  rows[i] \in Vars!ToSet(Append(rows, own))
    BY VarsToSet
  <2> HIDE DEF own
  <2>1. i \in DOMAIN Append(rows, own) /\ rows[i] = Append(rows, own)[i]
    OBVIOUS
  <2> QED
    BY <2>1, VarsToSet
<1> QED
  BY <1>1 DEF Vars!Deployed, own

-----------------------------------------------------------------------------
\* What the target holds, wherever the bulk breaks off.
LEMMA TargetHolds ==
  ASSUME NEW keys, NEW q, VarsQuestion(q, keys), NEW n \in 0 .. Len(Sent(q))
  PROVE  LET rows == RowsAt(q.rows, "create")
             recovered == AtCreate(q).recovered
             target == RowsAfter(q, n)
         IN  /\ IsSource(rows, keys)
             /\ target \in Seq(RowsOver(keys, SourceValues(keys))) /\ OnePerName(target)
             /\ \A t \in Vars!ToSet(target) : Origin(t, q.of, rows, recovered, q.release, q.known)
             /\ n = Len(Sent(q)) => EntriesOf(q.of, rows, recovered) \subseteq Vars!ToSet(target)
<1> DEFINE rows == RowsAt(q.rows, "create")
           copying == RowsAt(q.rows, "copying")
           recovered == AtCreate(q).recovered
           entries == Sent(q)
           target == RowsAfter(q, n)
<1>1. /\ copying = rows
      /\ rows \in Seq(RowsOver(keys, SourceValues(keys))) /\ OnePerName(rows)
      /\ Vars!IsApplication(q.of) \/ NoPreviews(rows)
      /\ IsSource(rows, keys)
  BY RowsAreShown DEF IsSource
<1>2. entries = Vars!BuildEnvEntries(q.of, copying, recovered, q.release, q.known)
  BY DEF Sent
<1>3. target = Vars!CopyEnvs(q.of, q.release, entries, n)
  BY DEF RowsAfter
<1>4. n \in 0 .. Len(entries)
  OBVIOUS
<1> HIDE DEF rows, copying, recovered, entries, target
<1>5. entries = Vars!BuildEnvEntries(q.of, rows, recovered, q.release, q.known)
  BY <1>1, <1>2
<1>6. /\ target \in Seq(RowsOver(keys, SourceValues(keys))) /\ OnePerName(target)
      /\ \A t \in Vars!ToSet(target) : Origin(t, q.of, rows, recovered, q.release, q.known)
      /\ n = Len(entries) => EntriesOf(q.of, rows, recovered) \subseteq Vars!ToSet(target)
  BY <1>1, <1>3, <1>4, <1>5, Arrived
<1> QED
  BY <1>1, <1>6 DEF rows, recovered, entries, target

LEMMA SentIsShort ==
  ASSUME NEW keys, NEW q, VarsQuestion(q, keys)
  PROVE  Len(Sent(q)) \in Nat
<1> DEFINE rows == RowsAt(q.rows, "create")
           recovered == AtCreate(q).recovered
           entries == Sent(q)
<1>1. /\ RowsAt(q.rows, "copying") = rows
      /\ rows \in Seq(RowsOver(keys, SourceValues(keys))) /\ OnePerName(rows)
      /\ Vars!IsApplication(q.of) \/ NoPreviews(rows)
  BY RowsAreShown
<1>2. entries = Vars!BuildEnvEntries(q.of, rows, recovered, q.release, q.known)
  BY <1>1 DEF Sent
<1> HIDE DEF rows, recovered, entries
<1>3. entries \in Seq(RowsOver(keys, SourceValues(keys)))
  BY <1>1, <1>2, EntriesBuilt
<1> QED
  BY <1>3 DEF entries

LEMMA LockedAreKept ==
  ASSUME NEW keys, VarsQuestion(question, keys)
  PROVE  LockedStaysLocked
<1> DEFINE rows == RowsAt(question.rows, "create")
           secrets == {rows[i].value : i \in {j \in DOMAIN rows : rows[j].locked}}
           recovered == AtCreate(question).recovered
<1>1. SUFFICES ASSUME NEW n \in 0 .. Len(Sent(question)), NEW i \in DOMAIN RowsAfter(question, n),
                      RowsAfter(question, n)[i].value \in secrets
               PROVE  RowsAfter(question, n)[i].locked
  BY DEF LockedStaysLocked
<1> DEFINE target == RowsAfter(question, n)
<1>2. /\ IsSource(rows, keys)
      /\ \A t \in Vars!ToSet(target) :
           Origin(t, question.of, rows, recovered, question.release, question.known)
  BY TargetHolds
<1>3. PICK j \in DOMAIN rows : rows[j].locked /\ target[i].value = rows[j].value
  BY <1>1
<1> HIDE DEF rows, target, recovered
<1>4. rows[j] \in Vars!ToSet(rows) /\ target[i] \in Vars!ToSet(target)
  BY <1>1, VarsToSet DEF target
<1>5. target[i].locked
  BY <1>2, <1>3, <1>4, SecretsStayLocked
<1> QED
  BY <1>5 DEF target

LEMMA PreviewsAreKeptApart ==
  ASSUME NEW keys, VarsQuestion(question, keys)
  PROVE  PreviewsStayApart
<1> DEFINE rows == RowsAt(question.rows, "create")
           recovered == AtCreate(question).recovered
           target == RowsAfter(question, Len(Sent(question)))
<1>1. Len(Sent(question)) \in 0 .. Len(Sent(question))
  BY SentIsShort
<1>2. /\ IsSource(rows, keys)
      /\ target \in Seq(RowsOver(keys, SourceValues(keys))) /\ OnePerName(target)
      /\ \A t \in Vars!ToSet(target) :
           Origin(t, question.of, rows, recovered, question.release, question.known)
  BY <1>1, TargetHolds
<1>3. /\ DOMAIN rows = DOMAIN question.rows
      /\ \A i \in DOMAIN rows : SameRow(rows[i], question.rows[i])
  BY RowsAreShown
<1> HIDE DEF rows, recovered
<1>4. ASSUME NEW key
      PROVE  Preview(question.rows, key) # {} <=> PreviewsOf(rows, key) # {}
  <2>1. Preview(question.rows, key) # {}
          <=> \E i \in DOMAIN question.rows : question.rows[i].key = key /\ question.rows[i].preview
    BY DEF Preview
  <2>2. PreviewsOf(rows, key) # {} <=> \E i \in DOMAIN rows : rows[i].key = key /\ rows[i].preview
    BY VarsToSet DEF PreviewsOf
  <2> QED
    BY <1>3, <2>1, <2>2 DEF SameRow
<1> HIDE DEF target
<1>5. ASSUME NEW key, NEW t \in Preview(target, key)
      PROVE  /\ PreviewsOf(rows, key) # {} => t.value \in {OwnValue(key, TRUE), Vars!Withheld}
             /\ Vars!OwnPreviewSecret(question.of, key, question.release, question.known)
                  => PreviewsOf(rows, key) # {}
  <2>1. t \in Vars!ToSet(target) /\ t.preview /\ t.key = key
    BY VarsToSet DEF Preview
  <2>2. Origin(t, question.of, rows, recovered, question.release, question.known)
    BY <1>2, <2>1
  <2>3. /\ PreviewsOf(rows, t.key) # {} => t.value \in {OwnValue(t.key, TRUE), Vars!Withheld}
        /\ Vars!OwnPreviewSecret(question.of, t.key, question.release, question.known)
             => PreviewsOf(rows, t.key) # {}
    <3>1. IsSource(rows, keys) /\ t.preview
      BY <1>2, <2>1
    <3> DEFINE kind == question.of
               release == question.release
               known == question.known
    <3>2. Origin(t, kind, rows, recovered, release, known)
      BY <2>2
    <3> HIDE DEF kind, release, known
    <3>3. Vars!OwnPreviewSecret(kind, t.key, release, known) => PreviewsOf(rows, t.key) # {}
      BY <3>1, <3>2, PreviewsAreTheirOwn
    <3>4. PreviewsOf(rows, t.key) # {} => t.value \in {OwnValue(t.key, TRUE), Vars!Withheld}
      BY <3>1, <3>2, PreviewsAreTheirOwn
    <3> QED
      BY <3>3, <3>4 DEF kind, release, known
  <2> QED
    BY <2>1, <2>3
<1>6. \A i, j \in DOMAIN target :
        target[i].preview /\ target[j].preview /\ target[i].key = target[j].key => i = j
  <2>1. \A i \in DOMAIN target : target[i] \in RowsOver(keys, SourceValues(keys))
    BY <1>2
  <2>2. \A i \in DOMAIN target : target[i].preview \in BOOLEAN
    BY <2>1 DEF RowsOver
  <2> QED
    BY <1>2, <2>2 DEF OnePerName, Same
<1> QED
  <2>1. ASSUME NEW key
        PROVE  LET own == Preview(question.rows, key)
               IN  /\ own # {} => \A row \in Preview(target, key) :
                                    row.value \in {OwnValue(key, TRUE), Vars!Withheld}
                   /\ own = {} /\ Vars!OwnPreviewSecret(question.of, key, question.release, question.known)
                        => Preview(target, key) = {}
    BY <1>4, <1>5
  <2> QED
    BY <1>6, <2>1 DEF PreviewsStayApart, target

\* A production row of the source that is no entry is foretold to be missing, or is
\* one the target makes.
LEMMA NoEntryIsForetold ==
  ASSUME NEW keys, NEW q, VarsQuestion(q, keys), IsSent(q),
         NEW c \in Vars!ToSet(RowsAt(q.rows, "create")), ~c.preview,
         ~Vars!IsEntry(q.of, c, AtCreate(q).recovered)
  PROVE  \/ Vars!LeftToTarget(q.of, c.key)
         \/ ~Vars!TargetRegenerates(q.of, c.key) /\ c.key \in Review(q).without
<1> DEFINE rows == RowsAt(q.rows, "create")
           plan == RowsAt(q.rows, "plan")
           atCreate == Vars!Recovery(q.of, rows, q.atCreate)
           atPlan == Vars!Recovery(q.of, plan, q.atPlan)
<1>1. CASE q.of = "service" /\ Vars!NamesTheSource(c)
  BY <1>1 DEF Vars!NamesTheSource, Vars!LeftToTarget
<1>2. CASE c.locked /\ c.key \notin AtCreate(q).recovered
  <2> SUFFICES ASSUME ~Vars!LeftToTarget(q.of, c.key)
               PROVE  ~Vars!TargetRegenerates(q.of, c.key) /\ c.key \in Review(q).without
    OBVIOUS
  <2>1. c.key \in Vars!LockedProduction(rows)
    BY <1>2 DEF Vars!LockedProduction
  <2>2. /\ AtCreate(q).recovered = atCreate.recovered
        /\ \A k \in atCreate.unrecoverable :
             k \notin Review(q).promised /\ ~Vars!TargetRegenerates(q.of, k)
    BY DEF IsSent, AtCreate, Vars!RecoverForCreate
  <2>3. c.key \notin q.atCreate /\ c.key \in atCreate.unrecoverable
    BY <1>2, <2>1, <2>2 DEF Vars!Recovery
  <2>4. ~Vars!TargetRegenerates(q.of, c.key) /\ c.key \notin Review(q).promised
    BY <2>2, <2>3
  <2>5. c.key \in Vars!LockedProduction(plan)
    <3>1. PICK i \in DOMAIN rows : c = rows[i]
      BY VarsToSet
    <3>2. rows[i].locked /\ ~rows[i].preview =>
            \/ rows[i].key \in q.atCreate \/ Vars!TargetRegenerates(q.of, rows[i].key)
            \/ rows[i].key \in Vars!LockedProduction(plan)
      BY RowsAreShown
    <3> HIDE DEF rows, plan
    <3> QED
      BY <1>2, <2>3, <2>4, <3>1, <3>2
  <2> HIDE DEF rows, plan
  <2>6. /\ Review(q).promised = atPlan.recovered
        /\ Review(q).without = {k \in atPlan.unrecoverable : ~Vars!TargetRegenerates(q.of, k)}
    BY DEF Review, Vars!ReviewEnvs, plan
  <2>7. c.key \in atPlan.recovered \/ c.key \in atPlan.unrecoverable
    BY <2>5 DEF Vars!Recovery
  <2> QED
    BY <2>4, <2>6, <2>7
<1> QED
  BY <1>1, <1>2 DEF Vars!IsEntry

LEMMA CarriedOrTold ==
  ASSUME NEW keys, VarsQuestion(question, keys)
  PROVE  CarriedOrForetold
<1> DEFINE sent == RowsAfter(question, Len(Sent(question)))
           target == Vars!Deployed(question.of, sent)
           rows == RowsAt(question.rows, "create")
           recovered == AtCreate(question).recovered
<1>1. SUFFICES ASSUME IsSent(question), NEW i \in DOMAIN question.rows, ~question.rows[i].preview
               PROVE  LET row == question.rows[i]
                          values == {r.value : r \in Production(target, row.key)}
                      IN  \/ values = {row.value}
                          \/ values = {} /\ row.key \in Review(question).without
                          \/ /\ Vars!LeftToTarget(question.of, row.key)
                             /\ Vars!SourceHost \notin values
  BY DEF CarriedOrForetold
<1>2. Len(Sent(question)) \in 0 .. Len(Sent(question))
  BY SentIsShort
<1>3. /\ IsSource(rows, keys)
      /\ sent \in Seq(RowsOver(keys, SourceValues(keys))) /\ OnePerName(sent)
      /\ \A t \in Vars!ToSet(sent) :
           Origin(t, question.of, rows, recovered, question.release, question.known)
      /\ EntriesOf(question.of, rows, recovered) \subseteq Vars!ToSet(sent)
  BY <1>2, TargetHolds
<1> DEFINE c == rows[i]
           key == question.rows[i].key
<1>4. c.key = key /\ c.value = question.rows[i].value /\ c.preview = question.rows[i].preview
  BY RowsAreShown DEF SameRow
<1>5. c \in Vars!ToSet(rows)
  <2>1. DOMAIN rows = DOMAIN question.rows
    BY RowsAreShown
  <2> QED
    BY <2>1, VarsToSet
<1> HIDE DEF sent
<1>6. /\ Vars!ToSet(sent) \subseteq Vars!ToSet(target)
      /\ \A r \in Vars!ToSet(target) :
           \/ r \in Vars!ToSet(sent)
           \/ /\ question.of = "compose_app" /\ ~Vars!Has(sent, "PASSWORD", FALSE)
              /\ r.key = "PASSWORD" /\ r.value = Vars!Generated
  BY <1>3, DeployedRows, DeployedKeeps
<1>7. \A r : r \in Production(target, key) <=> r \in Vars!ToSet(target) /\ r.key = key /\ ~r.preview
  BY VarsToSet DEF Production
<1>8. c.preview = FALSE
  BY <1>1, <1>3, <1>4, <1>5, SourceRowsOf
<1>9. CASE Vars!IsEntry(question.of, c, recovered)
  <2> HIDE DEF target, recovered
  <2>1. c \in Vars!ToSet(sent)
    BY <1>3, <1>5, <1>9 DEF EntriesOf
  <2>2. c \in Production(target, key)
    BY <1>4, <1>6, <1>7, <1>8, <2>1
  <2>3. ASSUME NEW r \in Production(target, key)
        PROVE  r = c
    <3>1. r \in Vars!ToSet(target) /\ r.key = key /\ ~r.preview
      BY <1>7
    <3>2. r \in Vars!ToSet(sent)
      <4>1. key = "PASSWORD" => Vars!Has(sent, "PASSWORD", FALSE)
        BY <1>4, <1>8, <2>1 DEF Vars!Has
      <4> QED
        BY <1>6, <3>1, <4>1
    <3>3. r.preview = FALSE
      <4>1. r \in RowsOver(keys, SourceValues(keys))
        BY <1>3, <3>2, VarsToSet
      <4> QED
        BY <3>1, <4>1 DEF RowsOver
    <3>4. Same(r, c)
      BY <1>4, <1>8, <3>1, <3>3 DEF Same
    <3> QED
      BY <1>3, <2>1, <3>2, <3>4, VarsToSet DEF OnePerName
  <2>4. {r.value : r \in Production(target, key)} = {c.value}
    BY <2>2, <2>3
  <2> QED
    BY <1>4, <2>4
<1>10. CASE ~Vars!IsEntry(question.of, c, recovered)
  <2>1. \/ Vars!LeftToTarget(question.of, key)
        \/ ~Vars!TargetRegenerates(question.of, key) /\ key \in Review(question).without
    BY <1>1, <1>4, <1>5, <1>10, NoEntryIsForetold
  <2> HIDE DEF target, recovered, rows
  <2>2. ASSUME NEW r \in Production(target, key)
        PROVE  /\ r.value = Vars!Generated
               /\ Vars!TargetRegenerates(question.of, key) \/ Vars!LeftToTarget(question.of, key)
    <3>1. r \in Vars!ToSet(target) /\ r.key = key /\ ~r.preview
      BY <1>7
    <3>2. CASE r \in Vars!ToSet(sent)
      <4>1. Origin(r, question.of, rows, recovered, question.release, question.known)
        BY <1>3, <3>2
      <4> HIDE DEF c, key
      <4>2. c.key = key /\ ~c.preview
        BY <1>4, <1>8
      <4>3. r.value = Vars!Generated /\
             (Vars!TargetRegenerates(question.of, r.key) \/ Vars!LeftToTarget(question.of, r.key))
        BY <1>3, <1>5, <1>10, <3>1, <4>1, <4>2, OthersAreCoolifys
      <4> QED
        BY <3>1, <4>3
    <3>3. CASE question.of = "compose_app" /\ r.key = "PASSWORD" /\ r.value = Vars!Generated
      BY <3>1, <3>3 DEF Vars!TargetRegenerates
    <3> QED
      BY <1>6, <3>1, <3>2, <3>3
  <2>3. Vars!SourceHost \notin {r.value : r \in Production(target, key)}
    BY <2>2, ValuesDiffer
  <2>4. CASE Vars!LeftToTarget(question.of, key)
    BY <2>3, <2>4
  <2>5. CASE ~Vars!LeftToTarget(question.of, key)
    <3>1. {r.value : r \in Production(target, key)} = {}
      BY <2>1, <2>2, <2>5
    <3> QED
      BY <2>1, <2>5, <3>1
  <2> QED
    BY <2>4, <2>5
<1> QED
  BY <1>9, <1>10

\* Whatever variables the resource has, and wherever the bulk of CREATE breaks off:
\* what is locked on the source is locked on the target, no preview runs on
\* production's value that did not on the source, and the target holds each
\* production variable as the source did, or lacks it as the plan said
\* (engine/env_recovery.py, api/resources.py, build_env_entries).
THEOREM VariablesArrive ==
  ASSUME NEW keys, VarsQuestion(question, keys)
  PROVE  VariablesAreCarried
BY LockedAreKept, PreviewsAreKeptApart, CarriedOrTold DEF VariablesAreCarried

-----------------------------------------------------------------------------
(***************************************************************************)
(* What Spec asks, of the shapes the theorems speak of.                    *)
(***************************************************************************)
ManifestNames ==
  {OwnA, OwnB, Pinned, Named("anonymous", "", "a"),
   HostPath("data"), HostPath("passthrough"), HostPath("tmp")}

ShapedQuestion ==
  \/ question.kind \in Kinds
  \/ EnvQuestion(question, EnvTokens)
  \/ \E names \in SUBSET {"#c", "a", "b"} : CopyQuestion(question, names, Metas, Entries)
  \/ CompareQuestion(question, {"a", "b"}, Metas, Metas, {"directory", "x", "y"})
  \/ RollbackQuestion(question)
  \/ DnsQuestion(question, {"S", "T", "B", "C"})
  \/ PairingQuestion(question, {"a", "b"}, Paths)
  \/ ManifestQuestion(question, ManifestNames, Paths)
  \/ ApiQuestion(question, 2)
  \/ ContainerQuestion(question, {"v", "w"})
  \/ VarsQuestion(question, Vars!Keys)

LEMMA VariablesAreShaped ==
  ASSUME AskVars, "locked_since_plan" \notin Hazards, "locked_while_copying" \notin Hazards
  PROVE  VarsQuestion(question', Vars!Keys)
<1> DEFINE R == [key : Vars!Keys, preview : BOOLEAN, lockedFrom : {"plan", "create", "never"},
                 value : SourceValues(Vars!Keys)]
<1>1. PICK of \in Vars!EnvKinds :
        \E rows \in RowLists(of), release \in ReleasesOf(of), known \in MayKnow(of, "4.5.1") :
          LET locked == Vars!LockedProduction(RowsAt(rows, "create"))
          IN  \E atPlan, atCreate \in SUBSET locked :
                /\ known \in MayKnow(of, release)
                /\ \A i \in DOMAIN rows : Allowed(of, rows[i], atCreate)
                /\ question' = [kind |-> "vars_asked", of |-> of, release |-> release,
                                known |-> known, rows |-> rows, atPlan |-> atPlan,
                                atCreate |-> atCreate]
  BY DEF AskVars
<1>2. PICK rows, release, known, atPlan, atCreate :
        /\ rows \in RowLists(of)
        /\ \A i \in DOMAIN rows : Allowed(of, rows[i], atCreate)
        /\ question' = [kind |-> "vars_asked", of |-> of, release |-> release, known |-> known,
                        rows |-> rows, atPlan |-> atPlan, atCreate |-> atCreate]
  BY <1>1
<1>3. /\ question'.kind = "vars_asked" /\ question'.of = of /\ question'.rows = rows
      /\ question'.atCreate = atCreate
  BY <1>2
<1>4. Moments \subseteq {"plan", "create", "never"}
  BY DEF Moments, Moment
<1>5. ASSUME NEW r \in SourceRows(of)
      PROVE  r \in R /\ SourceValue(r) /\ (r.preview => Vars!IsApplication(of))
  <2> DEFINE Rows(key, preview, moments, values) ==
               [key : {key}, preview : {preview}, lockedFrom : moments, value : values]
             some == {"plan", "never"}
  <2>1. ASSUME NEW key \in Vars!Keys, NEW preview \in BOOLEAN,
               NEW moments \in SUBSET {"plan", "create", "never"},
               NEW value \in SourceValues(Vars!Keys), r \in Rows(key, preview, moments, {value})
        PROVE  r \in R /\ r.key = key /\ r.preview = preview /\ r.value = value
    <3>1. /\ r = [key |-> key, preview |-> preview, lockedFrom |-> r.lockedFrom, value |-> value]
          /\ r.lockedFrom \in {"plan", "create", "never"}
      BY <2>1
    <3>2. r.key = key /\ r.preview = preview /\ r.value = value
      BY <3>1
    <3>3. r \in R
      BY <3>1
    <3> QED
      BY <3>2, <3>3
  <2>2. /\ \A key \in Vars!Keys : \A preview \in BOOLEAN : OwnValue(key, preview) \in SourceValues(Vars!Keys)
        /\ Vars!SourceHost \in SourceValues(Vars!Keys)
    BY DEF SourceValues
  <2>3. \/ r \in Rows("PLAIN", FALSE, Moments, {OwnValue("PLAIN", FALSE)})
        \/ r \in Rows("PASSWORD", FALSE, Moments, {OwnValue("PASSWORD", FALSE)})
        \/ r \in Rows("URL", FALSE, Moments, {OwnValue("URL", FALSE)})
        \/ r \in Rows("URL", FALSE, Moments, {Vars!SourceHost})
        \/ /\ Vars!IsApplication(of)
           /\ \/ r \in Rows("PLAIN", TRUE, some, {OwnValue("PLAIN", TRUE)})
              \/ r \in Rows("PASSWORD", TRUE, some, {OwnValue("PASSWORD", TRUE)})
    BY DEF SourceRows
  <2>4. "PLAIN" \in Vars!Keys /\ "PASSWORD" \in Vars!Keys /\ "URL" \in Vars!Keys
    BY DEF Vars!Keys
  <2>5. Moments \in SUBSET {"plan", "create", "never"} /\ some \in SUBSET {"plan", "create", "never"}
    BY <1>4
  <2>6. TRUE \in BOOLEAN /\ FALSE \in BOOLEAN
    OBVIOUS
  <2> HIDE DEF Rows, R, some
  <2>7. CASE r \in Rows("PLAIN", FALSE, Moments, {OwnValue("PLAIN", FALSE)})
    BY <2>1, <2>2, <2>4, <2>5, <2>6, <2>7 DEF SourceValue
  <2>8. CASE r \in Rows("PASSWORD", FALSE, Moments, {OwnValue("PASSWORD", FALSE)})
    BY <2>1, <2>2, <2>4, <2>5, <2>6, <2>8 DEF SourceValue
  <2>9. CASE r \in Rows("URL", FALSE, Moments, {OwnValue("URL", FALSE)})
    BY <2>1, <2>2, <2>4, <2>5, <2>6, <2>9 DEF SourceValue
  <2>10. CASE r \in Rows("URL", FALSE, Moments, {Vars!SourceHost})
    BY <2>1, <2>2, <2>4, <2>5, <2>6, <2>10 DEF SourceValue
  <2>11. CASE Vars!IsApplication(of) /\ r \in Rows("PLAIN", TRUE, some, {OwnValue("PLAIN", TRUE)})
    BY <2>1, <2>2, <2>4, <2>5, <2>6, <2>11 DEF SourceValue
  <2>12. CASE Vars!IsApplication(of) /\ r \in Rows("PASSWORD", TRUE, some, {OwnValue("PASSWORD", TRUE)})
    BY <2>1, <2>2, <2>4, <2>5, <2>6, <2>12 DEF SourceValue
  <2> QED
    BY <2>3, <2>7, <2>8, <2>9, <2>10, <2>11, <2>12
<1> HIDE DEF R
<1>6. PICK k \in 0 .. 3 : rows \in [1 .. k -> SourceRows(of)]
  BY <1>2 DEF RowLists, SeqUpTo
<1>7. DOMAIN rows = 1 .. k /\ \A i \in 1 .. k : rows[i] \in SourceRows(of)
  BY <1>6
<1>8. rows \in Seq(R)
  <2>1. rows \in [1 .. k -> R]
    BY <1>5, <1>6, <1>7
  <2> QED
    BY <2>1
<1>9. OnePerName(rows)
  BY <1>2 DEF RowLists, OnePerName, Same
<1>10. ASSUME NEW i \in DOMAIN rows
       PROVE  /\ SourceValue(rows[i]) /\ (rows[i].preview => Vars!IsApplication(of))
              /\ rows[i].lockedFrom = "create" /\ ~rows[i].preview =>
                   rows[i].key \in atCreate \/ Vars!TargetRegenerates(of, rows[i].key)
  <2>1. rows[i] \in SourceRows(of)
    BY <1>7
  <2>2. Allowed(of, rows[i], atCreate)
    BY <1>2
  <2> QED
    BY <1>5, <2>1, <2>2 DEF Allowed
<1> QED
  BY <1>3, <1>8, <1>9, <1>10 DEF VarsQuestion, R

LEMMA QuestionsAreShaped ==
  ASSUME ShapedQuestion, Next, "unanswered_probe" \notin Hazards, "missing_hashes" \notin Hazards,
         "locked_since_plan" \notin Hazards, "locked_while_copying" \notin Hazards,
         "literal_ends_in_key" \notin Hazards
  PROVE  ShapedQuestion'
<1>1. CASE AskRollback
  <2>1. PICK completed \in SeqUpTo(Journalled, 3), inFlight \in Journalled \cup {Undo!NoState},
             undoIncomplete \in SUBSET {"create_target"}, stopRequested \in BOOLEAN :
          question' = [kind |-> "rollback_asked", completed |-> completed, inFlight |-> inFlight,
                       undoIncomplete |-> undoIncomplete, stopRequested |-> stopRequested]
    BY <1>1 DEF AskRollback
  <2>2. Journalled \subseteq Undo!States /\ "create_target" \in Undo!States
    BY DEF Journalled, Undo!SideEffects, Undo!States, Undo!Order
  <2>3. completed \in Seq(Undo!States)
    <3>1. PICK k \in 0 .. 3 : completed \in [1 .. k -> Journalled]
      BY DEF SeqUpTo
    <3>2. completed \in Seq(Journalled)
      BY <3>1
    <3>3. \A i \in DOMAIN completed : completed[i] \in Undo!States
      BY <2>2, <3>1
    <3> QED
      BY <2>2, <3>1, <3>3
  <2>4. RollbackQuestion(question')
    BY <2>1, <2>2, <2>3 DEF RollbackQuestion
  <2> QED
    BY <2>4 DEF ShapedQuestion
<1>2. CASE AskDns
  <2>1. PICK host \in Hosts, planned \in Looks, now \in Looks,
             acceptCutover \in BOOLEAN, acceptedHost \in BOOLEAN :
          question' = [kind |-> "dns_asked", host |-> host, planned |-> planned, now |-> now,
                       acceptCutover |-> acceptCutover, acceptedHost |-> acceptedHost]
    BY <1>2 DEF AskDns
  <2>2. Looks \subseteq LooksAt({"S", "T", "B", "C"})
    BY DEF Looks, LooksAt, UpTo
  <2>3. /\ host \in [generated : BOOLEAN, underSource : BOOLEAN, underTarget : BOOLEAN]
        /\ host.underTarget => host.underSource
    BY DEF Hosts
  <2>4. DnsQuestion(question', {"S", "T", "B", "C"})
    BY <2>1, <2>2, <2>3 DEF DnsQuestion
  <2> QED
    BY <2>4 DEF ShapedQuestion
<1>3. CASE AskPairing
  <2>1. PICK kind \in {"git_compose", "service", "database"}, source \in SourceEndpoints,
             target \in UpTo(Endpoints(TargetNames), 3), declared \in SUBSET Endpoints({OwnA, OwnB}) :
          question' = [kind |-> "pairing_asked", of |-> kind, source |-> source,
                       target |-> target, declared |-> declared]
    BY <1>3 DEF AskPairing
  <2> DEFINE NamesOf(Of) == [of : Of, sep : {"_", "-", ""}, key : {"a", "b"}]
  <2>0. ASSUME NEW Of, NEW of \in Of, NEW sep \in {"_", "-", ""}, NEW key \in {"a", "b"}
        PROVE  Named(of, sep, key) \in NamesOf(Of)
    BY DEF Named
  <2>2. /\ source \subseteq EndpointsOf({"source", "external"}, {"a", "b"}, Paths)
        /\ \A e, f \in source : e.name = f.name => e = f
    <3> DEFINE names == {OwnA, Named("source", "-", "a"), OwnB, Pinned}
    <3>1. PICK chosen \in UpTo(names, 2) :
            source \in {{[name |-> n, path |-> path[n]] : n \in chosen} : path \in [chosen -> Paths]}
      BY DEF SourceEndpoints
    <3>2. PICK path \in [chosen -> Paths] : source = {[name |-> n, path |-> path[n]] : n \in chosen}
      BY <3>1
    <3>3. chosen \subseteq names
      BY DEF UpTo
    <3>4. names \subseteq NamesOf({"source", "external"})
      <4> HIDE DEF NamesOf
      <4> QED
        BY <2>0 DEF OwnA, OwnB, Pinned
    <3> HIDE DEF names
    <3>5. \A n \in chosen : n \in NamesOf({"source", "external"}) /\ path[n] \in Paths
      BY <3>2, <3>3, <3>4
    <3>6. \A n \in chosen : [name |-> n, path |-> path[n]]
                              \in EndpointsOf({"source", "external"}, {"a", "b"}, Paths)
      BY <3>5 DEF EndpointsOf
    <3>7. \A e \in source : \E n \in chosen : e = [name |-> n, path |-> path[n]]
      BY <3>2
    <3>8. source \subseteq EndpointsOf({"source", "external"}, {"a", "b"}, Paths)
      BY <3>6, <3>7
    <3>9. \A e, f \in source : e.name = f.name => e = f
      BY <3>7
    <3> QED
      BY <3>8, <3>9
  <2>3. target \subseteq EndpointsOf({"target", "external"}, {"a", "b"}, Paths)
    <3>1. TargetNames \subseteq NamesOf({"target", "external"})
      <4> HIDE DEF NamesOf
      <4> QED
        BY <2>0 DEF TargetNames, Pinned
    <3> QED
      BY <3>1 DEF UpTo, Endpoints, EndpointsOf
  <2>4. declared \subseteq EndpointsOf({"source"}, {"a", "b"}, Paths)
    <3>1. {OwnA, OwnB} \subseteq NamesOf({"source"})
      <4> HIDE DEF NamesOf
      <4> QED
        BY <2>0 DEF OwnA, OwnB
    <3> QED
      BY <3>1 DEF Endpoints, EndpointsOf
  <2>5. PairingQuestion(question', {"a", "b"}, Paths)
    BY <2>1, <2>2, <2>3, <2>4 DEF PairingQuestion
  <2> QED
    BY <2>5 DEF ShapedQuestion
<1>4. CASE AskApi
  <2>1. PICK table \in {"tasks", "backups"}, calls \in [1..2 -> Api!Calls] :
          question' = [kind |-> "api_asked", table |-> table, calls |-> calls]
    BY <1>4 DEF AskApi
  <2>2. ApiQuestion(question', 2)
    BY <2>1 DEF ApiQuestion
  <2> QED
    BY <2>2 DEF ShapedQuestion
<1>5. CASE AskContainers
  <2>1. PICK containers \in UpToTwo(Containers), volumes \in SUBSET {"v", "w"},
             answered \in SUBSET {"v", "w"}, policy \in {"keep", "rename", "delete"} :
          /\ answered # {"v", "w"} => "unanswered_probe" \in Hazards
          /\ \E stopped \in SUBSET containers :
               question' = [kind |-> "containers_asked", before |-> containers, volumes |-> volumes,
                            answered |-> answered, policy |-> policy,
                            after |-> {[c EXCEPT !.running = @ /\ c \notin stopped] : c \in containers}]
    BY <1>5 DEF AskContainers
  <2>2. PICK stopped \in SUBSET containers :
          question' = [kind |-> "containers_asked", before |-> containers, volumes |-> volumes,
                       answered |-> answered, policy |-> policy,
                       after |-> After(containers, stopped)]
    BY <2>1 DEF After
  <2>3. containers \subseteq ContainersOver({"v", "w"})
    BY DEF UpToTwo, Containers, ContainersOver
  <2>4. volumes \subseteq answered
    BY <2>1
  <2>5. ContainerQuestion(question', {"v", "w"})
    <3>1. /\ question'.kind = "containers_asked" /\ question'.before = containers
          /\ question'.volumes = volumes /\ question'.answered = answered
          /\ question'.after = After(containers, stopped)
      BY <2>2
    <3> QED
      BY <2>3, <2>4, <3>1 DEF ContainerQuestion
  <2> QED
    BY <2>5 DEF ShapedQuestion
<1>6. CASE AskManifest
  <2>1. PICK mounts \in SeqUpTo(Mounts, 2), storages \in SeqUpTo(Storages, 2),
             existing \in SUBSET {OwnA, OwnB, Pinned} :
          /\ MountedVolumes(mounts) \subseteq existing
          /\ question' = [kind |-> "manifest_asked", mounts |-> mounts, storages |-> storages,
                          existing |-> existing]
    BY <1>6 DEF AskManifest
  <2>2. /\ \A n \in {OwnA, OwnB, Pinned, Named("anonymous", "", "a")} :
             n \in ManifestNames /\ n.of # "host"
        /\ \A n \in {HostPath("data"), HostPath("passthrough"), HostPath("tmp")} :
             n \in ManifestNames /\ n.of = "host"
    <3>1. \A of, sep, key : Named(of, sep, key).of = of
      BY DEF Named
    <3>2. /\ OwnA.of = "source" /\ OwnB.of = "source" /\ Pinned.of = "external"
          /\ \A key : HostPath(key).of = "host"
      BY <3>1 DEF OwnA, OwnB, Pinned, HostPath
    <3>3. Named("anonymous", "", "a").of = "anonymous"
      BY <3>1
    <3>4. \A n \in {OwnA, OwnB, Pinned, Named("anonymous", "", "a")} :
            n \in ManifestNames /\ n.of # "host"
      BY <3>2, <3>3 DEF ManifestNames
    <3>5. \A n \in {HostPath("data"), HostPath("passthrough"), HostPath("tmp")} :
            n \in ManifestNames /\ n.of = "host"
      BY <3>2 DEF ManifestNames
    <3> QED
      BY <3>4, <3>5
  <2>3. Mounts \subseteq MountsOver(ManifestNames, Paths)
    BY <2>2 DEF Mounts, MountsOver, Paths
  <2>4. Storages \subseteq StoragesOver(ManifestNames, Paths)
    BY <2>2 DEF Storages, StoragesOver, Paths
  <2>5. mounts \in Seq(MountsOver(ManifestNames, Paths))
    <3>1. PICK k \in 0 .. 2 : mounts \in [1 .. k -> Mounts]
      BY DEF SeqUpTo
    <3> QED
      BY <2>3, <3>1
  <2>6. storages \in Seq(StoragesOver(ManifestNames, Paths))
    <3>1. PICK k \in 0 .. 2 : storages \in [1 .. k -> Storages]
      BY DEF SeqUpTo
    <3> QED
      BY <2>4, <3>1
  <2>7. ManifestQuestion(question', ManifestNames, Paths)
    <3>1. /\ question'.kind = "manifest_asked" /\ question'.mounts = mounts
          /\ question'.storages = storages /\ question'.existing = existing
      BY <2>1
    <3> QED
      BY <2>1, <2>5, <2>6, <3>1 DEF ManifestQuestion
  <2> QED
    BY <2>7 DEF ShapedQuestion
<1>7. CASE AskCopy
  <2>1. PICK source \in Trees({"#c", "a", "b"}), parallel \in {1, 2, 3}, linked \in SUBSET {"#c", "a", "b"} :
          \E sizes \in [DOMAIN source.entries -> {0, 1, Large}] :
            /\ linked \subseteq DOMAIN source.entries /\ Cardinality(linked) # 1
            /\ question' = [kind |-> "copy_asked", source |-> source, sizes |-> sizes,
                            parallel |-> parallel, linked |-> linked]
    BY <1>7 DEF AskCopy
  <2>2. PICK names \in SUBSET {"#c", "a", "b"} : source \in [root : Metas, entries : [names -> Entries]]
    BY DEF Trees
  <2>3. PICK root \in Metas, entries \in [names -> Entries] : source = [root |-> root, entries |-> entries]
    BY <2>2
  <2>4. PICK sizes \in [names -> {0, 1, Large}] :
          /\ linked \subseteq names
          /\ question' = [kind |-> "copy_asked", source |-> source, sizes |-> sizes,
                          parallel |-> parallel, linked |-> linked]
    BY <2>1, <2>3
  <2>5. sizes \in [names -> Nat]
    BY LargeAssumption
  <2>6. CopyQuestion(question', names, Metas, Entries)
    <3>1. /\ question'.kind = "copy_asked" /\ question'.source = source /\ question'.sizes = sizes
          /\ question'.parallel = parallel /\ question'.linked = linked
      BY <2>4
    <3>2. parallel \in Nat \ {0}
      OBVIOUS
    <3> QED
      BY <2>3, <2>4, <2>5, <3>1, <3>2 DEF CopyQuestion
  <2> QED
    BY <2>6 DEF ShapedQuestion
<1>8. CASE AskCompare
  <2>1. PICK source \in Trees({"a", "b"}), target \in Trees({"a", "b"}) :
          question' = [kind |-> "compare_asked", source |-> source, target |-> target,
                       unreadable |-> {}]
    BY <1>8 DEF AskCompare
  <2>2. ASSUME NEW tree \in Trees({"a", "b"})
        PROVE  \E n \in SUBSET {"a", "b"} : tree \in TreesOf(Metas, n, Metas, {"directory", "x", "y"})
    BY DEF Trees, TreesOf, Entries
  <2>3. CompareQuestion(question', {"a", "b"}, Metas, Metas, {"directory", "x", "y"})
    <3>1. /\ question'.kind = "compare_asked" /\ question'.source = source
          /\ question'.target = target /\ question'.unreadable = {}
      BY <2>1
    <3>2. PICK n \in SUBSET {"a", "b"} : source \in TreesOf(Metas, n, Metas, {"directory", "x", "y"})
      BY <2>2
    <3>3. PICK m \in SUBSET {"a", "b"} : target \in TreesOf(Metas, m, Metas, {"directory", "x", "y"})
      BY <2>2
    <3>4. "." \notin {"a", "b"}
      OBVIOUS
    <3> QED
      BY <3>1, <3>2, <3>3, <3>4 DEF CompareQuestion
  <2> QED
    BY <2>3 DEF ShapedQuestion
<1>9. CASE AskEnv
  <2>1. EnvQuestion(question', EnvTokens)
    BY <1>9, EnvIsShaped
  <2> QED
    BY <2>1 DEF ShapedQuestion
<1>10. CASE AskVars
  <2>1. VarsQuestion(question', Vars!Keys)
    BY <1>10, VariablesAreShaped
  <2> QED
    BY <2>1 DEF ShapedQuestion
<1> QED
  BY <1>1, <1>2, <1>3, <1>4, <1>5, <1>6, <1>7, <1>8, <1>9, <1>10 DEF Next

\* Whatever is asked, all nine decisions are right (statemachine.py, dns/gate.py,
\* manifest.py, naming.py, partition.py, verify.py, schedules.py, steps.py,
\* env_recovery.py and locked_envs.py), where the nameservers answer for both record
\* types or for neither, Docker answers for every volume, every file can be hashed,
\* what is locked after PLAN is locked by CREATE and can be read back, and no legacy
\* literal ends in a line that is a key alone.
THEOREM DecisionsAreRight ==
  ASSUME "unanswered_probe" \notin Hazards, "partial_answers" \notin Hazards,
         "missing_hashes" \notin Hazards,
         "locked_since_plan" \notin Hazards, "locked_while_copying" \notin Hazards,
         "literal_ends_in_key" \notin Hazards
  PROVE  Spec => [](PlanPaysEveryDebt /\ DnsDecisionsAreProven /\ NothingLeftBehind /\ PairingIsFaithful
                     /\ CopyIsWhole /\ SchedulesAreExact /\ QuietMeansNoWriter /\ VariablesAreCarried
                     /\ LockedValuesAreExact)
<1> DEFINE Right ==
             PlanPaysEveryDebt /\ DnsDecisionsAreProven /\ NothingLeftBehind /\ PairingIsFaithful
               /\ CopyIsWhole /\ SchedulesAreExact /\ QuietMeansNoWriter /\ VariablesAreCarried
               /\ LockedValuesAreExact
<1>1. Init => ShapedQuestion
  BY DEF Init, ShapedQuestion
<1>2. ShapedQuestion /\ [Next]_question => ShapedQuestion'
  <2> SUFFICES ASSUME ShapedQuestion, [Next]_question
               PROVE  ShapedQuestion'
    OBVIOUS
  <2>1. CASE Next
    BY <2>1, QuestionsAreShaped
  <2>2. CASE UNCHANGED question
    BY <2>2 DEF ShapedQuestion
  <2> QED
    BY <2>1, <2>2
<1>3. ShapedQuestion => Right
  <2> SUFFICES ASSUME ShapedQuestion
               PROVE  Right
    OBVIOUS
  <2>1. question.kind # "rollback_asked" => PlanPaysEveryDebt
    BY DEF PlanPaysEveryDebt, PlanIgnoresRecordOrder, Asked
  <2>2. question.kind # "dns_asked" => DnsDecisionsAreProven
    BY DEF DnsDecisionsAreProven, PassesOnlyProven, CreateRefusesOnlyMoved, PlanForetellsElsewhere, Asked
  <2>3. question.kind # "pairing_asked" => PairingIsFaithful
    BY DEF PairingIsFaithful, PairsKeepIdentity, ResumeLoadsThePairs, GateRefusesNothingPairable, Asked
  <2>4. question.kind # "api_asked" => SchedulesAreExact
    BY DEF SchedulesAreExact, CopiedScheduleIsExact, BackupAtMostOnce, Asked
  <2>5. question.kind # "containers_asked" => QuietMeansNoWriter
    BY DEF QuietMeansNoWriter, Asked
  <2>6. RollbackQuestion(question) => PlanPaysEveryDebt
    BY EveryJournalIsPaid
  <2>7. DnsQuestion(question, {"S", "T", "B", "C"}) => DnsDecisionsAreProven
    BY DnsProves
  <2>8. PairingQuestion(question, {"a", "b"}, Paths) => PairingIsFaithful
    BY PairsAreFaithful
  <2>9. ApiQuestion(question, 2) => SchedulesAreExact
    <3>1. 2 \in Nat
      OBVIOUS
    <3> QED
      BY <3>1, SchedulesAreCopiedOnce
  <2>10. ContainerQuestion(question, {"v", "w"}) => QuietMeansNoWriter
    BY QuietHasNoWriter
  <2>11. /\ RollbackQuestion(question) => question.kind = "rollback_asked"
         /\ DnsQuestion(question, {"S", "T", "B", "C"}) => question.kind = "dns_asked"
         /\ PairingQuestion(question, {"a", "b"}, Paths) => question.kind = "pairing_asked"
         /\ ManifestQuestion(question, ManifestNames, Paths) => question.kind = "manifest_asked"
         /\ ApiQuestion(question, 2) => question.kind = "api_asked"
         /\ ContainerQuestion(question, {"v", "w"}) => question.kind = "containers_asked"
         /\ VarsQuestion(question, Vars!Keys) => question.kind = "vars_asked"
         /\ EnvQuestion(question, EnvTokens) => question.kind = "env_asked"
    BY DEF RollbackQuestion, DnsQuestion, PairingQuestion, ManifestQuestion, ApiQuestion, ContainerQuestion,
           VarsQuestion, EnvQuestion
  <2>12. question.kind \in Kinds =>
           question.kind \notin {"rollback_asked", "dns_asked", "pairing_asked", "api_asked",
                                "containers_asked", "manifest_asked", "vars_asked", "env_asked"}
    BY DEF Kinds
  <2>13. question.kind # "manifest_asked" => NothingLeftBehind
    BY DEF NothingLeftBehind, Asked
  <2>14. ManifestQuestion(question, ManifestNames, Paths) => NothingLeftBehind
    BY ManifestForgetsNothing
  <2>15. ASSUME question.kind \in Kinds \cup {"rollback_asked", "dns_asked", "manifest_asked",
                                              "pairing_asked", "api_asked", "env_asked",
                                              "vars_asked", "containers_asked"}
         PROVE  CopyIsWhole
    <3>1. question.kind \notin {"copy_asked", "compare_asked"}
      BY <2>15 DEF Kinds
    <3> QED
      BY <2>15, <3>1
         DEF CopyIsWhole, TypeOK, FreshCopyVerifies, LinksStayTogether, VerifiedMeansIdentical, Asked
  <2>16. ASSUME NEW names \in SUBSET {"#c", "a", "b"}, CopyQuestion(question, names, Metas, Entries)
         PROVE  CopyIsWhole /\ question.kind = "copy_asked"
    <3>1. IsFiniteSet(names)
      <4>1. {"#c", "a", "b"} = ({"#c"} \cup {"a"}) \cup {"b"}
        OBVIOUS
      <4>2. IsFiniteSet({"#c"})
        BY FS_Singleton
      <4>3. IsFiniteSet({"#c"} \cup {"a"})
        BY <4>2, FS_AddElement
      <4>4. IsFiniteSet(({"#c"} \cup {"a"}) \cup {"b"})
        BY <4>3, FS_AddElement
      <4> QED
        BY <4>1, <4>4, FS_Subset
    <3>2. CopyIsWhole
      BY <2>16, <3>1, SplitLosesNothing
    <3> QED
      BY <2>16, <3>2 DEF CopyQuestion
  <2>17. CompareQuestion(question, {"a", "b"}, Metas, Metas, {"directory", "x", "y"}) =>
           CopyIsWhole /\ question.kind = "compare_asked"
    BY VerifyMissesNothing DEF CompareQuestion
  <2>18. \/ question.kind \in Kinds
         \/ EnvQuestion(question, EnvTokens)
         \/ \E names \in SUBSET {"#c", "a", "b"} : CopyQuestion(question, names, Metas, Entries)
         \/ CompareQuestion(question, {"a", "b"}, Metas, Metas, {"directory", "x", "y"})
         \/ RollbackQuestion(question)
         \/ DnsQuestion(question, {"S", "T", "B", "C"})
         \/ PairingQuestion(question, {"a", "b"}, Paths)
         \/ ManifestQuestion(question, ManifestNames, Paths)
         \/ ApiQuestion(question, 2)
         \/ ContainerQuestion(question, {"v", "w"})
         \/ VarsQuestion(question, Vars!Keys)
    BY DEF ShapedQuestion
  <2>19. CopyIsWhole
    BY <2>11, <2>15, <2>16, <2>17, <2>18
  <2>20. PlanPaysEveryDebt /\ DnsDecisionsAreProven /\ NothingLeftBehind
    BY <2>1, <2>2, <2>6, <2>7, <2>11, <2>12, <2>13, <2>14, <2>16, <2>17, <2>18
  <2>21. PairingIsFaithful /\ SchedulesAreExact /\ QuietMeansNoWriter
    BY <2>3, <2>4, <2>5, <2>8, <2>9, <2>10, <2>11, <2>12, <2>16, <2>17, <2>18
  <2>22. question.kind # "vars_asked" => VariablesAreCarried
    BY DEF VariablesAreCarried, LockedStaysLocked, PreviewsStayApart, CarriedOrForetold, Asked
  <2>23. VarsQuestion(question, Vars!Keys) => VariablesAreCarried
    BY VariablesArrive
  <2>24. VariablesAreCarried
    BY <2>11, <2>12, <2>16, <2>17, <2>18, <2>22, <2>23
  <2>25. question.kind # "env_asked" => LockedValuesAreExact
    BY DEF LockedValuesAreExact, RecoveredIsExact, ExactRowsAreRecovered, Asked
  <2>26. EnvQuestion(question, EnvTokens) => LockedValuesAreExact
    BY LockedValuesArrive
  <2>27. LockedValuesAreExact
    BY <2>11, <2>12, <2>16, <2>17, <2>18, <2>25, <2>26
  <2> QED
    BY <2>19, <2>20, <2>21, <2>24, <2>27
<1> HIDE DEF Right
<1>4. Spec => []Right
  BY <1>1, <1>2, <1>3, PTL DEF Spec
<1> QED
  BY <1>4 DEF Right

=============================================================================
