--------------------------- MODULE RuleStoreProofs ---------------------------
(***************************************************************************)
(* Proofs about RuleStore, for every set of rules, versions, payloads and  *)
(* files, with or without faults.                                          *)
(***************************************************************************)
EXTENDS RuleStore, SequenceTheorems, WellFoundedInduction, TLAPS

-----------------------------------------------------------------------------
(* Lists of rules.                                                         *)

\* < on the naturals, as a set of pairs, is well-founded.
LEMMA LessThanIsWellFounded ==
  IsWellFoundedOn({ss \in Nat \X Nat : ss[1] < ss[2]}, Nat)
BY NatLessThanWellFounded DEF OpToRel

\* A non-empty set of naturals has a least element ...
LEMMA LeastOfNats ==
  ASSUME NEW I \in SUBSET Nat, I # {}
  PROVE  \E m \in I : \A j \in I : m <= j
<1> DEFINE R == {ss \in Nat \X Nat : ss[1] < ss[2]}
<1>1. PICK m \in I : \A j \in I : <<j, m>> \notin R
  <2> HIDE DEF R
  <2> QED
    BY LessThanIsWellFounded, WFMin, Zenon DEF R
<1>2. ASSUME NEW j \in I
      PROVE  m <= j
  <2>1. <<j, m>> \in Nat \X Nat
    OBVIOUS
  <2>2. ~ (j < m)
    BY <1>1, <2>1
  <2> QED
    BY <2>2
<1> QED
  BY <1>2

\* ... which is the one that Min chooses.
LEMMA MinOfNats ==
  ASSUME NEW I \in SUBSET Nat, I # {}
  PROVE  Min(I) \in I
BY LeastOfNats DEF Min

\* Without(s, r) is s, or s with one rule named r cut out.
LEMMA WithoutShape ==
  ASSUME NEW s \in Seq(Entry), NEW r, Holds(s, r)
  PROVE  \E k \in DOMAIN s :
            /\ s[k].id = r
            /\ Without(s, r) \in Seq(Entry)
            /\ Len(Without(s, r)) = Len(s) - 1
            /\ \A i \in 1..(Len(s) - 1) :
                 Without(s, r)[i] = IF i < k THEN s[i] ELSE s[i + 1]
<1> DEFINE I == {i \in DOMAIN s : s[i].id = r}
           k == Min(I)
           a == SubSeq(s, 1, k - 1)
           b == SubSeq(s, k + 1, Len(s))
<1>1. I # {} /\ I \in SUBSET Nat
  BY DEF Holds
<1>2. k \in I
  BY <1>1, MinOfNats
<1>3. Without(s, r) = a \o b
  BY DEF Without, RemoveAt
<1> HIDE DEF k
<1>4. k \in 1..Len(s) /\ s[k].id = r /\ Len(s) \in Nat
  BY <1>2
<1>5. /\ a \in Seq(Entry) /\ Len(a) = k - 1
      /\ \A i \in 1..(k - 1) : a[i] = s[i]
  BY <1>4
<1>6. /\ b \in Seq(Entry) /\ Len(b) = Len(s) - k
      /\ \A i \in 1..(Len(s) - k) : b[i] = s[k + i]
  BY <1>4
<1> HIDE DEF a, b
<1>7. /\ a \o b \in Seq(Entry) /\ Len(a \o b) = Len(s) - 1
      /\ \A i \in 1..(Len(s) - 1) : (a \o b)[i] = IF i < k THEN s[i] ELSE s[i + 1]
  <2>1. /\ a \o b \in Seq(Entry) /\ Len(a \o b) = Len(a) + Len(b)
        /\ \A i \in 1..(Len(a) + Len(b)) :
             (a \o b)[i] = IF i <= Len(a) THEN a[i] ELSE b[i - Len(a)]
    BY <1>5, <1>6, ConcatProperties
  <2>2. Len(a) + Len(b) = Len(s) - 1
    BY <1>4, <1>5, <1>6
  <2>3. ASSUME NEW i \in 1..(Len(s) - 1)
        PROVE  (a \o b)[i] = IF i < k THEN s[i] ELSE s[i + 1]
    <3>1. (a \o b)[i] = IF i <= Len(a) THEN a[i] ELSE b[i - Len(a)]
      BY <2>1, <2>2
    <3>2. CASE i < k
      <4>1. i \in 1..(k - 1) /\ i <= Len(a)
        BY <3>2, <1>4, <1>5
      <4> QED
        BY <4>1, <3>1, <3>2, <1>5
    <3>3. CASE ~ (i < k)
      <4>1. /\ ~ (i <= Len(a))
            /\ i - Len(a) \in 1..(Len(s) - k)
            /\ k + (i - Len(a)) = i + 1
        BY <3>3, <1>4, <1>5
      <4>2. b[i - Len(a)] = s[k + (i - Len(a))]
        BY <4>1, <1>6
      <4> QED
        BY <4>1, <4>2, <3>1, <3>3
    <3> QED
      BY <3>2, <3>3
  <2> QED
    BY <2>1, <2>2, <2>3
<1>8. k \in DOMAIN s
  BY <1>4
<1> HIDE DEF I
<1> QED
  BY <1>3, <1>4, <1>7, <1>8

\* No two rules of one name.
Unique(s) == \A i, j \in DOMAIN s : s[i].id = s[j].id => i = j

\* A rule of another name survives.
LEMMA WithoutKeepsOthers ==
  ASSUME NEW s \in Seq(Entry), NEW r, NEW j \in DOMAIN s, s[j].id # r
  PROVE  \E i \in DOMAIN Without(s, r) : Without(s, r)[i] = s[j]
<1>1. CASE ~ Holds(s, r)
  BY <1>1 DEF Without
<1>2. CASE Holds(s, r)
  <2>0. PICK k \in DOMAIN s :
            /\ s[k].id = r
            /\ Without(s, r) \in Seq(Entry)
            /\ Len(Without(s, r)) = Len(s) - 1
            /\ \A i \in 1..(Len(s) - 1) :
                 Without(s, r)[i] = IF i < k THEN s[i] ELSE s[i + 1]
    BY <1>2, WithoutShape
  <2>1. DOMAIN Without(s, r) = 1..(Len(s) - 1)
    BY <2>0
  <2>2. j < k => j \in 1..(Len(s) - 1) /\ Without(s, r)[j] = s[j]
    BY <2>0
  <2>3. j > k => j - 1 \in 1..(Len(s) - 1) /\ Without(s, r)[j - 1] = s[j]
    BY <2>0
  <2> QED
    BY <2>0, <2>1, <2>2, <2>3
<1> QED
  BY <1>1, <1>2

\* What Without returns: rules of s, no two of one name (and none named r) when
\* s had no two.
LEMMA WithoutFacts ==
  ASSUME NEW s \in Seq(Entry), NEW r
  PROVE  /\ Without(s, r) \in Seq(Entry)
         /\ \A i \in DOMAIN Without(s, r) :
              \E j \in DOMAIN s : Without(s, r)[i] = s[j]
         /\ Unique(s) => Unique(Without(s, r)) /\ ~ Holds(Without(s, r), r)
<1>1. CASE ~ Holds(s, r)
  BY <1>1 DEF Without, Unique
<1>2. CASE Holds(s, r)
  <2>0. PICK k \in DOMAIN s :
            /\ s[k].id = r
            /\ Without(s, r) \in Seq(Entry)
            /\ Len(Without(s, r)) = Len(s) - 1
            /\ \A i \in 1..(Len(s) - 1) :
                 Without(s, r)[i] = IF i < k THEN s[i] ELSE s[i + 1]
    BY <1>2, WithoutShape
  <2> DEFINE w == Without(s, r)
  <2> HIDE DEF w
  <2>1. /\ w \in Seq(Entry) /\ DOMAIN w = 1..(Len(s) - 1) /\ DOMAIN s = 1..Len(s)
        /\ k \in 1..Len(s) /\ s[k].id = r /\ Len(s) \in Nat
        /\ \A i \in 1..(Len(s) - 1) : w[i] = IF i < k THEN s[i] ELSE s[i + 1]
    BY <2>0 DEF w
  <2>2. \A i \in DOMAIN w : \E j \in DOMAIN s : w[i] = s[j]
    <3>1. ASSUME NEW i \in DOMAIN w PROVE \E j \in DOMAIN s : w[i] = s[j]
      <4>1. i \in 1..(Len(s) - 1) /\ i \in DOMAIN s /\ i + 1 \in DOMAIN s
        BY ONLY <2>1, i \in DOMAIN w
      <4> QED BY ONLY <2>1, <4>1
    <3> QED BY <3>1
  <2>3. Unique(s) => Unique(w) /\ ~ Holds(w, r)
    <3>1. SUFFICES ASSUME Unique(s)
                   PROVE  Unique(w) /\ ~ Holds(w, r)
      OBVIOUS
    <3> DEFINE at(i) == IF i < k THEN i ELSE i + 1
    <3>2. \A i \in DOMAIN w : at(i) \in DOMAIN s /\ w[i] = s[at(i)] /\ at(i) # k
      BY <2>1
    <3>3. ASSUME NEW i \in DOMAIN w, NEW j \in DOMAIN w, w[i].id = w[j].id
          PROVE  i = j
      <4>1. at(i) = at(j)
        BY <3>1, <3>2, <3>3 DEF Unique
      <4> QED
        BY <2>1, <4>1
    <3>4. \A i \in DOMAIN w : w[i].id # r
      BY <2>1, <3>1, <3>2 DEF Unique
    <3> QED
      BY <3>3, <3>4 DEF Unique, Holds
  <2> QED
    BY <2>1, <2>2, <2>3 DEF w
<1> QED
  BY <1>1, <1>2

\* Every rule of s is a rule of m.
Within(s, m) == \A i \in DOMAIN s : \E j \in DOMAIN m : m[j] = s[i]

\* Storing a rule keeps the two lists well-formed and consistent.
LEMMA StoredFacts ==
  ASSUME NEW s \in Seq(Entry), NEW m \in Seq(Entry), NEW e \in Entry,
         Unique(s), Within(s, m)
  PROVE  /\ StoredInMemory(s, e) \in Seq(Entry)
         /\ StoredInMirror(m, s, e) \in Seq(Entry)
         /\ Unique(StoredInMemory(s, e))
         /\ Within(StoredInMemory(s, e), StoredInMirror(m, s, e))
<1> DEFINE w == Without(s, e.id)
           n == IF Holds(s, e.id) THEN Without(m, e.id) ELSE m
<1>1. w \in Seq(Entry) /\ Unique(w) /\ ~ Holds(w, e.id)
  BY WithoutFacts
<1>2. n \in Seq(Entry)
  BY WithoutFacts
<1>3. Within(w, n)
  <2>1. SUFFICES ASSUME NEW i \in DOMAIN w
                 PROVE  \E j \in DOMAIN n : n[j] = w[i]
    BY DEF Within
  <2>2. w[i].id # e.id
    BY <1>1, <2>1 DEF Holds
  <2>3. PICK k \in DOMAIN s : w[i] = s[k]
    BY <2>1, WithoutFacts
  <2>4. PICK l \in DOMAIN m : m[l] = s[k]
    BY <2>3 DEF Within
  <2>5. CASE Holds(s, e.id)
    <3>1. m[l].id # e.id
      BY <2>2, <2>3, <2>4
    <3>2. PICK j \in DOMAIN Without(m, e.id) : Without(m, e.id)[j] = m[l]
      BY <3>1, WithoutKeepsOthers, SMTT(30)
    <3> QED
      BY <2>3, <2>4, <2>5, <3>2
  <2>6. CASE ~ Holds(s, e.id)
    BY <2>3, <2>4, <2>6
  <2> QED
    BY <2>5, <2>6
<1> HIDE DEF w, n
<1>4. /\ Append(w, e) \in Seq(Entry) /\ DOMAIN Append(w, e) = 1..(Len(w) + 1)
      /\ \A i \in 1..Len(w) : Append(w, e)[i] = w[i]
      /\ Append(w, e)[Len(w) + 1] = e
  BY <1>1
<1>5. /\ Append(n, e) \in Seq(Entry) /\ DOMAIN Append(n, e) = 1..(Len(n) + 1)
      /\ \A i \in 1..Len(n) : Append(n, e)[i] = n[i]
      /\ Append(n, e)[Len(n) + 1] = e
  BY <1>2
<1>6. Len(w) \in Nat /\ Len(n) \in Nat /\ DOMAIN w = 1..Len(w) /\ DOMAIN n = 1..Len(n)
  BY <1>1, <1>2
<1>7. Unique(Append(w, e))
  BY <1>1, <1>4, <1>6 DEF Unique, Holds
<1>8. Within(w, Append(n, e)) /\ Within(Append(w, e), Append(n, e))
  <2>1. ASSUME NEW i \in 1..Len(w)
        PROVE  \E j \in DOMAIN Append(n, e) : Append(n, e)[j] = w[i]
    <3>1. PICK j \in 1..Len(n) : n[j] = w[i]
      BY <1>3, <1>6 DEF Within
    <3>2. j \in 1..(Len(n) + 1) /\ Append(n, e)[j] = w[i]
      BY <1>5, <1>6, <3>1
    <3> QED
      BY <1>5, <3>2
  <2>2. Len(n) + 1 \in DOMAIN Append(n, e)
    BY <1>5, <1>6
  <2>3. Within(w, Append(n, e))
    BY <1>6, <2>1 DEF Within
  <2>4. ASSUME NEW i \in 1..(Len(w) + 1)
        PROVE  \E j \in DOMAIN Append(n, e) : Append(n, e)[j] = Append(w, e)[i]
    <3>1. CASE i \in 1..Len(w)
      BY <1>4, <2>1, <3>1
    <3>2. CASE i = Len(w) + 1
      BY <1>4, <1>5, <2>2, <3>2
    <3> QED
      BY <1>6, <3>1, <3>2
  <2> QED
    BY <1>4, <2>3, <2>4 DEF Within
<1> QED
  BY <1>1, <1>4, <1>5, <1>7, <1>8 DEF StoredInMemory, StoredInMirror, w, n

\* Deleting a rule from both lists keeps them consistent.
LEMMA DeletedFacts ==
  ASSUME NEW s \in Seq(Entry), NEW m \in Seq(Entry), NEW r,
         Unique(s), Within(s, m)
  PROVE  Within(Without(s, r), Without(m, r))
<1>1. SUFFICES ASSUME NEW i \in DOMAIN Without(s, r)
               PROVE  \E j \in DOMAIN Without(m, r) : Without(m, r)[j] = Without(s, r)[i]
  BY DEF Within
<1>2. Without(s, r)[i].id # r
  BY <1>1, WithoutFacts DEF Holds
<1>3. PICK k \in DOMAIN s : Without(s, r)[i] = s[k]
  BY <1>1, WithoutFacts
<1>4. PICK l \in DOMAIN m : m[l] = s[k]
  BY <1>3 DEF Within
<1>5. PICK j \in DOMAIN Without(m, r) : Without(m, r)[j] = m[l]
  <2>1. m[l].id # r
    BY <1>2, <1>3, <1>4
  <2> QED
    BY <2>1, WithoutKeepsOthers
<1> QED
  BY <1>3, <1>4, <1>5

-----------------------------------------------------------------------------
(* The inductive invariant.                                                *)

\* The inductive invariant of the rule store.
IInv == TypeOK /\ LockMatchesSections /\ UniqueIds /\ MemoryInMirror

\* The program starts with empty lists and a free mutex.
LEMMA InitIInv == Init => IInv
<1>1. SUFFICES ASSUME Init PROVE IInv
  OBVIOUS
<1>2. TypeOK
  <2>1. file \in File
    BY <1>1, StoreAssumption DEF Init
  <2>2. <<>> \in Seq(Entry)
    OBVIOUS
  <2>3. pc \in [Threads -> PCs] /\ todo \in [Threads -> Seq(Entry)]
    BY <1>1, <2>2 DEF Init, PCs
  <2> QED
    BY <1>1, <2>1, <2>2, <2>3 DEF Init, TypeOK
<1>3. LockMatchesSections
  BY <1>1 DEF Init, LockMatchesSections, Critical, Threads, NoThread
<1>4. UniqueIds /\ MemoryInMirror
  BY <1>1 DEF Init, UniqueIds, MemoryInMirror
<1> QED
  BY <1>2, <1>3, <1>4 DEF IInv

\* Every step keeps the types.
LEMMA TypeStep == IInv /\ [Next]_vars => TypeOK'
<1> SUFFICES ASSUME IInv, [Next]_vars
             PROVE  TypeOK'
  OBVIOUS
<1> USE DEF IInv
<1>1. ASSUME NEW t \in Threads, LockToParse(t)
      PROVE  TypeOK'
  BY <1>1 DEF LockToParse, TypeOK, PCs, Threads, NoThread
<1>2. ASSUME NEW t \in Threads, StopParse(t)
      PROVE  TypeOK'
  BY <1>2 DEF StopParse, TypeOK, PCs, Threads, NoThread
<1>3. ASSUME NEW t \in Threads, SkipRule(t)
      PROVE  TypeOK'
  BY <1>3 DEF SkipRule, TypeOK, PCs, Threads, NoThread
<1>4. ASSUME NEW t \in Threads, StoreRule(t)
      PROVE  TypeOK'
  <2>1. Head(todo[t]) \in Entry /\ Tail(todo[t]) \in Seq(Entry)
    BY <1>4 DEF StoreRule, TypeOK
  <2>2. memory' \in Seq(Entry) /\ mirror' \in Seq(Entry)
    BY <1>4, <2>1, StoredFacts
       DEF StoreRule, TypeOK, UniqueIds, MemoryInMirror, Unique, Within
  <2>3. todo' \in [Threads -> Seq(Entry)]
    BY <1>4, <2>1 DEF StoreRule, TypeOK
  <2> QED
    BY <1>4, <2>2, <2>3 DEF StoreRule, TypeOK
<1>5. CASE ParsedAll
  BY <1>5 DEF ParsedAll, TypeOK, PCs, Threads, NoThread
<1>6. CASE SkipSave
  BY <1>6 DEF SkipSave, AfterSave, TypeOK, PCs, Threads, NoThread
<1>7. CASE OpenFile
  <2>1. file' \in File
    BY <1>7 DEF OpenFile, File
  <2> QED
    BY <1>7, <2>1 DEF OpenFile, TypeOK, PCs, Threads
<1>8. CASE WriteFile
  <2>1. file' \in File
    BY <1>8 DEF WriteFile, File, TypeOK
  <2> QED
    BY <1>8, <2>1 DEF WriteFile, AfterSave, TypeOK, PCs, Threads, NoThread
<1>9. CASE PropertiesReply
  BY <1>9 DEF PropertiesReply, AfterSave, TypeOK, PCs, Threads, NoThread
<1>10. CASE LockToDelete
  BY <1>10 DEF LockToDelete, TypeOK, PCs, Threads, NoThread
<1>11. ASSUME NEW r \in RuleIds, DeleteRule(r)
      PROVE  TypeOK'
  BY <1>11, WithoutFacts DEF DeleteRule, TypeOK
<1>12. CASE DeletedAll
  BY <1>12 DEF DeletedAll, TypeOK, PCs, Threads, NoThread
<1>13. CASE ConfigReply
  BY <1>13 DEF ConfigReply, TypeOK, PCs, Threads, NoThread
<1>14. CASE LoadNothing
  BY <1>14 DEF LoadNothing, TypeOK, PCs, Threads, NoThread
<1>15. CASE LoadFile
  BY <1>15 DEF LoadFile, TypeOK, PCs, Threads, File
<1>16. CASE LoadedAll
  BY <1>16 DEF LoadedAll, TypeOK, PCs, Threads, NoThread
<1>17. ASSUME NEW p \in Payloads, RuleMgr_Parse(p)
      PROVE  TypeOK'
  BY <1>17, StoreAssumption DEF RuleMgr_Parse, TypeOK, PCs, Threads, NoThread
<1>18. ASSUME NEW s \in Shadows, RuleTrans_DeviceRuleUpdate(s)
      PROVE  TypeOK'
  <2>1. DOMAIN s \subseteq RuleIds
    BY StoreAssumption DEF Shadow
  <2> QED
    BY <1>18, <2>1 DEF RuleTrans_DeviceRuleUpdate, TypeOK, PCs, Threads
<1>19. CASE EnableStorage
  BY <1>19 DEF EnableStorage, TypeOK, PCs, Threads, NoThread
<1>20. CASE Restart
  <2>1. <<>> \in Seq(Entry)
    OBVIOUS
  <2>2. pc' \in [Threads -> PCs] /\ todo' \in [Threads -> Seq(Entry)]
    BY <1>20, <2>1 DEF Restart, PCs
  <2> QED
    BY <1>20, <2>1, <2>2 DEF Restart, TypeOK, NoThread
<1>21. CASE UNCHANGED vars
  BY <1>21 DEF vars, TypeOK, PCs, Threads, NoThread
<1> QED
  BY <1>1, <1>2, <1>3, <1>4, <1>5, <1>6, <1>7, <1>8, <1>9, <1>10, <1>11, <1>12,
     <1>13, <1>14, <1>15, <1>16, <1>17, <1>18, <1>19, <1>20, <1>21
     DEF Next, MqttStep, AppStep, Threads

\* Every step keeps the mutex and the critical sections in agreement.
LEMMA LockStep == IInv /\ [Next]_vars => LockMatchesSections'
<1> SUFFICES ASSUME IInv, [Next]_vars
             PROVE  LockMatchesSections'
  OBVIOUS
<1> USE DEF IInv
<1>1. ASSUME NEW t \in Threads, LockToParse(t)
      PROVE  LockMatchesSections'
  BY <1>1 DEF LockToParse, LockMatchesSections, Critical, TypeOK, Threads, NoThread
<1>2. ASSUME NEW t \in Threads, StopParse(t)
      PROVE  LockMatchesSections'
  BY <1>2 DEF StopParse, LockMatchesSections, Critical, TypeOK, Threads, NoThread
<1>3. ASSUME NEW t \in Threads, SkipRule(t)
      PROVE  LockMatchesSections'
  BY <1>3 DEF SkipRule, LockMatchesSections, Critical, TypeOK, Threads, NoThread
<1>4. ASSUME NEW t \in Threads, StoreRule(t)
      PROVE  LockMatchesSections'
  BY <1>4 DEF StoreRule, LockMatchesSections, Critical, TypeOK, Threads, NoThread
<1>5. CASE ParsedAll
  BY <1>5 DEF ParsedAll, LockMatchesSections, Critical, TypeOK, Threads, NoThread
<1>6. CASE SkipSave
  BY <1>6 DEF SkipSave, AfterSave, LockMatchesSections, Critical, TypeOK, Threads, NoThread
<1>7. CASE OpenFile
  BY <1>7 DEF OpenFile, LockMatchesSections, Critical, TypeOK, Threads, NoThread
<1>8. CASE WriteFile
  BY <1>8 DEF WriteFile, AfterSave, LockMatchesSections, Critical, TypeOK, Threads, NoThread
<1>9. CASE PropertiesReply
  BY <1>9 DEF PropertiesReply, AfterSave, LockMatchesSections, Critical, TypeOK, Threads, NoThread
<1>10. CASE LockToDelete
  BY <1>10 DEF LockToDelete, LockMatchesSections, Critical, TypeOK, Threads, NoThread
<1>11. ASSUME NEW r \in RuleIds, DeleteRule(r)
      PROVE  LockMatchesSections'
  BY <1>11 DEF DeleteRule, LockMatchesSections, Critical, TypeOK, Threads, NoThread
<1>12. CASE DeletedAll
  BY <1>12 DEF DeletedAll, LockMatchesSections, Critical, TypeOK, Threads, NoThread
<1>13. CASE ConfigReply
  BY <1>13 DEF ConfigReply, LockMatchesSections, Critical, TypeOK, Threads, NoThread
<1>14. CASE LoadNothing
  BY <1>14 DEF LoadNothing, LockMatchesSections, Critical, TypeOK, Threads, NoThread
<1>15. CASE LoadFile
  BY <1>15 DEF LoadFile, LockMatchesSections, Critical, TypeOK, Threads, NoThread
<1>16. CASE LoadedAll
  BY <1>16 DEF LoadedAll, LockMatchesSections, Critical, TypeOK, Threads, NoThread
<1>17. ASSUME NEW p \in Payloads, RuleMgr_Parse(p)
      PROVE  LockMatchesSections'
  BY <1>17 DEF RuleMgr_Parse, LockMatchesSections, Critical, TypeOK, Threads, NoThread
<1>18. ASSUME NEW s \in Shadows, RuleTrans_DeviceRuleUpdate(s)
      PROVE  LockMatchesSections'
  BY <1>18 DEF RuleTrans_DeviceRuleUpdate, LockMatchesSections, Critical, TypeOK, Threads, NoThread
<1>19. CASE EnableStorage
  BY <1>19 DEF EnableStorage, LockMatchesSections, Critical, TypeOK, Threads, NoThread
<1>20. CASE Restart
  BY <1>20 DEF Restart, LockMatchesSections, Critical, TypeOK, Threads, NoThread
<1>21. CASE UNCHANGED vars
  BY <1>21 DEF vars, LockMatchesSections, Critical, TypeOK, Threads, NoThread
<1> QED
  BY <1>1, <1>2, <1>3, <1>4, <1>5, <1>6, <1>7, <1>8, <1>9, <1>10, <1>11, <1>12,
     <1>13, <1>14, <1>15, <1>16, <1>17, <1>18, <1>19, <1>20, <1>21
     DEF Next, MqttStep, AppStep, Threads

\* Every step keeps g_ruleInfosList free of duplicates and within the JSON text.
LEMMA ListsStep == IInv /\ [Next]_vars => UniqueIds' /\ MemoryInMirror'
<1> SUFFICES ASSUME IInv, [Next]_vars
             PROVE  UniqueIds' /\ MemoryInMirror'
  OBVIOUS
<1>1. Unique(memory) /\ Within(memory, mirror)
  BY DEF IInv, UniqueIds, MemoryInMirror, Unique, Within
<1>2. memory \in Seq(Entry) /\ mirror \in Seq(Entry)
  BY DEF IInv, TypeOK
<1>3. SUFFICES Unique(memory)' /\ Within(memory, mirror)'
  BY DEF UniqueIds, MemoryInMirror, Unique, Within
<1>4. ASSUME NEW t \in Threads, StoreRule(t)
      PROVE  Unique(memory)' /\ Within(memory, mirror)'
  <2>1. Head(todo[t]) \in Entry
    BY <1>4 DEF StoreRule, IInv, TypeOK
  <2> QED
    BY <1>1, <1>2, <1>4, <2>1, StoredFacts DEF StoreRule
<1>5. ASSUME NEW r \in RuleIds, DeleteRule(r)
      PROVE  Unique(memory)' /\ Within(memory, mirror)'
  BY <1>1, <1>2, <1>5, WithoutFacts, DeletedFacts DEF DeleteRule
<1>6. CASE Restart
  BY <1>6 DEF Restart, Unique, Within
<1>7. CASE UNCHANGED <<memory, mirror>>
  BY <1>1, <1>7 DEF Unique, Within
<1> QED
  BY <1>4, <1>5, <1>6, <1>7
     DEF Next, MqttStep, AppStep, Threads, vars, LockToParse, StopParse, SkipRule,
         ParsedAll, SkipSave, OpenFile, WriteFile, PropertiesReply, LockToDelete,
         DeletedAll, ConfigReply, LoadNothing, LoadFile, LoadedAll, RuleMgr_Parse,
         RuleTrans_DeviceRuleUpdate, EnableStorage

\* The inductive invariant holds in every state.
THEOREM Invariant == Spec => []IInv
<1>1. IInv /\ [Next]_vars => IInv'
  BY TypeStep, LockStep, ListsStep DEF IInv
<1> QED
  BY <1>1, InitIInv, PTL DEF Spec

\* The store's variables keep their types.
THEOREM TypeCorrect == Spec => []TypeOK
<1>1. IInv => TypeOK
  BY DEF IInv
<1> QED
  BY <1>1, Invariant, PTL

\* The mutex is held exactly by the thread that is in a critical section: each
\* path through the save and through the parser unlocks, and the two threads
\* exclude each other.
THEOREM MutexMatchesSections == Spec => []LockMatchesSections
<1>1. IInv => LockMatchesSections
  BY DEF IInv
<1> QED
  BY <1>1, Invariant, PTL

\* g_ruleInfosList never holds two rules of one name.
THEOREM NoDuplicateRules == Spec => []UniqueIds
<1>1. IInv => UniqueIds
  BY DEF IInv
<1> QED
  BY <1>1, Invariant, PTL

\* Every rule in force is in the JSON text the next save writes.
THEOREM NextSaveIsComplete == Spec => []MemoryInMirror
<1>1. IInv => MemoryInMirror
  BY DEF IInv
<1> QED
  BY <1>1, Invariant, PTL

-----------------------------------------------------------------------------
(* The store implements the versioned map.                                 *)

\* HeldVersions, of any list.
HeldIn(s) ==
  [r \in RuleIds |-> IF Holds(s, r)
                     THEN s[CHOOSE i \in DOMAIN s : s[i].id = r].ver
                     ELSE NoRule]

\* Without duplicates, the version in force of a rule is that of its one entry.
LEMMA HeldEntry ==
  ASSUME NEW s \in Seq(Entry), Unique(s), NEW i \in DOMAIN s
  PROVE  HeldIn(s)[s[i].id] = s[i].ver
<1> DEFINE k == CHOOSE j \in DOMAIN s : s[j].id = s[i].id
<1>1. k \in DOMAIN s /\ s[k].id = s[i].id
  OBVIOUS
<1>2. k = i
  BY <1>1 DEF Unique
<1>3. s[i].id \in RuleIds /\ Holds(s, s[i].id)
  <2>1. s[i] \in Entry
    OBVIOUS
  <2>2. s[i].id \in RuleIds
    BY <2>1 DEF Entry
  <2> QED
    BY <2>2 DEF Holds
<1> HIDE DEF k
<1>4. HeldIn(s)[s[i].id] = s[k].ver
  BY <1>3 DEF HeldIn, k
<1> QED
  BY <1>2, <1>4

\* Removing a rule forgets it and nothing else.
LEMMA HeldWithout ==
  ASSUME NEW s \in Seq(Entry), Unique(s), NEW r \in RuleIds
  PROVE  HeldIn(Without(s, r)) = [HeldIn(s) EXCEPT ![r] = NoRule]
<1> DEFINE w == Without(s, r)
<1>1. /\ w \in Seq(Entry) /\ Unique(w) /\ ~ Holds(w, r)
      /\ \A i \in DOMAIN w : \E j \in DOMAIN s : w[i] = s[j]
  BY WithoutFacts
<1>2. ASSUME NEW q \in RuleIds
      PROVE  HeldIn(w)[q] = [HeldIn(s) EXCEPT ![r] = NoRule][q]
  <2>1. CASE q = r
    BY <1>1, <2>1 DEF HeldIn
  <2>2. CASE q # r /\ Holds(s, q)
    <3>1. PICK i \in DOMAIN s : s[i].id = q
      BY <2>2 DEF Holds
    <3>2. PICK j \in DOMAIN w : w[j] = s[i]
      BY <2>2, <3>1, WithoutKeepsOthers
    <3>3. HeldIn(s)[q] = s[i].ver /\ HeldIn(w)[q] = w[j].ver
      BY <1>1, <3>1, <3>2, HeldEntry
    <3> HIDE DEF w
    <3> QED
      BY <2>2, <3>2, <3>3 DEF HeldIn
  <2>3. CASE q # r /\ ~ Holds(s, q)
    <3>1. ~ Holds(w, q)
      BY <1>1, <2>3 DEF Holds
    <3> HIDE DEF w
    <3> QED
      BY <2>3, <3>1 DEF HeldIn
  <2> QED
    BY <2>1, <2>2, <2>3
<1> QED
  BY <1>2 DEF HeldIn

\* Appending a rule of a new name installs its version and nothing else.
LEMMA HeldAppended ==
  ASSUME NEW s \in Seq(Entry), Unique(s), NEW e \in Entry, ~ Holds(s, e.id)
  PROVE  HeldIn(Append(s, e)) = [HeldIn(s) EXCEPT ![e.id] = e.ver]
<1> DEFINE w == Append(s, e)
<1>1. /\ w \in Seq(Entry) /\ DOMAIN w = 1..(Len(s) + 1) /\ DOMAIN s = 1..Len(s)
      /\ Len(s) \in Nat
      /\ \A i \in 1..Len(s) : w[i] = s[i]
      /\ w[Len(s) + 1] = e
      /\ e.id \in RuleIds
  BY DEF Entry
<1> HIDE DEF w
<1>2. Unique(w)
  BY <1>1 DEF Unique, Holds
<1>3. ASSUME NEW q \in RuleIds
      PROVE  HeldIn(w)[q] = [HeldIn(s) EXCEPT ![e.id] = e.ver][q]
  <2>1. CASE q = e.id
    <3>1. Len(s) + 1 \in DOMAIN w
      BY <1>1
    <3>2. HeldIn(w)[w[Len(s) + 1].id] = w[Len(s) + 1].ver
      BY <1>1, <1>2, <3>1, HeldEntry
    <3> QED
      BY <1>1, <2>1, <3>2 DEF HeldIn
  <2>2. CASE q # e.id /\ Holds(s, q)
    <3>1. PICK i \in DOMAIN s : s[i].id = q
      BY <2>2 DEF Holds
    <3>2. i \in DOMAIN w /\ w[i] = s[i]
      BY <1>1, <3>1
    <3>3. HeldIn(s)[q] = s[i].ver /\ HeldIn(w)[q] = w[i].ver
      BY <1>1, <1>2, <3>1, <3>2, HeldEntry
    <3> QED
      BY <2>2, <3>2, <3>3 DEF HeldIn
  <2>3. CASE q # e.id /\ ~ Holds(s, q)
    <3>1. ~ Holds(w, q)
      BY <1>1, <2>3 DEF Holds
    <3> QED
      BY <2>3, <3>1 DEF HeldIn
  <2> QED
    BY <2>1, <2>2, <2>3
<1> QED
  BY <1>3 DEF HeldIn, w

\* The version of a rule that is neither held nor outdated may be installed.
LEMMA NotOutdated ==
  ASSUME NEW s \in Seq(Entry), NEW e \in Entry, ~ Outdated(s, e)
  PROVE  HeldIn(s)[e.id] = NoRule \/ e.ver > HeldIn(s)[e.id]
<1>1. e.id \in RuleIds /\ e.ver \in Int
  BY StoreAssumption DEF Entry
<1>2. CASE ~ Holds(s, e.id)
  BY <1>1, <1>2 DEF HeldIn
<1>3. CASE Holds(s, e.id)
  <2> DEFINE k == CHOOSE j \in DOMAIN s : s[j].id = e.id
  <2>1. k \in DOMAIN s /\ s[k].id = e.id
    BY <1>3 DEF Holds
  <2> HIDE DEF k
  <2>2. ~ (e.ver <= s[k].ver)
    BY <2>1 DEF Outdated
  <2>3. s[k] \in Entry
    BY <2>1
  <2>4. s[k].ver \in Int
    BY <2>3, StoreAssumption DEF Entry
  <2>5. HeldIn(s)[e.id] = s[k].ver
    BY <1>1, <1>3 DEF HeldIn, k
  <2> QED
    BY <1>1, <2>2, <2>4, <2>5
<1> QED
  BY <1>2, <1>3

\* Every step of the store is a step of the map or leaves it alone.
LEMMA MapStep == IInv /\ [Next]_vars => [Map!Next]_HeldVersions
<1> SUFFICES ASSUME IInv, [Next]_vars
             PROVE  [Map!Next]_HeldVersions
  OBVIOUS
<1>1. Unique(memory) /\ memory \in Seq(Entry)
  BY DEF IInv, TypeOK, UniqueIds, Unique
<1>2. HeldVersions = HeldIn(memory) /\ HeldVersions' = HeldIn(memory')
  BY DEF HeldVersions, HeldIn, Holds
<1>3. ASSUME NEW t \in Threads, StoreRule(t)
      PROVE  Map!Next
  <2> DEFINE e == Head(todo[t])
             w == Without(memory, e.id)
  <2>1. e \in Entry /\ e.id \in RuleIds /\ e.ver \in Versions
    <3>1. e \in Entry
      BY <1>3 DEF StoreRule, IInv, TypeOK
    <3> HIDE DEF e
    <3> QED
      BY <3>1 DEF Entry
  <2>2. w \in Seq(Entry) /\ Unique(w) /\ ~ Holds(w, e.id)
    BY <1>1, WithoutFacts
  <2>3. HeldIn(w) = [HeldVersions EXCEPT ![e.id] = NoRule]
    BY <1>1, <1>2, <2>1, HeldWithout
  <2>4. memory' = IF e.form = "ok" THEN Append(w, e) ELSE w
    BY <1>3 DEF StoreRule, StoredInMemory
  <2>5. HeldVersions[e.id] = NoRule \/ e.ver > HeldVersions[e.id]
    BY <1>1, <1>2, <1>3, <2>1, NotOutdated DEF StoreRule
  <2> HIDE DEF e, w
  <2>6. CASE e.form = "ok"
    <3>1. HeldVersions' = [HeldIn(w) EXCEPT ![e.id] = e.ver]
      BY <1>2, <2>1, <2>2, <2>4, <2>6, HeldAppended
    <3>2. HeldVersions' = [HeldVersions EXCEPT ![e.id] = e.ver]
      BY <2>1, <2>3, <3>1 DEF HeldVersions
    <3>3. Map!Install(e.id, e.ver)
      BY <2>5, <3>2 DEF Map!Install
    <3> QED
      BY <2>1, <3>3 DEF Map!Next
  <2>7. CASE e.form # "ok"
    <3>1. Map!Forget(e.id)
      BY <1>2, <2>3, <2>4, <2>7 DEF Map!Forget
    <3> QED
      BY <2>1, <3>1 DEF Map!Next
  <2> QED
    BY <2>6, <2>7
<1>4. ASSUME NEW r \in RuleIds, DeleteRule(r)
      PROVE  Map!Next
  <2>1. Map!Forget(r)
    BY <1>1, <1>2, <1>4, HeldWithout DEF DeleteRule, Map!Forget
  <2> QED
    BY <2>1 DEF Map!Next
<1>5. ASSUME Restart
      PROVE  Map!Next
  <2>1. Map!ForgetAll
    BY <1>5 DEF Restart, HeldVersions, Holds, Map!ForgetAll
  <2> QED
    BY <2>1 DEF Map!Next
<1>6. ASSUME UNCHANGED memory
      PROVE  UNCHANGED HeldVersions
  BY <1>2, <1>6
<1> QED
  BY <1>3, <1>4, <1>5, <1>6
     DEF Next, MqttStep, AppStep, Threads, vars, LockToParse, StopParse, SkipRule,
         ParsedAll, SkipSave, OpenFile, WriteFile, PropertiesReply, LockToDelete,
         DeletedAll, ConfigReply, LoadNothing, LoadFile, LoadedAll, RuleMgr_Parse,
         RuleTrans_DeviceRuleUpdate, EnableStorage

\* The store implements the versioned map: whatever payloads, deletions, loads
\* and restarts interleave, a rule in force is replaced only by a strictly newer
\* version of itself.
THEOREM StoreImplementsMap == Spec => ImplementsRuleMap
<1>1. Init => Map!Init
  BY DEF Init, Map!Init, HeldVersions, Holds
<1> QED
  BY <1>1, MapStep, Invariant, PTL DEF Spec, ImplementsRuleMap, Map!Spec

-----------------------------------------------------------------------------
(* Loading a file, by induction over its rules.                            *)

\* Induction up to N, for a set: a number that is not in it would have a least one.
LEMMA UpTo ==
  ASSUME NEW N \in Nat, NEW S, 0 \in S, \A n \in 1..N : n - 1 \in S => n \in S
  PROVE  \A n \in 0..N : n \in S
<1> DEFINE B == {n \in 0..N : n \notin S}
<1> SUFFICES ASSUME B # {} PROVE FALSE
  OBVIOUS
<1>1. B \in SUBSET Nat
  OBVIOUS
<1>2. PICK m \in B : \A j \in B : m <= j
  BY <1>1, LeastOfNats
<1>3. m \in 1..N /\ m - 1 \in 0..N /\ m - 1 \notin B
  BY <1>2
<1> QED BY <1>2, <1>3

\* The state of the loop before the first rule.
Unloaded == [mem |-> <<>>, go |-> TRUE]

\* A run of the loop over the first n rules.
RunsTo(g, rules, n) ==
  /\ DOMAIN g = 0..n
  /\ g[0] = Unloaded
  /\ \A j \in 1..n : g[j] = ParsedEntry(g[j - 1], rules[j])

\* The loop runs over any number of rules.
LEMMA LoopRuns ==
  ASSUME NEW N \in Nat, NEW rules
  PROVE  \A n \in 0..N : \E g : RunsTo(g, rules, n)
<1> DEFINE S == {n \in 0..N : \E g : RunsTo(g, rules, n)}
<1>1. 0 \in S
  <2> DEFINE g == [j \in 0..0 |-> Unloaded]
  <2>1. RunsTo(g, rules, 0)
    BY DEF RunsTo
  <2> QED BY <2>1
<1>2. ASSUME NEW n \in 1..N, n - 1 \in S PROVE n \in S
  <2>1. PICK g : RunsTo(g, rules, n - 1)
    BY <1>2
  <2> DEFINE h == [j \in 0..n |-> IF j = n THEN ParsedEntry(g[n - 1], rules[n]) ELSE g[j]]
  <2>2. DOMAIN h = 0..n /\ h[0] = Unloaded
    BY <2>1 DEF RunsTo
  <2>3. ASSUME NEW j \in 1..n PROVE h[j] = ParsedEntry(h[j - 1], rules[j])
    <3>1. j - 1 \in 0..(n - 1) /\ j - 1 \in 0..n /\ j - 1 # n
      OBVIOUS
    <3>2. h[j - 1] = g[j - 1]
      BY <3>1
    <3>3. CASE j = n
      BY <3>2, <3>3
    <3>4. CASE j # n
      <4>1. j \in 1..(n - 1) /\ j \in 0..n
        BY <3>4
      <4>2. h[j] = g[j]
        BY <3>4, <4>1
      <4> QED BY <2>1, <3>2, <4>1, <4>2 DEF RunsTo
    <3> QED BY <3>3, <3>4
  <2> HIDE DEF h
  <2>4. RunsTo(h, rules, n)
    BY <2>2, <2>3 DEF RunsTo
  <2> QED BY <2>4
<1> HIDE DEF S
<1>3. \A n \in 0..N : n \in S
  BY <1>1, <1>2, UpTo
<1> QED BY <1>3 DEF S

\* What Loading is: it starts from nothing and looks at one rule after the other.
LEMMA LoadingRuns ==
  ASSUME NEW rules \in Seq(Entry)
  PROVE  /\ Loading(rules)[0] = Unloaded
         /\ \A n \in 1..Len(rules) : Loading(rules)[n] = ParsedEntry(Loading(rules)[n - 1], rules[n])
<1> DEFINE N == Len(rules)
<1>1. N \in Nat /\ N \in 0..N
  OBVIOUS
<1>2. PICK g : RunsTo(g, rules, N)
  BY <1>1, LoopRuns
<1>3. PICK h : h = [n \in 0..N |-> g[n]]
  OBVIOUS
<1>4. /\ DOMAIN h = 0..N /\ h[0] = Unloaded
      /\ \A j \in 1..N : h[j] = ParsedEntry(h[j - 1], rules[j])
  <2>1. ASSUME NEW j \in 1..N PROVE h[j] = ParsedEntry(h[j - 1], rules[j])
    <3>1. j \in 0..N /\ j - 1 \in 0..N
      BY <1>1
    <3> QED BY <1>2, <1>3, <3>1 DEF RunsTo
  <2> QED BY <1>1, <1>2, <1>3, <2>1 DEF RunsTo
<1>5. h = [n \in 0..N |-> IF n = 0 THEN Unloaded ELSE ParsedEntry(h[n - 1], rules[n])]
  <2>1. ASSUME NEW n \in 0..N PROVE h[n] = IF n = 0 THEN Unloaded ELSE ParsedEntry(h[n - 1], rules[n])
    BY <1>1, <1>4
  <2>2. h = [n \in 0..N |-> h[n]]
    BY <1>3
  <2> QED BY <2>1, <2>2
<1>6. \E f : f = [n \in 0..N |-> IF n = 0 THEN Unloaded ELSE ParsedEntry(f[n - 1], rules[n])]
  BY <1>5, Zenon
<1>7. Loading(rules) = CHOOSE f : f = [n \in 0..N |-> IF n = 0 THEN Unloaded ELSE ParsedEntry(f[n - 1], rules[n])]
  BY Zenon DEF Loading, Unloaded
<1> DEFINE L == Loading(rules)
<1>8. L = [n \in 0..N |-> IF n = 0 THEN Unloaded ELSE ParsedEntry(L[n - 1], rules[n])]
  BY <1>6, <1>7, Zenon
<1> HIDE DEF L
<1>9. L[0] = Unloaded /\ \A n \in 1..N : L[n] = ParsedEntry(L[n - 1], rules[n])
  <2>1. \A n \in 0..N : L[n] = IF n = 0 THEN Unloaded ELSE ParsedEntry(L[n - 1], rules[n])
    BY <1>8, Zenon
  <2> QED BY <1>1, <2>1
<1> QED BY <1>9 DEF L

\* Behind a rule that stops the loop nothing is loaded.
LEMMA LoadingStops ==
  ASSUME NEW rules \in Seq(Entry), NEW n \in 0..Len(rules), ~ Loading(rules)[n].go
  PROVE  LoadedFrom(rules) = Loading(rules)[n].mem
<1> DEFINE L == Loading(rules)
           N == Len(rules)
           S == {m \in 0..N : m >= n => L[m].mem = L[n].mem /\ ~ L[m].go}
<1>1. L[0] = Unloaded /\ \A m \in 1..N : L[m] = ParsedEntry(L[m - 1], rules[m])
  BY LoadingRuns
<1>2. N \in Nat /\ N \in 0..N /\ n \in Nat /\ n <= N /\ ~ L[n].go
  OBVIOUS
<1> HIDE DEF L, N
<1>3. 0 \in S
  <2>1. 0 >= n => n = 0
    BY <1>2
  <2> QED BY <1>2, <2>1
<1>4. ASSUME NEW m \in 1..N, m - 1 \in S PROVE m \in S
  <2>1. CASE m - 1 >= n
    <3>1. L[m - 1].mem = L[n].mem /\ ~ L[m - 1].go
      BY <1>4, <2>1
    <3>2. L[m] = [mem |-> L[m - 1].mem, go |-> FALSE]
      BY <1>1, <3>1 DEF ParsedEntry
    <3> QED BY <3>1, <3>2
  <2>2. CASE ~ (m - 1 >= n)
    <3>1. m >= n => m = n
      BY <1>2, <2>2
    <3> QED BY <1>2, <3>1
  <2> QED BY <2>1, <2>2
<1> HIDE DEF S
<1>5. \A m \in 0..N : m \in S
  BY <1>2, <1>3, <1>4, UpTo
<1>6. L[N].mem = L[n].mem
  BY <1>2, <1>5 DEF S
<1> QED BY <1>6 DEF LoadedFrom, L, N

\* Rules that can be read and parsed, as those in force are.
Parsed(s) == \A n \in DOMAIN s : s[n].form = "ok"

\* A file of rules in force is loaded as it was saved.
LEMMA LoadsItself ==
  ASSUME NEW rules \in Seq(Entry), Unique(rules), Parsed(rules)
  PROVE  LoadedFrom(rules) = rules
<1> DEFINE L == Loading(rules)
           N == Len(rules)
           Part(n) == SubSeq(rules, 1, n)
           S == {n \in 0..N : L[n] = [mem |-> Part(n), go |-> TRUE]}
<1>1. L[0] = Unloaded /\ \A m \in 1..N : L[m] = ParsedEntry(L[m - 1], rules[m])
  BY LoadingRuns
<1>2. N \in Nat /\ N \in 0..N /\ DOMAIN rules = 1..N
  OBVIOUS
<1>3. \A n \in 0..N : /\ Part(n) \in Seq(Entry) /\ Len(Part(n)) = n
                      /\ \A j \in 1..n : Part(n)[j] = rules[j]
  OBVIOUS
<1>4. Part(0) = <<>> /\ Part(N) = rules
  OBVIOUS
<1>5. \A n \in 1..N : Append(Part(n - 1), rules[n]) = Part(n)
  <2>1. ASSUME NEW n \in 1..N PROVE Append(Part(n - 1), rules[n]) = Part(n)
    <3>1. n - 1 \in 0..N /\ n \in 0..N /\ rules[n] \in Entry
      BY <1>2
    <3> HIDE DEF Part, N
    <3>2. Part(n - 1) \in Seq(Entry) /\ Len(Part(n - 1)) = n - 1 /\ Part(n) \in Seq(Entry) /\ Len(Part(n)) = n
      BY <1>3, <3>1
    <3>3. \A j \in 1..n : Append(Part(n - 1), rules[n])[j] = Part(n)[j]
      BY <1>2, <1>3, <3>1, <3>2
    <3>4. Append(Part(n - 1), rules[n]) \in Seq(Entry) /\ Len(Append(Part(n - 1), rules[n])) = n
      BY <1>2, <3>1, <3>2
    <3> QED BY <3>2, <3>3, <3>4
  <2> QED BY <2>1
<1> HIDE DEF L, N, Part
<1>6. 0 \in S
  <2>1. L[0] = [mem |-> Part(0), go |-> TRUE]
    BY <1>1, <1>4, Zenon DEF Unloaded
  <2> QED BY <1>2, <2>1
<1>7. ASSUME NEW n \in 1..N, n - 1 \in S PROVE n \in S
  <2> DEFINE e == rules[n]
             p == Part(n - 1)
  <2>1. L[n - 1] = [mem |-> p, go |-> TRUE]
    BY <1>7
  <2>2. e.form = "ok"
    BY <1>2 DEF Parsed
  <2>3. p \in Seq(Entry) /\ DOMAIN p = 1..(n - 1) /\ \A j \in DOMAIN p : p[j] = rules[j]
    BY <1>2, <1>3
  <2>4. ~ Holds(p, e.id) /\ ~ Outdated(p, e)
    <3>1. ASSUME NEW j \in DOMAIN p PROVE p[j].id # e.id
      <4>1. j \in DOMAIN rules /\ n \in DOMAIN rules /\ j # n
        BY <1>2, <2>3
      <4> QED BY <2>3, <4>1 DEF Unique
    <3> QED BY <3>1, Zenon DEF Holds, Outdated
  <2>5. StoredInMemory(p, e) = Part(n)
    <3>1. StoredInMemory(p, e) = Append(p, e)
      BY <2>2, <2>4 DEF StoredInMemory, Without
    <3> QED BY <1>5, <3>1
  <2>6. ParsedEntry(L[n - 1], e) = [mem |-> Part(n), go |-> TRUE]
    <3> HIDE DEF p, e
    <3>1. L[n - 1].mem = p /\ L[n - 1].go = TRUE
      BY <2>1
    <3>2. ParsedEntry(L[n - 1], e) = [mem |-> StoredInMemory(p, e), go |-> e.form = "ok"]
      BY <2>2, <2>4, <3>1, Zenon DEF ParsedEntry
    <3>3. (e.form = "ok") = TRUE
      BY <2>2
    <3> QED BY <2>5, <3>2, <3>3, Zenon
  <2>7. n \in 0..N
    BY <1>2
  <2> QED BY <1>1, <2>6, <2>7
<1> HIDE DEF S
<1>8. \A n \in 0..N : n \in S
  BY <1>2, <1>6, <1>7, UpTo
<1>9. L[N].mem = rules
  <2>1. L[N] = [mem |-> Part(N), go |-> TRUE]
    BY <1>2, <1>8 DEF S
  <2> QED BY <1>4, <2>1
<1> QED BY <1>9 DEF LoadedFrom, L, N

\* Where a load from the file stands: behind the first n rules, or at its end.
LoadStands(s, rest, rules) ==
  \/ rest = <<>> /\ s = LoadedFrom(rules)
  \/ \E n \in 0..Len(rules) : /\ rest = SubSeq(rules, n + 1, Len(rules))
                              /\ Loading(rules)[n] = [mem |-> s, go |-> TRUE]

\* A load begins with all rules of the file and nothing in memory ...
LEMMA LoadBegins == \A rules \in Seq(Entry) : LoadStands(<<>>, rules, rules)
<1> SUFFICES ASSUME NEW rules \in Seq(Entry) PROVE LoadStands(<<>>, rules, rules)
  OBVIOUS
<1>1. Loading(rules)[0] = [mem |-> <<>>, go |-> TRUE]
  BY LoadingRuns DEF Unloaded
<1>2. rules = SubSeq(rules, 0 + 1, Len(rules)) /\ 0 \in 0..Len(rules)
  OBVIOUS
<1> QED BY <1>1, <1>2 DEF LoadStands

\* ... looks at the next rule of the rest ...
LEMMA LoadGoesOn ==
  ASSUME NEW rules \in Seq(Entry), NEW s, NEW rest \in Seq(Entry), LoadStands(s, rest, rules), rest # <<>>,
         NEW s2, NEW go \in BOOLEAN, ParsedEntry([mem |-> s, go |-> TRUE], Head(rest)) = [mem |-> s2, go |-> go]
  PROVE  LoadStands(s2, IF go THEN Tail(rest) ELSE <<>>, rules)
<1> DEFINE L == Loading(rules)
           N == Len(rules)
<1>1. PICK n \in 0..N : rest = SubSeq(rules, n + 1, N) /\ L[n] = [mem |-> s, go |-> TRUE]
  BY DEF LoadStands
<1>2. n + 1 \in 1..N /\ n + 1 \in 0..N /\ Head(rest) = rules[n + 1] /\ Tail(rest) = SubSeq(rules, n + 2, N)
  BY <1>1
<1>3. L[n + 1] = ParsedEntry(L[n], rules[n + 1])
  <2>1. n + 1 - 1 = n
    OBVIOUS
  <2> QED BY <1>2, <2>1, LoadingRuns
<1>4. L[n + 1] = [mem |-> s2, go |-> go]
  BY <1>1, <1>2, <1>3
<1>5. CASE go
  <2>1. n + 1 + 1 = n + 2 /\ go = TRUE
    BY <1>5
  <2> QED BY <1>2, <1>4, <2>1 DEF LoadStands
<1>6. CASE ~ go
  <2>1. ~ L[n + 1].go /\ L[n + 1].mem = s2
    BY <1>4, <1>6
  <2>2. LoadedFrom(rules) = s2
    BY <1>2, <2>1, LoadingStops
  <2> QED BY <1>6, <2>2 DEF LoadStands
<1> QED BY <1>5, <1>6

\* ... and ends with what the file is loaded as.
LEMMA LoadEnds ==
  ASSUME NEW rules \in Seq(Entry), NEW s, LoadStands(s, <<>>, rules)
  PROVE  s = LoadedFrom(rules)
<1> DEFINE N == Len(rules)
<1>1. ASSUME NEW n \in 0..N, <<>> = SubSeq(rules, n + 1, N), Loading(rules)[n] = [mem |-> s, go |-> TRUE]
      PROVE  s = LoadedFrom(rules)
  <2>1. Len(SubSeq(rules, n + 1, N)) = IF n + 1 <= N THEN N - n ELSE 0
    OBVIOUS
  <2>2. n = N
    <3>1. Len(SubSeq(rules, n + 1, N)) = 0
      <4>1. Len(<<>>) = 0
        OBVIOUS
      <4> QED BY ONLY <1>1, <4>1
    <3>2. N \in Nat /\ n \in 0..N
      OBVIOUS
    <3> HIDE DEF N
    <3> QED BY ONLY <2>1, <3>1, <3>2
  <2> QED BY <1>1, <2>2 DEF LoadedFrom
<1> QED BY <1>1 DEF LoadStands

-----------------------------------------------------------------------------
(* A restart keeps the rules.                                              *)

\* Every body can be parsed; its ruleId or version may be unreadable.
Sound(s) == \A n \in DOMAIN s : s[n].form # "body"

\* Storage is enabled and loaded before messages come, the file exists and can be
\* opened, bodies can be parsed and the power does not fail during a save.
Undisturbed ==
  /\ StorageFirst /\ ~ IoFaults /\ ~ RestartDuringSave
  /\ \A p \in Payloads : Sound(p)
  /\ \A f \in InitialFiles : f.state # "absent" /\ Sound(f.rules)

\* The JSON text is the rules in force, and no body fails.
ListsAgree ==
  /\ mirror = memory /\ Parsed(memory)
  /\ \A t \in Threads : Sound(todo[t])
  /\ Sound(file.rules) /\ file.state # "absent"

\* The mqtt thread works when storage is loaded, and knows the file; before that
\* nothing is in force.
StorageComesFirst ==
  /\ pc["mqtt"] # "idle" => path /\ pc["app"] = "idle"
  /\ pc["mqtt"] \in {"wantParse", "parsing", "saving", "writing", "wantDelete", "deleting"} => dest
  /\ pc["app"] \in {"idle", "load", "wantParse", "parsing"}
  /\ ~ path => pc["app"] = "idle" /\ memory = <<>>
  /\ pc["app"] \in {"load", "wantParse"} => memory = <<>>

\* The file holds the rules in force, or those before the update that is under way;
\* a load that is under way follows it.
FileAgrees ==
  /\ pc["app"] = "wantParse" => todo["app"] = file.rules
  /\ pc["app"] = "parsing" => LoadStands(memory, todo["app"], file.rules)
  /\ path /\ pc["app"] = "idle" /\ ~ Critical("mqtt") => LoadedFrom(file.rules) = memory
  /\ Critical("mqtt") /\ pc["mqtt"] # "writing" => LoadedFrom(file.rules) = before

\* The invariant of a store that nothing disturbs.
KeptInvariant == ListsAgree /\ StorageComesFirst /\ FileAgrees

\* The program starts with nothing in force and a file that can be loaded.
LEMMA KeptInitial == Undisturbed /\ Init => KeptInvariant
<1> SUFFICES ASSUME Undisturbed, Init PROVE KeptInvariant
  OBVIOUS
<1>1. ListsAgree
  BY DEF Undisturbed, Init, ListsAgree, Parsed, Sound
<1>2. StorageComesFirst
  BY DEF Init, StorageComesFirst, Threads
<1>3. FileAgrees
  BY DEF Init, FileAgrees, Threads, Critical
<1> QED BY <1>1, <1>2, <1>3 DEF KeptInvariant

\* What is left of a list without a rule can be parsed if the list can.
LEMMA ParsedWithout == \A r : \A s \in Seq(Entry) : Parsed(s) => Parsed(Without(s, r))
<1> SUFFICES ASSUME NEW s \in Seq(Entry), NEW r, Parsed(s) PROVE Parsed(Without(s, r))
  OBVIOUS
<1>1. \A i \in DOMAIN Without(s, r) : \E j \in DOMAIN s : Without(s, r)[i] = s[j]
  BY WithoutFacts
<1> QED BY <1>1, Zenon DEF Parsed

\* A rule that can be parsed is stored in both lists alike.
LEMMA StoredAlike ==
  ASSUME NEW s \in Seq(Entry), NEW e \in Entry, Parsed(s), e.form = "ok"
  PROVE  StoredInMirror(s, s, e) = StoredInMemory(s, e) /\ Parsed(StoredInMemory(s, e))
<1> DEFINE w == Without(s, e.id)
<1>1. w \in Seq(Entry) /\ Parsed(w)
  BY WithoutFacts, ParsedWithout
<1>2. StoredInMirror(s, s, e) = Append(w, e) /\ StoredInMemory(s, e) = Append(w, e)
  BY DEF StoredInMirror, StoredInMemory, Without
<1> HIDE DEF w
<1>3. Parsed(Append(w, e))
  <2>1. DOMAIN Append(w, e) = 1..(Len(w) + 1) /\ DOMAIN w = 1..Len(w) /\ Len(w) \in Nat
    BY <1>1
  <2>2. \A n \in 1..(Len(w) + 1) : Append(w, e)[n] = IF n <= Len(w) THEN w[n] ELSE e
    BY <1>1
  <2> QED BY <1>1, <2>1, <2>2 DEF Parsed
<1> QED BY <1>2, <1>3

\* The rest of a payload.
LEMMA SoundRest ==
  ASSUME NEW s \in Seq(Entry), s # <<>>, Sound(s)
  PROVE  Sound(Tail(s)) /\ Sound(<<>>) /\ Tail(s) \in Seq(Entry) /\ Head(s) \in Entry /\ Head(s).form # "body"
<1>1. /\ DOMAIN s = 1..Len(s) /\ Len(s) \in Nat \ {0} /\ DOMAIN Tail(s) = 1..(Len(s) - 1)
      /\ \A n \in 1..(Len(s) - 1) : Tail(s)[n] = s[n + 1]
      /\ Head(s) = s[1] /\ Tail(s) \in Seq(Entry) /\ Head(s) \in Entry
  OBVIOUS
<1>2. Sound(Tail(s))
  BY <1>1 DEF Sound
<1> QED BY <1>1, <1>2 DEF Sound

\* A thread looks at the next rule of its payload or file.
LEMMA ParseKeeps ==
  ASSUME IInv, KeptInvariant, NEW t \in Threads, StopParse(t) \/ SkipRule(t) \/ StoreRule(t)
  PROVE  KeptInvariant'
<1> DEFINE e == Head(todo[t])
           acc == [mem |-> memory, go |-> TRUE]
<1>1. pc[t] = "parsing" /\ todo[t] # <<>> /\ UNCHANGED <<path, file, pc, dest, before>>
  BY DEF StopParse, SkipRule, StoreRule
<1>2. /\ memory \in Seq(Entry) /\ todo \in [Threads -> Seq(Entry)] /\ todo[t] \in Seq(Entry)
      /\ mirror = memory /\ Parsed(memory) /\ file.rules \in Seq(Entry)
  BY DEF IInv, TypeOK, KeptInvariant, ListsAgree, File
<1>3. /\ e \in Entry /\ e.form \in {"ok", "head"} /\ Tail(todo[t]) \in Seq(Entry)
      /\ Sound(Tail(todo[t])) /\ Sound(<<>>)
  <2>1. Sound(todo[t])
    BY DEF KeptInvariant, ListsAgree
  <2>2. e \in Entry /\ e.form # "body" /\ Tail(todo[t]) \in Seq(Entry) /\ Sound(Tail(todo[t])) /\ Sound(<<>>)
    BY <1>1, <1>2, <2>1, SoundRest
  <2> HIDE DEF e
  <2>3. e.form \in {"ok", "body", "head"}
    BY <2>2 DEF Entry
  <2> QED BY <2>2, <2>3
<1>4. PICK go \in BOOLEAN :
        /\ todo' = [todo EXCEPT ![t] = IF go THEN Tail(todo[t]) ELSE <<>>]
        /\ ParsedEntry(acc, e) = [mem |-> memory', go |-> go]
        /\ mirror' = memory' /\ Parsed(memory')
  <2>0. acc.mem = memory /\ acc.go = TRUE
    OBVIOUS
  <2>1. CASE StopParse(t)
    <3>1. todo' = [todo EXCEPT ![t] = <<>>] /\ UNCHANGED <<memory, mirror>> /\ e.form = "head"
      BY <2>1 DEF StopParse
    <3>2. ParsedEntry(acc, e) = [mem |-> memory', go |-> FALSE]
      BY <2>0, <3>1 DEF ParsedEntry
    <3> QED BY <1>2, <3>1, <3>2
  <2>2. CASE SkipRule(t)
    <3>1. todo' = [todo EXCEPT ![t] = Tail(todo[t])] /\ UNCHANGED <<memory, mirror>>
          /\ e.form # "head" /\ Outdated(memory, e)
      BY <2>2 DEF SkipRule
    <3>2. ParsedEntry(acc, e) = acc
      BY <2>0, <3>1, Zenon DEF ParsedEntry
    <3> QED BY <1>2, <3>1, <3>2
  <2>3. CASE StoreRule(t)
    <3>1. /\ e.form # "head" /\ ~ Outdated(memory, e)
          /\ memory' = StoredInMemory(memory, e) /\ mirror' = StoredInMirror(mirror, memory, e)
          /\ todo' = [todo EXCEPT ![t] = IF e.form = "ok" THEN Tail(todo[t]) ELSE <<>>]
      BY <2>3 DEF StoreRule
    <3>2. e.form = "ok" /\ (e.form = "ok") = TRUE
      BY <1>3, <3>1
    <3>3. ParsedEntry(acc, e) = [mem |-> StoredInMemory(memory, e), go |-> e.form = "ok"]
      BY <2>0, <3>1, Zenon DEF ParsedEntry
    <3>4. ParsedEntry(acc, e) = [mem |-> memory', go |-> TRUE]
      BY <3>1, <3>2, <3>3, Zenon
    <3>5. mirror' = memory' /\ Parsed(memory')
      BY <1>2, <1>3, <3>1, <3>2, StoredAlike
    <3> QED BY <3>1, <3>2, <3>4, <3>5
  <2> QED BY <2>1, <2>2, <2>3
<1>5. ListsAgree'
  <2>1. \A u \in Threads : Sound(todo'[u])
    BY <1>2, <1>3, <1>4 DEF KeptInvariant, ListsAgree
  <2> QED BY <1>1, <1>4, <2>1 DEF KeptInvariant, ListsAgree
<1>6. StorageComesFirst'
  <2>1. path
    BY <1>1 DEF KeptInvariant, StorageComesFirst, Threads
  <2>2. pc["app"] \notin {"load", "wantParse"}
    BY <1>1 DEF KeptInvariant, StorageComesFirst, Threads
  <2> QED BY <1>1, <2>1, <2>2 DEF KeptInvariant, StorageComesFirst
<1>7. FileAgrees'
  <2>1. CASE t = "app"
    <3>1. LoadStands(memory, todo["app"], file.rules) /\ pc["mqtt"] = "idle" /\ pc["app"] = "parsing"
      BY <1>1, <2>1 DEF KeptInvariant, FileAgrees, StorageComesFirst
    <3>2. LoadStands(memory', IF go THEN Tail(todo["app"]) ELSE <<>>, file.rules)
      BY <1>1, <1>2, <1>4, <2>1, <3>1, LoadGoesOn
    <3>3. todo'["app"] = IF go THEN Tail(todo["app"]) ELSE <<>>
      BY <1>2, <1>4, <2>1
    <3> QED BY <1>1, <3>1, <3>2, <3>3 DEF FileAgrees, Critical
  <2>2. CASE t = "mqtt"
    <3>1. Critical("mqtt") /\ Critical("mqtt")' /\ pc["mqtt"] # "writing" /\ pc["app"] = "idle"
      BY <1>1, <2>2 DEF Critical, KeptInvariant, StorageComesFirst
    <3>2. LoadedFrom(file.rules) = before
      BY <3>1 DEF KeptInvariant, FileAgrees
    <3> QED BY <1>1, <3>1, <3>2 DEF FileAgrees
  <2> QED BY <2>1, <2>2 DEF Threads
<1> QED BY <1>5, <1>6, <1>7 DEF KeptInvariant

\* A thread goes on without a change of the lists or of the file.
LEMMA QuietKeeps ==
  ASSUME IInv, KeptInvariant, UNCHANGED <<memory, mirror, path, file, before>>,
         StorageComesFirst', \A t \in Threads : Sound(todo'[t]),
         pc'["app"] = "wantParse" => todo'["app"] = file.rules,
         pc'["app"] = "parsing" => LoadStands(memory, todo'["app"], file.rules),
         path /\ pc'["app"] = "idle" /\ ~ Critical("mqtt")' => LoadedFrom(file.rules) = memory,
         Critical("mqtt")' /\ pc'["mqtt"] # "writing" => LoadedFrom(file.rules) = before
  PROVE  KeptInvariant'
<1>1. ListsAgree'
  BY DEF KeptInvariant, ListsAgree
<1>2. FileAgrees'
  BY DEF FileAgrees
<1> QED BY <1>1, <1>2 DEF KeptInvariant

\* Every step of a store that nothing disturbs.
LEMMA KeptStep == Undisturbed /\ IInv /\ KeptInvariant /\ [Next]_vars => KeptInvariant'
<1> SUFFICES ASSUME Undisturbed, IInv, KeptInvariant, [Next]_vars PROVE KeptInvariant'
  OBVIOUS
<1>0. /\ memory \in Seq(Entry) /\ file.rules \in Seq(Entry) /\ todo \in [Threads -> Seq(Entry)]
      /\ pc \in [Threads -> PCs] /\ Threads = {"mqtt", "app"}
  BY DEF IInv, TypeOK, File, Threads
<1>1. ListsAgree /\ StorageComesFirst /\ FileAgrees
  BY DEF KeptInvariant
<1>2. ASSUME NEW t \in Threads, StopParse(t) \/ SkipRule(t) \/ StoreRule(t) PROVE KeptInvariant'
  BY <1>2, ParseKeeps
<1>3. CASE LockToParse("app")
  <2>1. /\ pc["app"] = "wantParse" /\ pc' = [pc EXCEPT !["app"] = "parsing"]
        /\ UNCHANGED <<memory, mirror, path, file, before, todo, dest>>
    BY <1>3 DEF LockToParse
  <2>2. memory = <<>> /\ todo["app"] = file.rules /\ pc["mqtt"] = "idle" /\ path
    BY <1>1, <2>1 DEF StorageComesFirst, FileAgrees
  <2>3. LoadStands(memory, todo["app"], file.rules)
    BY <1>0, <2>2, LoadBegins
  <2>4. pc'["app"] = "parsing" /\ pc'["mqtt"] = "idle"
    BY <1>0, <2>1, <2>2
  <2>5. StorageComesFirst'
    BY <2>1, <2>2, <2>4 DEF StorageComesFirst
  <2> QED BY <1>1, <2>1, <2>3, <2>4, <2>5, QuietKeeps DEF ListsAgree, Critical
<1>4. CASE LockToParse("mqtt") \/ LockToDelete
  <2>1. /\ pc["mqtt"] \in {"wantParse", "wantDelete"} /\ before' = memory
        /\ UNCHANGED <<memory, mirror, path, file, todo, dest>>
        /\ pc' = [pc EXCEPT !["mqtt"] = "parsing"] \/ pc' = [pc EXCEPT !["mqtt"] = "deleting"]
    BY <1>4 DEF LockToParse, LockToDelete
  <2>2. path /\ dest /\ pc["app"] = "idle" /\ ~ Critical("mqtt")
    BY <1>1, <2>1 DEF StorageComesFirst, Critical
  <2>3. LoadedFrom(file.rules) = memory
    BY <1>1, <2>2 DEF FileAgrees
  <2>4. pc'["mqtt"] \in {"parsing", "deleting"} /\ pc'["app"] = "idle"
    BY <1>0, <2>1, <2>2
  <2>5. StorageComesFirst'
    BY <1>1, <2>1, <2>2, <2>4 DEF StorageComesFirst
  <2>6. FileAgrees'
    BY <2>1, <2>3, <2>4 DEF FileAgrees, Critical
  <2> QED BY <1>1, <2>1, <2>5, <2>6 DEF KeptInvariant, ListsAgree
<1>5. CASE ParsedAll \/ DeletedAll
  <2>1. /\ pc["mqtt"] \in {"parsing", "deleting"} /\ pc' = [pc EXCEPT !["mqtt"] = "saving"]
        /\ UNCHANGED <<memory, mirror, path, file, todo, dest, before>>
    BY <1>5 DEF ParsedAll, DeletedAll
  <2>2. path /\ dest /\ pc["app"] = "idle" /\ LoadedFrom(file.rules) = before
    BY <1>1, <2>1 DEF StorageComesFirst, FileAgrees, Critical
  <2>3. pc'["mqtt"] = "saving" /\ pc'["app"] = "idle"
    BY <1>0, <2>1, <2>2
  <2>4. StorageComesFirst'
    BY <1>1, <2>1, <2>2, <2>3 DEF StorageComesFirst
  <2> QED BY <1>1, <2>1, <2>2, <2>3, <2>4, QuietKeeps DEF ListsAgree, Critical
<1>6. CASE SkipSave
  BY <1>1, <1>6 DEF SkipSave, Undisturbed, StorageComesFirst, ListsAgree
<1>7. CASE OpenFile
  <2>1. /\ pc["mqtt"] = "saving" /\ pc' = [pc EXCEPT !["mqtt"] = "writing"]
        /\ file' = [state |-> "torn", rules |-> <<>>]
        /\ UNCHANGED <<memory, mirror, path, todo, dest, before>>
    BY <1>7 DEF OpenFile
  <2>2. path /\ dest /\ pc["app"] = "idle"
    BY <1>1, <2>1 DEF StorageComesFirst
  <2>3. pc'["mqtt"] = "writing" /\ pc'["app"] = "idle"
    BY <1>0, <2>1, <2>2
  <2>4. StorageComesFirst'
    BY <1>1, <2>1, <2>2, <2>3 DEF StorageComesFirst
  <2>5. FileAgrees'
    BY <2>1, <2>3 DEF FileAgrees, Critical
  <2>6. Sound(file'.rules) /\ file'.state # "absent"
    BY <2>1 DEF Sound
  <2> QED BY <1>1, <2>1, <2>4, <2>5, <2>6 DEF KeptInvariant, ListsAgree
<1>8. CASE WriteFile
  <2>1. /\ pc["mqtt"] = "writing" /\ pc' = [pc EXCEPT !["mqtt"] = AfterSave]
        /\ file' = [state |-> "good", rules |-> mirror]
        /\ UNCHANGED <<memory, mirror, path, todo, dest>>
    BY <1>8 DEF WriteFile
  <2>2. path /\ pc["app"] = "idle" /\ mirror = memory /\ Parsed(memory)
    BY <1>1, <2>1 DEF StorageComesFirst, ListsAgree
  <2>3. pc'["mqtt"] \in {"idle", "config"} /\ pc'["app"] = "idle"
    BY <1>0, <2>1, <2>2 DEF AfterSave
  <2>4. StorageComesFirst'
    BY <1>1, <2>1, <2>2, <2>3 DEF StorageComesFirst
  <2>5. LoadedFrom(memory) = memory
    <3>1. Unique(memory)
      BY DEF IInv, UniqueIds, Unique
    <3> QED BY <1>0, <2>2, <3>1, LoadsItself
  <2>6. FileAgrees'
    BY <2>1, <2>2, <2>3, <2>5 DEF FileAgrees, Critical
  <2>7. Sound(file'.rules) /\ file'.state # "absent"
    BY <2>1, <2>2 DEF Sound, Parsed
  <2> QED BY <1>1, <2>1, <2>4, <2>6, <2>7 DEF KeptInvariant, ListsAgree
<1>9. CASE PropertiesReply \/ ConfigReply
  <2>1. /\ pc["mqtt"] \in {"reply", "config"}
        /\ UNCHANGED <<memory, mirror, path, file, todo, before>>
        /\ \/ pc' = [pc EXCEPT !["mqtt"] = "wantDelete"] /\ dest' = path
           \/ pc' = [pc EXCEPT !["mqtt"] = AfterSave] /\ dest' = dest
           \/ pc' = [pc EXCEPT !["mqtt"] = "idle"] /\ dest' = dest
    BY <1>9 DEF PropertiesReply, ConfigReply
  <2>2. path /\ pc["app"] = "idle" /\ LoadedFrom(file.rules) = memory
    BY <1>1, <2>1 DEF StorageComesFirst, FileAgrees, Critical
  <2>3. /\ pc'["mqtt"] \in {"wantDelete", "idle", "config"} /\ pc'["app"] = "idle"
        /\ pc'["mqtt"] = "wantDelete" => dest'
    BY <1>0, <2>1, <2>2 DEF AfterSave
  <2>4. StorageComesFirst'
    BY <1>1, <2>1, <2>2, <2>3 DEF StorageComesFirst
  <2> QED BY <1>1, <2>1, <2>2, <2>3, <2>4, QuietKeeps DEF ListsAgree, Critical
<1>10. ASSUME NEW r \in RuleIds, DeleteRule(r) PROVE KeptInvariant'
  <2>1. /\ pc["mqtt"] = "deleting" /\ memory' = Without(memory, r) /\ mirror' = Without(mirror, r)
        /\ UNCHANGED <<path, file, pc, todo, dest, before>>
    BY <1>10 DEF DeleteRule
  <2>2. path /\ pc["app"] = "idle" /\ LoadedFrom(file.rules) = before
    BY <1>1, <2>1 DEF StorageComesFirst, FileAgrees, Critical
  <2>3. ListsAgree'
    BY <1>0, <1>1, <2>1, ParsedWithout DEF ListsAgree
  <2>4. StorageComesFirst' /\ FileAgrees'
    BY <1>1, <2>1, <2>2 DEF StorageComesFirst, FileAgrees, Critical
  <2> QED BY <2>3, <2>4 DEF KeptInvariant
<1>11. ASSUME NEW p \in Payloads, RuleMgr_Parse(p) PROVE KeptInvariant'
  <2>1. /\ pc["mqtt"] = "idle" /\ Listening /\ todo' = [todo EXCEPT !["mqtt"] = p] /\ dest' = path
        /\ pc' = [pc EXCEPT !["mqtt"] = "wantParse"] /\ UNCHANGED <<memory, mirror, path, file, before>>
    BY <1>11 DEF RuleMgr_Parse
  <2>2. path /\ pc["app"] = "idle"
    BY <2>1 DEF Listening, Undisturbed
  <2>3. LoadedFrom(file.rules) = memory
    BY <1>1, <2>1, <2>2 DEF FileAgrees, Critical
  <2>4. \A t \in Threads : Sound(todo'[t])
    BY <1>0, <1>1, <2>1 DEF Undisturbed, ListsAgree
  <2>5. pc'["mqtt"] = "wantParse" /\ pc'["app"] = "idle"
    BY <1>0, <2>1, <2>2
  <2>6. StorageComesFirst'
    BY <2>1, <2>2, <2>5 DEF StorageComesFirst
  <2> QED BY <2>1, <2>3, <2>4, <2>5, <2>6, QuietKeeps DEF Critical
<1>12. ASSUME NEW s \in Shadows, RuleTrans_DeviceRuleUpdate(s) PROVE KeptInvariant'
  <2>1. /\ pc["mqtt"] = "idle" /\ Listening /\ pc' = [pc EXCEPT !["mqtt"] = "reply"]
        /\ UNCHANGED <<memory, mirror, path, file, todo, dest, before>>
    BY <1>12 DEF RuleTrans_DeviceRuleUpdate
  <2>2. path /\ pc["app"] = "idle"
    BY <2>1 DEF Listening, Undisturbed
  <2>3. LoadedFrom(file.rules) = memory
    BY <1>1, <2>1, <2>2 DEF FileAgrees, Critical
  <2>4. pc'["mqtt"] = "reply" /\ pc'["app"] = "idle"
    BY <1>0, <2>1, <2>2
  <2>5. StorageComesFirst'
    BY <2>1, <2>2, <2>4 DEF StorageComesFirst
  <2> QED BY <1>1, <2>1, <2>3, <2>4, <2>5, QuietKeeps DEF ListsAgree, Critical
<1>13. CASE EnableStorage
  <2>1. /\ pc["app"] = "idle" /\ ~ path /\ path' = TRUE /\ pc' = [pc EXCEPT !["app"] = "load"]
        /\ UNCHANGED <<memory, mirror, file, todo, dest, before>>
    BY <1>13 DEF EnableStorage
  <2>2. memory = <<>> /\ pc["mqtt"] = "idle"
    BY <1>1, <2>1 DEF StorageComesFirst
  <2>3. pc'["app"] = "load" /\ pc'["mqtt"] = "idle"
    BY <1>0, <2>1, <2>2
  <2>4. StorageComesFirst' /\ FileAgrees'
    BY <2>1, <2>2, <2>3 DEF StorageComesFirst, FileAgrees, Critical
  <2> QED BY <1>1, <2>1, <2>4 DEF KeptInvariant, ListsAgree
<1>14. CASE LoadNothing
  BY <1>1, <1>14 DEF LoadNothing, Undisturbed, ListsAgree
<1>15. CASE LoadFile
  <2>1. /\ pc["app"] = "load" /\ pc' = [pc EXCEPT !["app"] = "wantParse"]
        /\ todo' = [todo EXCEPT !["app"] = file.rules] /\ UNCHANGED <<memory, mirror, path, file, dest, before>>
    BY <1>15 DEF LoadFile
  <2>2. memory = <<>> /\ pc["mqtt"] = "idle" /\ path
    BY <1>1, <2>1 DEF StorageComesFirst
  <2>3. pc'["app"] = "wantParse" /\ pc'["mqtt"] = "idle" /\ todo'["app"] = file.rules
    BY <1>0, <2>1, <2>2
  <2>4. \A t \in Threads : Sound(todo'[t])
    BY <1>0, <1>1, <2>1 DEF ListsAgree
  <2>5. StorageComesFirst'
    BY <2>1, <2>2, <2>3 DEF StorageComesFirst
  <2> QED BY <2>1, <2>3, <2>4, <2>5, QuietKeeps DEF Critical
<1>16. CASE LoadedAll
  <2>1. /\ pc["app"] = "parsing" /\ todo["app"] = <<>> /\ pc' = [pc EXCEPT !["app"] = "idle"]
        /\ UNCHANGED <<memory, mirror, path, file, todo, dest, before>>
    BY <1>16 DEF LoadedAll
  <2>2. path /\ pc["mqtt"] = "idle" /\ LoadStands(memory, <<>>, file.rules)
    BY <1>1, <2>1 DEF StorageComesFirst, FileAgrees
  <2>3. LoadedFrom(file.rules) = memory
    BY <1>0, <2>2, LoadEnds
  <2>4. pc'["app"] = "idle" /\ pc'["mqtt"] = "idle"
    BY <1>0, <2>1, <2>2
  <2>5. StorageComesFirst'
    BY <2>1, <2>2, <2>4 DEF StorageComesFirst
  <2> QED BY <1>1, <2>1, <2>3, <2>4, <2>5, QuietKeeps DEF ListsAgree, Critical
<1>17. CASE Restart
  <2>1. /\ memory' = <<>> /\ mirror' = <<>> /\ path' = FALSE /\ UNCHANGED file
        /\ pc' = [t \in Threads |-> "idle"] /\ todo' = [t \in Threads |-> <<>>]
    BY <1>17 DEF Restart
  <2>2. pc'["mqtt"] = "idle" /\ pc'["app"] = "idle" /\ \A t \in Threads : todo'[t] = <<>>
    BY <1>0, <2>1
  <2>3. ListsAgree'
    BY <1>1, <2>1, <2>2 DEF ListsAgree, Parsed, Sound
  <2>4. StorageComesFirst' /\ FileAgrees'
    BY <2>1, <2>2 DEF StorageComesFirst, FileAgrees, Critical
  <2> QED BY <2>3, <2>4 DEF KeptInvariant
<1>18. CASE UNCHANGED vars
  <2>1. UNCHANGED <<memory, mirror, path, file, pc, todo, dest, before>>
    BY <1>18 DEF vars
  <2> QED BY <1>1, <2>1 DEF KeptInvariant, ListsAgree, StorageComesFirst, FileAgrees, Critical
<1> QED
  BY <1>0, <1>2, <1>3, <1>4, <1>5, <1>6, <1>7, <1>8, <1>9, <1>10, <1>11, <1>12, <1>13, <1>14, <1>15,
     <1>16, <1>17, <1>18 DEF Next, MqttStep, AppStep

\* Once storage is enabled and loaded, a restart finds in the file the rules in force,
\* or those of before the update that it interrupts, provided that nothing disturbs the
\* storage: for every number of rules, payloads and restarts.
THEOREM RulesOutliveRestarts == Undisturbed /\ Spec => RestartKeepsRules
<1>1. SUFFICES ASSUME Undisturbed PROVE Spec => RestartKeepsRules
  OBVIOUS
<1>2. Init => KeptInvariant
  BY <1>1, KeptInitial
<1>3. IInv /\ KeptInvariant /\ [Next]_vars => KeptInvariant'
  BY <1>1, KeptStep
<1>4. KeptInvariant /\ [Next]_vars =>
        [Restart /\ path /\ pc["app"] = "idle" =>
           \/ LoadedFrom(file.rules) = memory
           \/ Critical("mqtt") /\ LoadedFrom(file.rules) = before]_vars
  BY <1>1 DEF KeptInvariant, FileAgrees, Restart, Undisturbed
<1> QED BY <1>2, <1>3, <1>4, Invariant, PTL DEF Spec, RestartKeepsRules

=============================================================================
