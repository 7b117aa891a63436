--------------------------- MODULE EvaluatorProofs ---------------------------
(* Properties of AlertEvaluator for every set of views and every bound.     *)
EXTENDS AlertEvaluator, WellFoundedInduction, SequenceTheorems, TLAPS

LEMMA DetectorsType == Detectors \in Seq(Classes) /\ Detectors # <<>>
  BY DEF Detectors, Classes, Range

LEMMA ThresholdType == \A c : Threshold(c) \in Nat
  BY EvaluatorAssumption DEF Threshold

LEMMA NullIsNoId == \A i \in Int : i # Null
  BY NullAssumption

\* The latest of some ids is one of them and not before any other.
LEMMA LatestIsLast ==
    ASSUME NEW n \in Nat, NEW ids \in SUBSET (1..n), ids # {}
    PROVE  Latest(ids) \in ids /\ \A j \in ids : j <= Latest(ids)
<1> DEFINE distances == {n - i : i \in ids}
<1>1. distances \subseteq Nat
  OBVIOUS
<1>2. distances # {}
  OBVIOUS
<1>3. PICK d \in distances : \A e \in distances : ~(<<e, d>> \in OpToRel(<, Nat))
  <2> HIDE DEF distances
  <2> QED
    BY <1>1, <1>2, NatLessThanWellFounded, WFMin
<1>4. \A e \in distances : ~(e < d)
  <2>1. d \in Nat /\ \A e \in distances : e \in Nat
    BY <1>1
  <2> HIDE DEF distances
  <2> QED
    BY <1>3, <2>1 DEF OpToRel
<1>5. PICK i \in ids : d = n - i
  OBVIOUS
<1>6. \A j \in ids : j <= i
  <2> SUFFICES ASSUME NEW j \in ids PROVE j <= i
    OBVIOUS
  <2>1. n - j \in distances
    OBVIOUS
  <2>2. ~(n - j < n - i)
    BY <1>4, <1>5, <2>1
  <2>3. i \in Int /\ j \in Int
    OBVIOUS
  <2> HIDE DEF distances
  <2> QED
    BY <2>2, <2>3
<1> QED
  BY <1>6 DEF Latest

-----------------------------------------------------------------------------
(* Types *)

PassType ==
    \/ pass = NoTick
    \/ /\ pass \in [at : {"tick", "alerts"}, left : Seq(Classes), view : Views,
                    off : SUBSET Classes]
       /\ pass.left # <<>>

NoticesType ==
    /\ noticeIds \in Nat
    /\ DOMAIN notices \subseteq 1..noticeIds
    /\ \A i \in DOMAIN notices : notices[i].pairs \in 1..(i - 1) \cup {Null}

MemoryType == memory \in [Classes -> [since : Nat \cup {Null}, active : Nat \cup {Null}]]

Types == PassType /\ NoticesType /\ MemoryType /\ disabled \subseteq Classes

-----------------------------------------------------------------------------
(* One open alert per class *)

\* What a detector remembers is the last of its alerts without a recovery,
\* or one that retention has deleted since; the others were let go of.
OneOpen(c) ==
    LET a == memory[c].active
    IN  /\ a \in 1..noticeIds \cup {Null}
        /\ a \in DOMAIN notices => a \in Unpaired(c)
        /\ \A i \in Unpaired(c) : i # a => i \in dropped /\ (a # Null => i < a)

\* An alert recovers at most once.
OneRecovery ==
    \A i, j \in DOMAIN notices :
        notices[i].pairs = notices[j].pairs /\ notices[i].pairs # Null => i = j

OpenInvariant ==
    /\ Types
    /\ \A c \in Classes : OneOpen(c)
    /\ OneRecovery

LEMMA HereType ==
    ASSUME PassType, pass.at = "alerts"
    PROVE  Here \in Classes /\ (Onward => PassType')
<1>1. pass \in [at : {"tick", "alerts"}, left : Seq(Classes), view : Views,
                off : SUBSET Classes] /\ pass.left # <<>>
  BY DEF PassType, NoTick
<1>2. pass.left \in Seq(Classes) /\ pass.left # <<>>
  BY <1>1
<1>3. Here \in Classes
  BY <1>2 DEF Here
<1>4. ASSUME Onward PROVE PassType'
  <2>1. CASE Len(pass.left) = 1
    BY <1>4, <2>1 DEF Onward, PassType
  <2>2. CASE Len(pass.left) # 1
    <3>1. Tail(pass.left) \in Seq(Classes) /\ Tail(pass.left) # <<>>
      <4>1. Len(pass.left) \in Nat \ {0}
        BY <1>2, EmptySeq
      <4>2. Tail(pass.left) \in Seq(Classes) /\ Len(Tail(pass.left)) = Len(pass.left) - 1
        BY <1>2, HeadTailProperties
      <4>3. Len(Tail(pass.left)) # 0
        BY <2>2, <4>1, <4>2
      <4>4. Tail(pass.left) # <<>>
        BY <4>3, EmptySeq, Zenon
      <4> QED
        BY <4>2, <4>4
    <3>2. pass' = [pass EXCEPT !.left = Tail(pass.left)]
      BY <1>4, <2>2 DEF Onward
    <3>3. pass'.left = Tail(pass.left)
      BY <1>1, <3>2
    <3> QED
      BY <1>1, <3>1, <3>2, <3>3 DEF PassType
  <2> QED
    BY <2>1, <2>2
<1> QED
  BY <1>3, <1>4

\* What a detector remembers stays an id or nothing.
LEMMA TypesInductive ==
    ASSUME Types, [EvaluatorNext]_evaluatorVars
    PROVE  Types'
<1> USE DEF Types
<1>1. ASSUME NEW v \in Views, Observe(v)
      PROVE  Types'
  <2>1. PassType'
    BY <1>1, DetectorsType DEF Observe, PassType
  <2>2. MemoryType'
    BY <1>1, ThresholdType, NullIsNoId DEF Observe, MemoryType, Older
  <2> QED
    BY <1>1, <2>1, <2>2 DEF Observe, NoticesType
<1>2. CASE EndTick
  <2>1. PassType'
    BY <1>2 DEF EndTick, PassType, NoTick
  <2> QED
    BY <1>2, <2>1 DEF EndTick, NoticesType, MemoryType
<1>3. CASE Fire
  BY <1>3, HereType DEF Fire, Detecting, Write, NoticesType, MemoryType, Armed
<1>4. CASE Recover
  BY <1>4, HereType DEF Recover, Detecting, Write, NoticesType, MemoryType, Initial
<1>5. CASE FailToRecover
  BY <1>5 DEF FailToRecover, Detecting, PassType, NoticesType, MemoryType
<1>6. CASE StaySilent
  BY <1>6, HereType DEF StaySilent, Detecting, NoticesType, MemoryType, Initial, Armed
<1>7. CASE \E c \in Classes : ToggleClass(c)
  BY <1>7 DEF ToggleClass, PassType, NoticesType, MemoryType
<1>8. CASE \E cutoff \in 0..noticeIds : PruneNotices(cutoff)
  BY <1>8 DEF PruneNotices, PassType, NoticesType, MemoryType
<1>9. CASE RestartEvaluator
  <2>1. \A c : Unpaired(c) \in SUBSET (1..noticeIds)
    BY DEF Unpaired, NoticesType
  <2>2. \A c : Hydrated(c) \in [since : Nat \cup {Null}, active : Nat \cup {Null}]
    <3> SUFFICES ASSUME NEW c
                 PROVE  Hydrated(c) \in [since : Nat \cup {Null}, active : Nat \cup {Null}]
      OBVIOUS
    <3>1. Unpaired(c) # {} => Latest(Unpaired(c)) \in Nat
      <4>1. noticeIds \in Nat /\ Unpaired(c) \in SUBSET (1..noticeIds)
        BY <2>1 DEF NoticesType
      <4>2. Unpaired(c) # {} => Latest(Unpaired(c)) \in Unpaired(c)
        BY <4>1, LatestIsLast, Zenon
      <4> QED
        BY <4>1, <4>2
    <3> QED
      BY <3>1, ThresholdType DEF Hydrated, Initial
  <2> QED
    BY <1>9, <2>2 DEF RestartEvaluator, PassType, NoticesType, MemoryType
<1>10. CASE UNCHANGED evaluatorVars
  BY <1>10 DEF evaluatorVars, PassType, NoticesType, MemoryType
<1> QED
  BY <1>1, <1>2, <1>3, <1>4, <1>5, <1>6, <1>7, <1>8, <1>9, <1>10 DEF EvaluatorNext, Detect

\* The rows a class has open, after a row is written.
LEMMA Firing ==
    ASSUME Types, NEW h, Write([class |-> h, pairs |-> Null])
    PROVE  /\ noticeIds' = noticeIds + 1
           /\ DOMAIN notices' = DOMAIN notices \cup {noticeIds + 1}
           /\ noticeIds + 1 \notin DOMAIN notices
           /\ \A i \in DOMAIN notices : notices'[i] = notices[i]
           /\ notices'[noticeIds + 1] = [class |-> h, pairs |-> Null]
           /\ \A c : Unpaired(c)' = Unpaired(c)
                                      \cup (IF c = h THEN {noticeIds + 1} ELSE {})
<1>1. /\ noticeIds' = noticeIds + 1
      /\ DOMAIN notices' = DOMAIN notices \cup {noticeIds + 1}
      /\ noticeIds + 1 \notin DOMAIN notices
      /\ \A i \in DOMAIN notices : notices'[i] = notices[i]
      /\ notices'[noticeIds + 1] = [class |-> h, pairs |-> Null]
  BY DEF Write, Types, NoticesType
<1>2. \A i \in DOMAIN notices : i # noticeIds + 1 /\ notices[i].pairs # noticeIds + 1
  BY NullIsNoId DEF Types, NoticesType
<1>3. noticeIds + 1 # Null
  BY NullIsNoId DEF Types, NoticesType
<1>4. \A i \in DOMAIN notices : i # Null
  BY NullIsNoId DEF Types, NoticesType
<1> QED
  BY <1>1, <1>2, <1>3, <1>4 DEF Unpaired

LEMMA Recovering ==
    ASSUME Types, NEW h, NEW a \in DOMAIN notices, Write([class |-> h, pairs |-> a])
    PROVE  /\ noticeIds' = noticeIds + 1
           /\ DOMAIN notices' = DOMAIN notices \cup {noticeIds + 1}
           /\ noticeIds + 1 \notin DOMAIN notices
           /\ \A i \in DOMAIN notices : notices'[i] = notices[i]
           /\ notices'[noticeIds + 1] = [class |-> h, pairs |-> a]
           /\ \A c : Unpaired(c)' = Unpaired(c) \ {a}
<1>1. /\ noticeIds' = noticeIds + 1
      /\ DOMAIN notices' = DOMAIN notices \cup {noticeIds + 1}
      /\ noticeIds + 1 \notin DOMAIN notices
      /\ \A i \in DOMAIN notices : notices'[i] = notices[i]
      /\ notices'[noticeIds + 1] = [class |-> h, pairs |-> a]
  BY DEF Write, Types, NoticesType
<1>2. a # Null
  BY NullIsNoId DEF Types, NoticesType
<1> QED
  BY <1>1, <1>2 DEF Unpaired

\* Retention takes a recovery only with the alert it closed.
LEMMA Pruning ==
    ASSUME Types, NEW cutoff \in Nat, PruneNotices(cutoff)
    PROVE  \A c : Unpaired(c)' = Unpaired(c) \cap DOMAIN notices'
<1>1. /\ DOMAIN notices' = {j \in DOMAIN notices : j > cutoff}
      /\ \A i \in DOMAIN notices' : notices'[i] = notices[i]
  BY DEF PruneNotices
<1>2. \A i, j \in DOMAIN notices : notices[j].pairs = i /\ i > cutoff => j > cutoff
  BY NullIsNoId DEF Types, NoticesType
<1> QED
  BY <1>1, <1>2 DEF Unpaired

LEMMA OpenInductive ==
    ASSUME OpenInvariant, [EvaluatorNext]_evaluatorVars, Types'
    PROVE  (\A c \in Classes : OneOpen(c))' /\ OneRecovery'
<1> USE DEF OpenInvariant
<1>1. ASSUME UNCHANGED <<notices, noticeIds, dropped>>,
             \A c \in Classes : memory'[c].active = memory[c].active
      PROVE  (\A c \in Classes : OneOpen(c))' /\ OneRecovery'
  BY <1>1 DEF OneOpen, Unpaired, OneRecovery
<1>2. ASSUME NEW v \in Views, Observe(v)
      PROVE  (\A c \in Classes : OneOpen(c))' /\ OneRecovery'
  BY <1>1, <1>2 DEF Observe, Types, MemoryType
<1>3. CASE EndTick \/ (\E c \in Classes : ToggleClass(c)) \/ UNCHANGED evaluatorVars
  BY <1>1, <1>3 DEF EndTick, ToggleClass, evaluatorVars
<1>4. CASE FailToRecover
  BY <1>1, <1>4 DEF FailToRecover, Detecting
<1>5. CASE Fire
  <2> DEFINE n == noticeIds + 1
  <2>1. Here \in Classes /\ Write([class |-> Here, pairs |-> Null])
    BY <1>5, HereType DEF Fire, Detecting, Types
  <2>2. /\ noticeIds' = n
        /\ \A c : Unpaired(c)' = Unpaired(c) \cup (IF c = Here THEN {n} ELSE {})
        /\ DOMAIN notices' = DOMAIN notices \cup {n}
    BY <2>1, Firing
  <2>3. /\ memory[Here].active = Null
        /\ memory'[Here].active = n
        /\ \A c \in Classes \ {Here} : memory'[c] = memory[c]
        /\ dropped' = dropped
    BY <1>5, <2>1, <2>2 DEF Fire, Fires, Types, MemoryType
  <2>4. noticeIds \in Nat /\ \A c : Unpaired(c) \subseteq 1..noticeIds
    BY DEF Types, NoticesType, Unpaired
  <2>5. ASSUME NEW c \in Classes PROVE OneOpen(c)'
    <3>1. CASE c = Here
      <4>1. \A i \in Unpaired(c) : i \in dropped /\ i < n
        BY <2>3, <2>4, <3>1, NullIsNoId DEF OneOpen
      <4> QED
        BY <2>2, <2>3, <2>4, <3>1, <4>1 DEF OneOpen
    <3>2. CASE c # Here
      <4>1. memory[c].active # n
        BY <2>4, NullIsNoId DEF OneOpen
      <4> HIDE DEF n
      <4>2. Unpaired(c)' = Unpaired(c)
        BY <2>2, <3>2
      <4>3. memory'[c].active = memory[c].active
        BY <2>3, <3>2
      <4>4. noticeIds' = noticeIds + 1
        BY <2>2 DEF n
      <4> QED
        BY <2>2, <2>3, <2>4, <4>1, <4>2, <4>3, <4>4 DEF OneOpen
    <3> QED
      BY <3>1, <3>2
  <2>6. OneRecovery'
    <3>1. /\ \A i \in DOMAIN notices : notices'[i] = notices[i]
          /\ notices'[n].pairs = Null
      BY <2>1, Firing
    <3> HIDE DEF n
    <3> QED
      BY <2>2, <3>1 DEF OneRecovery
  <2> QED
    BY <2>5, <2>6
<1>6. CASE Recover
  <2> DEFINE a == memory[Here].active
  <2>1. Here \in Classes /\ a \in DOMAIN notices /\ Write([class |-> Here, pairs |-> a])
    BY <1>6, HereType DEF Recover, Detecting, Types
  <2>2. /\ noticeIds' = noticeIds + 1
        /\ \A c : Unpaired(c)' = Unpaired(c) \ {a}
        /\ DOMAIN notices' = DOMAIN notices \cup {noticeIds + 1}
        /\ \A i \in DOMAIN notices : notices'[i] = notices[i]
        /\ notices'[noticeIds + 1].pairs = a
    BY <2>1, Recovering
  <2>3. /\ memory'[Here].active = Null
        /\ \A c \in Classes \ {Here} : memory'[c] = memory[c]
        /\ dropped' = dropped
    BY <1>6, <2>1 DEF Recover, Initial, Types, MemoryType
  <2>4. noticeIds \in Nat /\ \A c : Unpaired(c) \subseteq 1..noticeIds
    BY DEF Types, NoticesType, Unpaired
  <2>5. a \in Unpaired(Here) /\ \A c : a \in Unpaired(c) => c = Here
    BY <2>1 DEF OneOpen, Unpaired
  <2>6. ASSUME NEW c \in Classes PROVE OneOpen(c)'
    <3>1. CASE c = Here
      <4>1. \A i \in Unpaired(c)' : i \in dropped'
        BY <2>2, <2>3, <3>1 DEF OneOpen
      <4>2. Null \notin DOMAIN notices'
        BY <2>2, <2>4, NullIsNoId DEF Types, NoticesType
      <4> QED
        BY <2>3, <3>1, <4>1, <4>2 DEF OneOpen
    <3>2. CASE c # Here
      <4>1. Unpaired(c)' = Unpaired(c)
        BY <2>2, <2>5, <3>2
      <4>2. memory'[c].active = memory[c].active
        BY <2>3, <3>2
      <4>3. memory[c].active # noticeIds + 1
        BY <2>4, NullIsNoId DEF OneOpen
      <4> QED
        BY <2>2, <2>3, <2>4, <4>1, <4>2, <4>3 DEF OneOpen
    <3> QED
      BY <3>1, <3>2
  <2>7. OneRecovery'
    <3>1. \A i \in DOMAIN notices : notices[i].pairs # a
      BY <2>5 DEF Unpaired
    <3> HIDE DEF a
    <3> QED
      BY <2>2, <3>1 DEF OneRecovery
  <2> QED
    BY <2>6, <2>7
<1>7. CASE StaySilent
  <2>1. Here \in Classes
    BY <1>7, HereType DEF StaySilent, Detecting, Types
  <2>2. UNCHANGED <<notices, noticeIds>>
    BY <1>7 DEF StaySilent
  <2>3. /\ memory'[Here].active \in {memory[Here].active, Null}
        /\ \A c \in Classes \ {Here} : memory'[c] = memory[c]
    BY <1>7, <2>1 DEF StaySilent, Initial, Types, MemoryType
  <2>4. dropped' = dropped \cup ({memory[Here].active} \ {memory'[Here].active})
    BY <1>7 DEF StaySilent
  <2>5. \A c : Unpaired(c)' = Unpaired(c) /\ Null \notin DOMAIN notices
    BY <2>2, NullIsNoId DEF Unpaired, Types, NoticesType
  <2>6. ASSUME NEW c \in Classes PROVE OneOpen(c)'
    <3>1. CASE c # Here \/ memory'[Here].active = memory[Here].active
      BY <2>1, <2>2, <2>3, <2>4, <2>5, <3>1 DEF OneOpen
    <3>2. CASE c = Here /\ memory'[Here].active # memory[Here].active
      BY <2>1, <2>2, <2>3, <2>4, <2>5, <3>2 DEF OneOpen
    <3> QED
      BY <3>1, <3>2
  <2> QED
    BY <2>2, <2>6 DEF OneRecovery
<1>8. CASE \E cutoff \in 0..noticeIds : PruneNotices(cutoff)
  <2> PICK cutoff \in 0..noticeIds : PruneNotices(cutoff)
    BY <1>8
  <2>1. /\ UNCHANGED <<memory, noticeIds, dropped>>
        /\ DOMAIN notices' \subseteq DOMAIN notices
        /\ \A i \in DOMAIN notices' : notices'[i] = notices[i]
    BY DEF PruneNotices
  <2>2. \A c : Unpaired(c)' = Unpaired(c) \cap DOMAIN notices'
    BY Pruning DEF Types, NoticesType
  <2> QED
    BY <2>1, <2>2 DEF OneOpen, OneRecovery
<1>9. CASE RestartEvaluator
  <2>1. /\ UNCHANGED <<notices, noticeIds>>
        /\ \A c \in Classes : memory'[c] = Hydrated(c)
        /\ dropped' = dropped \ {memory'[c].active : c \in Classes}
    BY <1>9 DEF RestartEvaluator
  <2>2. \A c : /\ Unpaired(c)' = Unpaired(c)
               /\ Unpaired(c) \in SUBSET (1..noticeIds)
               /\ Null \notin DOMAIN notices
    BY <2>1, NullIsNoId DEF Unpaired, Types, NoticesType
  <2>3. ASSUME NEW c \in Classes
        PROVE  \/ Unpaired(c) = {} /\ memory'[c].active = Null
               \/ /\ memory'[c].active \in Unpaired(c)
                  /\ \A i \in Unpaired(c) : i <= memory'[c].active
    <3>1. noticeIds \in Nat /\ Unpaired(c) \in SUBSET (1..noticeIds)
      BY <2>2 DEF Types, NoticesType
    <3>2. CASE Unpaired(c) = {}
      <4>1. memory'[c] = Initial
        BY <2>1, <3>2, Zenon DEF Hydrated
      <4> QED
        BY <3>2, <4>1 DEF Initial
    <3>3. CASE Unpaired(c) # {}
      <4>1. /\ Latest(Unpaired(c)) \in Unpaired(c)
            /\ \A i \in Unpaired(c) : i <= Latest(Unpaired(c))
        BY <3>1, <3>3, LatestIsLast, Zenon
      <4>2. memory'[c] = [since |-> Threshold(c), active |-> Latest(Unpaired(c))]
        BY <2>1, <3>3, Zenon DEF Hydrated
      <4> QED
        BY <4>1, <4>2
    <3> QED
      BY <3>2, <3>3
  <2>4. ASSUME NEW c \in Classes PROVE OneOpen(c)'
    <3> DEFINE b == memory'[c].active
    <3>1. CASE Unpaired(c) = {}
      BY <2>1, <2>2, <2>3, <3>1 DEF OneOpen
    <3>2. CASE Unpaired(c) # {}
      <4>1. b \in Unpaired(c) /\ \A i \in Unpaired(c) : i <= b
        BY <2>3, <3>2
      <4>2. ASSUME NEW i \in Unpaired(c), i # b
            PROVE  i \in dropped' /\ i < b
        <5>1. i \in Int /\ b \in Int /\ i < b
          BY <2>2, <4>1, <4>2
        <5>2. i \in dropped
          BY <4>1, <5>1, NullIsNoId DEF OneOpen
        <5>3. ASSUME NEW d \in Classes PROVE memory'[d].active # i
          <6>1. memory'[d].active \in Unpaired(d) \/ memory'[d].active = Null
            BY <2>3
          <6> QED
            BY <4>2, <5>1, <6>1, NullIsNoId DEF Unpaired
        <5> QED
          BY <2>1, <5>1, <5>2, <5>3
      <4>3. Unpaired(c) \subseteq DOMAIN notices /\ Unpaired(c) \subseteq 1..noticeIds
        BY <2>2 DEF Unpaired
      <4> QED
        BY <2>1, <2>2, <4>1, <4>2, <4>3 DEF OneOpen
    <3> QED
      BY <3>1, <3>2
  <2> QED
    BY <2>1, <2>4 DEF OneRecovery
<1> QED
  BY <1>2, <1>3, <1>4, <1>5, <1>6, <1>7, <1>8, <1>9 DEF EvaluatorNext, Detect

LEMMA OpenInvariantInit == EvaluatorInit => OpenInvariant
<1> SUFFICES ASSUME EvaluatorInit PROVE OpenInvariant
  OBVIOUS
<1>1. DOMAIN notices = {} /\ noticeIds = 0 /\ disabled = {} /\ pass = NoTick
  BY DEF EvaluatorInit
<1>2. memory \in [Classes -> {[since |-> Null, active |-> Null]}]
  BY DEF EvaluatorInit, Initial
<1>3. Types
  BY <1>1, <1>2 DEF Types, PassType, NoticesType, MemoryType
<1> QED
  BY <1>1, <1>2, <1>3 DEF OpenInvariant, OneOpen, OneRecovery, Unpaired

LEMMA OpenInvariantHolds == EvaluatorSpec => []OpenInvariant
<1>1. OpenInvariant /\ [EvaluatorNext]_evaluatorVars => OpenInvariant'
  BY TypesInductive, OpenInductive DEF OpenInvariant
<1> QED
  BY <1>1, OpenInvariantInit, PTL DEF EvaluatorSpec

\* A class never has two alerts open at once, restarts included, apart from
\* those it let go of when it was switched off.
THEOREM OneOpenAlertHolds == EvaluatorSpec => []OneOpenAlert
<1>1. OpenInvariant => OneOpenAlert
  BY DEF OpenInvariant, OneOpen, OneOpenAlert
<1> QED
  BY <1>1, OpenInvariantHolds, PTL

\* However often the daemon restarts and retention deletes, the same alert
\* never gets a second recovery.
THEOREM OneRecoveryHolds == EvaluatorSpec => []OneRecovery
<1>1. OpenInvariant => OneRecovery
  BY DEF OpenInvariant
<1> QED
  BY <1>1, OpenInvariantHolds, PTL

-----------------------------------------------------------------------------
(* Recoveries are earned *)

\* A recovery is written by one action only.
LEMMA RecoveryIsRecover ==
    ASSUME OpenInvariant, [EvaluatorNext]_evaluatorVars,
           NEW c, Written(c, TRUE)
    PROVE  /\ Recover
           /\ c = Here
           /\ Here \in Classes
           /\ memory[Here].active \in DOMAIN notices
<1> USE DEF OpenInvariant
<1>1. noticeIds' # noticeIds
  BY DEF Written, Types, NoticesType
<1>2. CASE Fire
  <2>1. Write([class |-> Here, pairs |-> Null])
    BY <1>2 DEF Fire
  <2>2. notices'[noticeIds + 1].pairs = Null /\ noticeIds' = noticeIds + 1
    BY <2>1, Firing
  <2> QED
    BY <2>2 DEF Written
<1>3. CASE Recover
  <2>1. /\ Here \in Classes
        /\ memory[Here].active \in DOMAIN notices
        /\ Write([class |-> Here, pairs |-> memory[Here].active])
    BY <1>3, HereType DEF Recover, Detecting, Types
  <2>2. noticeIds' = noticeIds + 1 /\ notices'[noticeIds + 1].class = Here
    BY <2>1 DEF Write
  <2> QED
    BY <1>3, <2>1, <2>2 DEF Written
<1> QED
  BY <1>1, <1>2, <1>3 DEF EvaluatorNext, Observe, EndTick, Detect, FailToRecover,
     StaySilent, ToggleClass, PruneNotices, RestartEvaluator, evaluatorVars

\* While an alert about failed calls is open the streak is at its limit, and
\* by the time of a pass its tick is on record.
StreakInvariant ==
    /\ memory["mutation_failed"].active \in DOMAIN notices => streak = StreakTicks
    /\ pass.at = "alerts" /\ pass.view.executed = "worked" => lastWork = "worked"

LEMMA MutationIsAClass == "mutation_failed" \in Classes /\ "hashrate_below_floor" \in Classes
  BY DEF Classes, Detectors, Range

LEMMA StreakInductive ==
    ASSUME OpenInvariant, StreakInvariant, [EvaluatorNext]_evaluatorVars
    PROVE  StreakInvariant'
<1> DEFINE m == "mutation_failed"
<1> USE DEF OpenInvariant, StreakInvariant
<1>0. m \in Classes
  BY MutationIsAClass
<1>1. ASSUME NEW v \in Views, Observe(v)
      PROVE  StreakInvariant'
  <2>1. memory'[m].active = memory[m].active
    BY <1>0, <1>1 DEF Observe, Types, MemoryType
  <2> QED
    BY <1>1, <2>1 DEF Observe
<1>2. CASE EndTick
  <2>1. pass'.view = pass.view
    BY <1>2 DEF EndTick, Types, PassType, NoTick
  <2> QED
    BY <1>2, <2>1 DEF EndTick
<1>3. CASE Detect
  <2>1. pass'.at = "alerts" => pass'.view = pass.view /\ pass.at = "alerts"
    BY <1>3 DEF Detect, Fire, Recover, FailToRecover, StaySilent, Detecting, Onward,
       NoTick, Types, PassType
  <2>2. lastWork' = lastWork
    BY <1>3 DEF Detect, Fire, Recover, FailToRecover, StaySilent, Detecting
  <2>3. Here \in Classes
    BY <1>3, HereType DEF Detect, Fire, Recover, FailToRecover, StaySilent, Detecting,
       Types
  <2>4. memory'[m].active \in DOMAIN notices' => streak' = StreakTicks
    <3>1. CASE Here # m
      <4>1. streak' = streak
        <5>1. CASE CountStreak
          BY <3>1, <5>1 DEF CountStreak
        <5>2. CASE FailToRecover
          BY <3>1, <5>2 DEF FailToRecover
        <5> QED
          BY <1>3, <5>1, <5>2 DEF Detect, Fire, Recover, StaySilent
      <4>2. memory'[m] = memory[m]
        BY <1>0, <1>3, <3>1 DEF Detect, Fire, Recover, FailToRecover, StaySilent, Types,
           MemoryType
      <4>3. DOMAIN notices' \subseteq DOMAIN notices \cup {noticeIds + 1}
        BY <1>3 DEF Detect, Fire, Recover, FailToRecover, StaySilent, Write
      <4>4. memory[m].active # noticeIds + 1
        BY <1>0, NullIsNoId DEF OneOpen, Types, NoticesType
      <4> QED
        BY <4>1, <4>2, <4>3, <4>4
    <3>2. CASE Here = m /\ Fire
      <4>1. Reading = "bad" /\ ~Muted /\ CountStreak
        BY <3>2 DEF Fire, Fires
      <4>2. StreakAfter(pass.view) = StreakTicks
        BY <3>2, <4>1 DEF Reading, Readings, MutationReading, Bad
      <4> QED
        BY <3>2, <4>1, <4>2 DEF CountStreak
    <3>3. CASE Here = m /\ Recover
      <4>1. memory'[m].active = Null
        BY <1>0, <3>3 DEF Recover, Initial, Types, MemoryType
      <4>2. Null \notin DOMAIN notices'
        BY <3>3, NullIsNoId DEF Recover, Write, Types, NoticesType
      <4> QED
        BY <4>1, <4>2
    <3>4. CASE Here = m /\ FailToRecover
      BY <3>4 DEF FailToRecover
    <3>5. CASE Here = m /\ StaySilent
      <4>1. CASE memory'[m].active = Null
        <5>1. Null \notin DOMAIN notices'
          BY <3>5, NullIsNoId DEF StaySilent, Types, NoticesType
        <5> QED
          BY <4>1, <5>1
      <4>2. CASE memory'[m].active # Null
        <5>1. Reading # "good" /\ ~Muted
          BY <1>0, <3>5, <4>2 DEF StaySilent, Recovers, Initial, Types, MemoryType,
             Reading, Readings, MutationReading, Bad
        <5>2. StreakAfter(pass.view) = StreakTicks
          BY <3>5, <5>1 DEF Reading, Readings, MutationReading, Bad
        <5> QED
          BY <3>5, <5>1, <5>2 DEF StaySilent, CountStreak
      <4> QED
        BY <4>1, <4>2
    <3> QED
      BY <1>3, <3>1, <3>2, <3>3, <3>4, <3>5 DEF Detect
  <2> QED
    BY <2>1, <2>2, <2>4
<1>4. CASE (\E c \in Classes : ToggleClass(c)) \/ UNCHANGED evaluatorVars
  BY <1>4 DEF ToggleClass, evaluatorVars
<1>5. CASE \E cutoff \in 0..noticeIds : PruneNotices(cutoff)
  <2>1. DOMAIN notices' \subseteq DOMAIN notices
    BY <1>5 DEF PruneNotices
  <2> QED
    BY <1>5, <2>1 DEF PruneNotices
<1>6. CASE RestartEvaluator
  <2>1. memory'[m] = Hydrated(m) /\ streak' = StreakRestored /\ notices' = notices
        /\ pass'.at = "idle"
    BY <1>0, <1>6 DEF RestartEvaluator, NoTick
  <2>2. CASE Unpaired(m) = {}
    <3>1. memory'[m] = Initial
      BY <2>1, <2>2, Zenon DEF Hydrated
    <3>2. Null \notin DOMAIN notices'
      BY <2>1, NullIsNoId DEF Types, NoticesType
    <3> QED
      BY <2>1, <3>1, <3>2 DEF Initial
  <2>3. CASE Unpaired(m) # {}
    BY <2>1, <2>3 DEF StreakRestored
  <2> QED
    BY <2>2, <2>3
<1> QED
  BY <1>1, <1>2, <1>3, <1>4, <1>5, <1>6 DEF EvaluatorNext

\* "Bids go through again" is said only if the last calls made went through.
THEOREM MutationRecoveryEarnedHolds == EvaluatorSpec => MutationRecoveryEarned
<1>1. EvaluatorInit => StreakInvariant
  BY NullIsNoId, MutationIsAClass DEF EvaluatorInit, StreakInvariant, Initial, NoTick
<1>2. OpenInvariant /\ StreakInvariant /\ [EvaluatorNext]_evaluatorVars => StreakInvariant'
  BY StreakInductive
<1>3. OpenInvariant /\ StreakInvariant /\ [EvaluatorNext]_evaluatorVars
         => (Written("mutation_failed", TRUE) => lastWork = "worked")
  <2> SUFFICES ASSUME OpenInvariant, StreakInvariant, [EvaluatorNext]_evaluatorVars,
                      Written("mutation_failed", TRUE)
               PROVE  lastWork = "worked"
    OBVIOUS
  <2>1. /\ Recover
        /\ Here = "mutation_failed"
        /\ memory["mutation_failed"].active \in DOMAIN notices
    BY RecoveryIsRecover
  <2>2. pass.at = "alerts" /\ Reading = "good"
    BY <2>1 DEF Recover, Recovers, Detecting
  <2>3. StreakAfter(pass.view) # StreakTicks
    BY <2>1, <2>2 DEF Reading, Readings, MutationReading, Bad
  <2>4. streak = StreakTicks
    BY <2>1 DEF StreakInvariant
  <2>5. pass.view.executed = "worked"
    BY <2>3, <2>4, EvaluatorAssumption DEF StreakAfter, Older
  <2> QED
    BY <2>2, <2>5 DEF StreakInvariant
<1> QED
  BY <1>1, <1>2, <1>3, OpenInvariantHolds, PTL
     DEF EvaluatorSpec, MutationRecoveryEarned

\* The timer is below the floor, or it left it after the debounce.
Settled(f) == f.below \/ f.above = FloorDebounce

FloorTypes == [below : BOOLEAN, above : 0..FloorDebounce]

\* Once below, the timer stays settled; ticks above the floor are counted.
LEMMA FloorStep ==
    ASSUME NEW f \in FloorTypes, NEW v
    PROVE  /\ FloorAfter(f, v) \in FloorTypes
           /\ Settled(f) => Settled(FloorAfter(f, v))
           /\ v.delivered # "ok" /\ CanTell(v) => FloorAfter(f, v).below
           /\ FloorAfter(f, v).above =
                IF ~CanTell(v) THEN f.above
                ELSE IF v.delivered = "ok" THEN Older(f.above, FloorDebounce) ELSE 0
<1>1. /\ f.above \in 0..FloorDebounce /\ f.below \in BOOLEAN
      /\ FloorDebounce \in Nat
  BY EvaluatorAssumption DEF FloorTypes
<1>2. f.above # Null
  BY <1>1, NullIsNoId
<1>3. Older(f.above, FloorDebounce) \in 0..FloorDebounce
  BY <1>1 DEF Older
<1>4. CASE ~CanTell(v)
  BY <1>4 DEF FloorAfter
<1>5. CASE CanTell(v) /\ v.delivered # "ok"
  <2>1. FloorAfter(f, v) = [below |-> TRUE, above |-> 0]
    BY <1>5 DEF FloorAfter
  <2> QED
    BY <1>1, <1>5, <2>1 DEF FloorTypes, Settled
<1>6. CASE CanTell(v) /\ v.delivered = "ok"
  <2> DEFINE above == Older(f.above, FloorDebounce)
  <2>1. FloorAfter(f, v) = [below |-> f.below /\ above < FloorDebounce, above |-> above]
    BY <1>6, Zenon DEF FloorAfter
  <2>2. FloorAfter(f, v).above = above /\ FloorAfter(f, v) \in FloorTypes
    BY <1>1, <1>3, <2>1 DEF FloorTypes
  <2>3. f.above = FloorDebounce => above = FloorDebounce
    BY <1>1, <1>2 DEF Older
  <2>4. Settled(f) => Settled(FloorAfter(f, v))
    BY <1>1, <1>3, <2>1, <2>3 DEF Settled
  <2> QED
    BY <1>6, <2>2, <2>4
<1> QED
  BY <1>4, <1>5, <1>6

\* The saved timer counts what the completed ticks saw, the timer in memory
\* is one tick ahead at most, and with an alert about the floor in the table
\* the timer is settled.
FloorInvariant ==
    /\ savedFloor \in FloorTypes
    /\ savedFloor.above = aboveRun
    /\ floor = IF pass.at = "tick" THEN FloorAfter(savedFloor, pass.view) ELSE savedFloor
    /\ (\E i \in DOMAIN notices : notices[i].class = "hashrate_below_floor")
          => Settled(savedFloor)

LEMMA FloorInductive ==
    ASSUME OpenInvariant, FloorInvariant, [EvaluatorNext]_evaluatorVars
    PROVE  FloorInvariant'
<1> USE DEF OpenInvariant, FloorInvariant
<1>1. ASSUME NEW v \in Views, Observe(v)
      PROVE  FloorInvariant'
  BY <1>1 DEF Observe
<1>2. CASE EndTick
  <2>1. floor = FloorAfter(savedFloor, pass.view) /\ savedFloor' = floor /\ floor' = floor
    BY <1>2 DEF EndTick
  <2>2. pass'.at = "alerts"
    BY <1>2 DEF EndTick, Types, PassType, NoTick
  <2>3. /\ savedFloor' \in FloorTypes
        /\ Settled(savedFloor) => Settled(savedFloor')
        /\ savedFloor'.above =
             IF ~CanTell(pass.view) THEN aboveRun
             ELSE IF pass.view.delivered = "ok" THEN Older(aboveRun, FloorDebounce) ELSE 0
    <3> DEFINE after == FloorAfter(savedFloor, pass.view)
    <3>1. /\ after \in FloorTypes
          /\ Settled(savedFloor) => Settled(after)
          /\ after.above =
               IF ~CanTell(pass.view) THEN savedFloor.above
               ELSE IF pass.view.delivered = "ok"
                    THEN Older(savedFloor.above, FloorDebounce) ELSE 0
      BY FloorStep
    <3>2. savedFloor' = after
      BY <2>1
    <3> HIDE DEF after
    <3> QED
      BY <3>1, <3>2
  <2>4. aboveRun' = savedFloor'.above
    BY <1>2, <2>3 DEF EndTick
  <2>5. notices' = notices
    BY <1>2 DEF EndTick
  <2> QED
    BY <2>1, <2>2, <2>3, <2>4, <2>5
<1>3. CASE Detect
  <2>1. UNCHANGED <<floor, savedFloor, aboveRun>> /\ pass.at = "alerts"
    BY <1>3 DEF Detect, Fire, Recover, FailToRecover, StaySilent, Detecting
  <2>2. pass'.at # "tick"
    BY <1>3 DEF Detect, Fire, Recover, FailToRecover, StaySilent, Detecting, Onward,
       NoTick, Types, PassType
  <2>3. CASE notices' = notices
    BY <2>1, <2>2, <2>3
  <2>4. CASE Fire
    <3>1. Here \in Classes /\ Write([class |-> Here, pairs |-> Null])
      BY <2>4, HereType DEF Fire, Detecting, Types
    <3>2. /\ DOMAIN notices' = DOMAIN notices \cup {noticeIds + 1}
          /\ \A i \in DOMAIN notices : notices'[i] = notices[i]
          /\ notices'[noticeIds + 1].class = Here
      BY <3>1, Firing
    <3>3. Here = "hashrate_below_floor" => floor.below
      BY <2>4 DEF Fire, Fires, Reading, Readings, FloorReading
    <3> QED
      BY <2>1, <2>2, <3>2, <3>3 DEF Settled
  <2>5. CASE Recover
    <3> DEFINE a == memory[Here].active
    <3>1. Here \in Classes /\ a \in DOMAIN notices /\ Write([class |-> Here, pairs |-> a])
      BY <2>5, HereType DEF Recover, Detecting, Types
    <3>2. /\ DOMAIN notices' = DOMAIN notices \cup {noticeIds + 1}
          /\ \A i \in DOMAIN notices : notices'[i] = notices[i]
          /\ notices'[noticeIds + 1].class = Here
      BY <3>1, Recovering
    <3>3. notices[a].class = Here
      BY <3>1 DEF OneOpen, Unpaired
    <3> QED
      BY <2>1, <2>2, <3>1, <3>2, <3>3
  <2> QED
    BY <1>3, <2>3, <2>4, <2>5 DEF Detect, FailToRecover, StaySilent
<1>4. CASE (\E c \in Classes : ToggleClass(c)) \/ UNCHANGED evaluatorVars
  BY <1>4 DEF ToggleClass, evaluatorVars
<1>5. CASE \E cutoff \in 0..noticeIds : PruneNotices(cutoff)
  <2>1. /\ UNCHANGED <<floor, savedFloor, pass, aboveRun>>
        /\ DOMAIN notices' \subseteq DOMAIN notices
        /\ \A i \in DOMAIN notices' : notices'[i] = notices[i]
    BY <1>5 DEF PruneNotices
  <2> QED
    BY <2>1
<1>6. CASE RestartEvaluator
  BY <1>6 DEF RestartEvaluator, NoTick
<1> QED
  BY <1>1, <1>2, <1>3, <1>4, <1>5, <1>6 DEF EvaluatorNext

LEMMA FloorInvariantInit == EvaluatorInit => FloorInvariant
<1>1. EvaluatorInit => savedFloor \in FloorTypes /\ savedFloor.above = aboveRun
  BY EvaluatorAssumption DEF EvaluatorInit, NoFloor, FloorTypes
<1> QED
  BY <1>1 DEF EvaluatorInit, FloorInvariant, NoTick

\* A below-floor alert is closed only after the full count of completed
\* ticks above the floor, whatever restarts and outages come in between.
THEOREM FloorRecoveryEarnedHolds == EvaluatorSpec => FloorRecoveryEarned
<1>1. OpenInvariant /\ FloorInvariant /\ [EvaluatorNext]_evaluatorVars => FloorInvariant'
  BY FloorInductive
<1>2. OpenInvariant /\ FloorInvariant /\ [EvaluatorNext]_evaluatorVars
         => (Written("hashrate_below_floor", TRUE) => aboveRun = FloorDebounce)
  <2> SUFFICES ASSUME OpenInvariant, FloorInvariant, [EvaluatorNext]_evaluatorVars,
                      Written("hashrate_below_floor", TRUE)
               PROVE  aboveRun = FloorDebounce
    OBVIOUS
  <2>1. /\ Recover
        /\ Here = "hashrate_below_floor"
        /\ memory[Here].active \in DOMAIN notices
        /\ Here \in Classes
    BY RecoveryIsRecover
  <2>2. pass.at = "alerts" /\ Reading = "good"
    BY <2>1 DEF Recover, Recovers, Detecting
  <2>3. ~floor.below
    BY <2>1, <2>2 DEF Reading, Readings, FloorReading
  <2>4. notices[memory[Here].active].class = Here
    BY <2>1 DEF OpenInvariant, OneOpen, Unpaired
  <2> QED
    BY <2>1, <2>2, <2>3, <2>4 DEF FloorInvariant, Settled
<1> QED
  BY <1>1, <1>2, FloorInvariantInit, OpenInvariantHolds, PTL
     DEF EvaluatorSpec, FloorRecoveryEarned

-----------------------------------------------------------------------------
(* The evaluator: types *)

\* A class has waited no longer than its threshold, the streak stops at its
\* limit, and a pass writes one row per detector at most.
EvaluatorBounds ==
    /\ \A c \in Classes : memory[c].since \in 0..Threshold(c) \cup {Null}
    /\ streak \in 0..StreakTicks
    /\ \A i \in DOMAIN notices : notices[i].class \in Classes
    /\ noticeIds + Len(pass.left) <= MaxRows + Len(Detectors)

EvaluatorTypes == OpenInvariant /\ FloorInvariant /\ EvaluatorBounds

LEMMA DetectorsLength == Len(Detectors) \in Nat /\ Len(Detectors) = 12
  BY DEF Detectors

LEMMA PassLength ==
    ASSUME PassType
    PROVE  /\ Len(pass.left) \in Nat
           /\ pass.at = "alerts" => Len(pass.left) >= 1
           /\ pass.at = "alerts" /\ Onward => Len(pass'.left) = Len(pass.left) - 1
<1>1. CASE pass = NoTick
  <2>1. pass.at = "idle" /\ pass.left = <<>>
    BY <1>1 DEF NoTick
  <2> QED
    BY <2>1
<1>2. CASE pass # NoTick
  <2>1. /\ pass \in [at : {"tick", "alerts"}, left : Seq(Classes), view : Views,
                     off : SUBSET Classes]
        /\ pass.left # <<>>
    BY <1>2 DEF PassType
  <2>2. pass.left \in Seq(Classes)
    BY <2>1
  <2>3. Len(pass.left) \in Nat /\ Len(pass.left) >= 1
    BY <2>1, <2>2, EmptySeq
  <2>4. Len(Tail(pass.left)) = Len(pass.left) - 1
    BY <2>1, <2>2, HeadTailProperties
  <2>5. ASSUME Onward PROVE Len(pass'.left) = Len(pass.left) - 1
    <3>1. CASE Len(pass.left) = 1
      <4>1. pass'.left = <<>>
        BY <2>5, <3>1 DEF Onward, NoTick
      <4> QED
        BY <3>1, <4>1
    <3>2. CASE Len(pass.left) # 1
      <4>1. pass' = [pass EXCEPT !.left = Tail(pass.left)]
        BY <2>5, <3>2 DEF Onward
      <4>2. pass'.left = Tail(pass.left)
        BY <2>1, <4>1
      <4> QED
        BY <2>4, <4>2
    <3> QED
      BY <3>1, <3>2
  <2> QED
    BY <2>3, <2>5
<1> QED
  BY <1>1, <1>2

\* The rows written, and those a pass may still write.
LEMMA RowsBound ==
    ASSUME EvaluatorTypes, [EvaluatorNext]_evaluatorVars
    PROVE  noticeIds' + Len(pass'.left) <= MaxRows + Len(Detectors)
<1>1. /\ PassType /\ noticeIds \in Nat
      /\ noticeIds + Len(pass.left) <= MaxRows + Len(Detectors)
      /\ Len(pass.left) \in Nat /\ MaxRows \in Nat /\ Len(Detectors) = 12
  BY PassLength, DetectorsLength, EvaluatorAssumption
     DEF EvaluatorTypes, EvaluatorBounds, OpenInvariant, Types, NoticesType
<1>2. CASE \E v \in Views : Observe(v)
  <2>1. noticeIds' = noticeIds /\ pass'.left = Detectors /\ noticeIds < MaxRows
    BY <1>2 DEF Observe
  <2>2. Len(pass'.left) = 12
    BY <1>1, <2>1
  <2>3. ASSUME NEW n \in Nat, NEW m \in Nat, n < m PROVE n + 12 <= m + 12
    BY <2>3
  <2> QED
    BY <1>1, <2>1, <2>2, <2>3
<1>3. CASE EndTick
  <2>1. noticeIds' = noticeIds /\ pass'.left = pass.left
    BY <1>1, <1>3 DEF EndTick, PassType, NoTick
  <2> QED
    BY <1>1, <2>1
<1>4. CASE Fire \/ Recover \/ StaySilent
  <2>1. pass.at = "alerts" /\ Onward /\ noticeIds' \in {noticeIds, noticeIds + 1}
    BY <1>4 DEF Fire, Recover, StaySilent, Detecting, Write
  <2>2. Len(pass'.left) = Len(pass.left) - 1
    BY <1>1, <2>1, PassLength
  <2> QED
    BY <1>1, <2>1, <2>2
<1>5. CASE FailToRecover \/ RestartEvaluator
  <2>1. noticeIds' = noticeIds /\ pass'.left = <<>>
    BY <1>5 DEF FailToRecover, RestartEvaluator, NoTick
  <2>2. Len(pass'.left) = 0
    BY <2>1
  <2> QED
    BY <1>1, <2>1, <2>2
<1>6. CASE UNCHANGED <<noticeIds, pass>>
  BY <1>1, <1>6
<1> QED
  BY <1>2, <1>3, <1>4, <1>5, <1>6 DEF EvaluatorNext, Detect, ToggleClass, PruneNotices,
     evaluatorVars

LEMMA SinceBound ==
    ASSUME EvaluatorTypes, [EvaluatorNext]_evaluatorVars
    PROVE  \A c \in Classes : memory'[c].since \in 0..Threshold(c) \cup {Null}
<1> SUFFICES ASSUME NEW c \in Classes
             PROVE  memory'[c].since \in 0..Threshold(c) \cup {Null}
  OBVIOUS
<1>1. /\ MemoryType /\ PassType /\ Threshold(c) \in Nat
      /\ memory[c].since \in 0..Threshold(c) \cup {Null}
  BY ThresholdType DEF EvaluatorTypes, EvaluatorBounds, OpenInvariant, Types
<1>2. DOMAIN memory = Classes /\ memory[c] \in [since : Nat \cup {Null}, active : Nat \cup {Null}]
  BY <1>1 DEF MemoryType
<1>3. CASE \E v \in Views : Observe(v)
  <2>1. memory'[c].since = Older(memory[c].since, Threshold(c))
    BY <1>2, <1>3 DEF Observe
  <2> QED
    BY <1>1, <2>1 DEF Older
<1>4. CASE Fire \/ Recover \/ StaySilent
  <2>1. CASE c # Here
    <3>1. memory'[c] = memory[c]
      BY <1>2, <1>4, <2>1 DEF Fire, Recover, StaySilent
    <3> QED
      BY <1>1, <3>1
  <2>2. CASE c = Here
    <3>1. Armed \in 0..Threshold(c)
      BY <1>1, <2>2 DEF Armed
    <3>2. memory'[c].since \in {memory[c].since, Armed, Null}
      BY <1>2, <1>4, <2>2 DEF Fire, Recover, StaySilent, Initial
    <3> QED
      BY <1>1, <3>1, <3>2
  <2> QED
    BY <2>1, <2>2
<1>5. CASE RestartEvaluator
  <2>1. memory'[c].since \in {Null, Threshold(c)}
    BY <1>5 DEF RestartEvaluator, Hydrated, Initial
  <2> QED
    BY <1>1, <2>1
<1>6. CASE memory' = memory
  BY <1>1, <1>6
<1> QED
  BY <1>3, <1>4, <1>5, <1>6 DEF EvaluatorNext, EndTick, Detect, FailToRecover,
     ToggleClass, PruneNotices, evaluatorVars

LEMMA StreakBound ==
    ASSUME EvaluatorTypes, [EvaluatorNext]_evaluatorVars
    PROVE  streak' \in 0..StreakTicks
<1>1. streak \in 0..StreakTicks /\ StreakTicks \in Nat
  BY EvaluatorAssumption DEF EvaluatorTypes, EvaluatorBounds
<1>2. \A v : StreakAfter(v) \in 0..StreakTicks
  BY <1>1 DEF StreakAfter, Older
<1>3. streak' \in {streak, 0, StreakAfter(pass.view), StreakTicks}
  BY DEF EvaluatorNext, Observe, EndTick, Detect, Fire, Recover, FailToRecover,
         StaySilent, CountStreak, ToggleClass, PruneNotices, RestartEvaluator,
         StreakRestored, evaluatorVars
<1> QED
  BY <1>1, <1>2, <1>3

LEMMA NoticeClasses ==
    ASSUME EvaluatorTypes, [EvaluatorNext]_evaluatorVars
    PROVE  \A i \in DOMAIN notices' : notices'[i].class \in Classes
<1>1. PassType /\ \A i \in DOMAIN notices : notices[i].class \in Classes
  BY DEF EvaluatorTypes, EvaluatorBounds, OpenInvariant, Types
<1>2. CASE Fire \/ Recover
  <2>1. Here \in Classes
    BY <1>1, <1>2, HereType DEF Fire, Recover, Detecting
  <2>2. \E pairs : Write([class |-> Here, pairs |-> pairs])
    BY <1>2 DEF Fire, Recover
  <2>3. \A i \in DOMAIN notices' :
           notices'[i].class = Here \/ (i \in DOMAIN notices /\ notices'[i] = notices[i])
    BY <2>2 DEF Write
  <2> QED
    BY <1>1, <2>1, <2>3
<1>3. CASE \E cutoff \in 0..noticeIds : PruneNotices(cutoff)
  BY <1>1, <1>3 DEF PruneNotices
<1>4. CASE notices' = notices
  BY <1>1, <1>4
<1> QED
  BY <1>2, <1>3, <1>4 DEF EvaluatorNext, Observe, EndTick, Detect, FailToRecover,
     StaySilent, ToggleClass, RestartEvaluator, evaluatorVars

LEMMA EvaluatorTypesNext ==
    ASSUME EvaluatorTypes, [EvaluatorNext]_evaluatorVars
    PROVE  EvaluatorTypes'
<1>1. OpenInvariant' /\ FloorInvariant'
  BY TypesInductive, OpenInductive, FloorInductive DEF EvaluatorTypes, OpenInvariant
<1>2. EvaluatorBounds'
  BY RowsBound, SinceBound, StreakBound, NoticeClasses DEF EvaluatorBounds, Threshold
<1> QED
  BY <1>1, <1>2 DEF EvaluatorTypes

LEMMA EvaluatorTypesInit == EvaluatorInit => EvaluatorTypes
<1> SUFFICES ASSUME EvaluatorInit PROVE EvaluatorTypes
  OBVIOUS
<1>1. /\ DOMAIN notices = {} /\ noticeIds = 0 /\ disabled = {} /\ pass = NoTick
      /\ \A c \in Classes : memory[c].since = Null
      /\ streak = 0 /\ pass.left = <<>> /\ Len(pass.left) = 0
  BY DEF EvaluatorInit, Initial, NoTick
<1>2. EvaluatorBounds
  BY <1>1, EvaluatorAssumption, DetectorsLength DEF EvaluatorBounds
<1> QED
  BY <1>2, OpenInvariantInit, FloorInvariantInit DEF EvaluatorTypes

LEMMA EvaluatorTyped ==
    ASSUME EvaluatorTypes
    PROVE  EvaluatorType
<1>1. /\ PassType /\ noticeIds \in Nat
      /\ noticeIds + Len(pass.left) <= MaxRows + Len(Detectors)
      /\ Len(pass.left) \in Nat /\ MaxRows \in Nat /\ Len(Detectors) = 12
  BY PassLength, DetectorsLength, EvaluatorAssumption
     DEF EvaluatorTypes, EvaluatorBounds, OpenInvariant, Types, NoticesType
<1>2. noticeIds \in 0..(MaxRows + Len(Detectors))
  BY <1>1
<1>3. \A c \in Classes :
          /\ memory[c].since \in 0..Threshold(c) \cup {Null}
          /\ memory[c].active \in 1..noticeIds \cup {Null}
  BY DEF EvaluatorTypes, EvaluatorBounds, OpenInvariant, OneOpen
<1>4. {floor, savedFloor} \subseteq [below : BOOLEAN, above : 0..FloorDebounce]
  <2>1. savedFloor \in FloorTypes
    BY DEF EvaluatorTypes, FloorInvariant
  <2>2. floor \in FloorTypes
    BY <2>1, FloorStep DEF EvaluatorTypes, FloorInvariant
  <2> QED
    BY <2>1, <2>2 DEF FloorTypes
<1>5. \A i \in DOMAIN notices : /\ i \in 1..noticeIds
                                /\ notices[i].class \in Classes
                                /\ notices[i].pairs \in 1..(i - 1) \cup {Null}
  BY DEF EvaluatorTypes, EvaluatorBounds, OpenInvariant, Types, NoticesType
<1>6. streak \in 0..StreakTicks
  BY DEF EvaluatorTypes, EvaluatorBounds
<1> QED
  BY <1>2, <1>3, <1>4, <1>5, <1>6 DEF EvaluatorType

\* The evaluator's memory points only at alerts it has written, an all-clear
\* only at an alert before it, and no streak, debounce or condition counts
\* beyond its threshold, for every sequence of ticks, crashes, switches and
\* prunings (alert-evaluator.ts:325-345, alerts.ts:329-341).
THEOREM EvaluatorTypeHolds == EvaluatorSpec => []EvaluatorType
<1> QED
  BY EvaluatorTypesInit, EvaluatorTypesNext, EvaluatorTyped, PTL DEF EvaluatorSpec
=============================================================================
