-------------------------- MODULE BaseTrees_proofs --------------------------
(* What BaseTrees promises for every set of revisions, files, loads and callers *)
(* and every limit, proved.                                                     *)
EXTENDS BaseTrees, TLAPS

USE LimitAssumption, FileAssumption, RevAssumption, NoneAssumption

-----------------------------------------------------------------------------
(* The order. *)

\* No revision is in the sequence twice.
Distinct(s) == \A i, j \in 1..Len(s) : s[i] = s[j] => i = j
\* The revision is in it.
In(x, s)    == \E i \in 1..Len(s) : s[i] = x

\* dropOrderLocked takes r out and leaves the others.
LEMMA WithoutDrops ==
  ASSUME NEW s \in Seq(Revs), NEW r \in Revs, Distinct(s)
  PROVE  /\ Without(s, r) \in Seq(Revs)
         /\ Distinct(Without(s, r))
         /\ \A x \in Revs : In(x, Without(s, r)) <=> x # r /\ In(x, s)
         /\ Len(Without(s, r)) <= Len(s)
         /\ In(r, s) => Len(Without(s, r)) = Len(s) - 1
<1>. DEFINE w == Without(s, r)
<1>1. CASE ~In(r, s)
  <2>1. w = s
    BY <1>1 DEF Without, In
  <2>. QED BY <1>1, <2>1
<1>2. CASE In(r, s)
  <2>. DEFINE n == Len(s)
              first == CHOOSE i \in 1..Len(s) : s[i] = r /\ \A j \in 1..(i - 1) : s[j] # r
  <2>1. n \in Nat /\ \A i \in 1..n : s[i] \in Revs
    OBVIOUS
  <2>2. PICK k \in 1..n : s[k] = r
    BY <1>2 DEF In
  <2>3. \A j \in 1..(k - 1) : s[j] # r
    BY <2>1, <2>2 DEF Distinct
  <2>4. first \in 1..n /\ s[first] = r
    BY <2>2, <2>3
  <2>5. w = [i \in 1..(n - 1) |-> IF i < first THEN s[i] ELSE s[i + 1]]
    BY <2>2 DEF Without
  <2>. HIDE DEF w, first
  <2>6. w \in Seq(Revs) /\ Len(w) = n - 1
    <3>1. n - 1 \in Nat
      BY <2>1, <2>2
    <3>2. \A i \in 1..(n - 1) : (IF i < first THEN s[i] ELSE s[i + 1]) \in Revs
      BY <2>1, <2>4
    <3>. QED BY <2>5, <3>1, <3>2
  <2>7. \A i \in 1..(n - 1) : w[i] = IF i < first THEN s[i] ELSE s[i + 1]
    BY <2>5
  <2>8. Distinct(w)
    <3>. SUFFICES ASSUME NEW i \in 1..(n - 1), NEW j \in 1..(n - 1), w[i] = w[j] PROVE i = j
      BY <2>6 DEF Distinct
    <3>. QED BY <2>1, <2>4, <2>7 DEF Distinct
  <2>9. ASSUME NEW x \in Revs, In(x, w) PROVE x # r /\ In(x, s)
    <3>1. PICK i \in 1..(n - 1) : w[i] = x
      BY <2>6, <2>9 DEF In
    <3>2. CASE i < first
      <4>1. i \in 1..n /\ s[i] = x
        BY <2>1, <2>4, <2>7, <3>1, <3>2
      <4>. QED BY <2>4, <3>2, <4>1 DEF Distinct, In
    <3>3. CASE ~(i < first)
      <4>1. i + 1 \in 1..n /\ s[i + 1] = x
        BY <2>1, <2>4, <2>7, <3>1, <3>3
      <4>2. i + 1 # first
        BY <2>1, <2>4, <3>3
      <4>. QED BY <2>4, <4>1, <4>2 DEF Distinct, In
    <3>. QED BY <3>2, <3>3
  <2>10. ASSUME NEW x \in Revs, x # r, In(x, s) PROVE In(x, w)
    <3>1. PICK j \in 1..n : s[j] = x
      BY <2>10 DEF In
    <3>2. CASE j < first
      <4>1. j \in 1..(n - 1) /\ w[j] = x
        BY <2>1, <2>4, <2>7, <3>1, <3>2
      <4>. QED BY <2>6, <4>1 DEF In
    <3>3. CASE ~(j < first)
      <4>1. j - 1 \in 1..(n - 1) /\ w[j - 1] = x
        BY <2>1, <2>4, <2>7, <2>10, <3>1, <3>3
      <4>. QED BY <2>6, <4>1 DEF In
    <3>. QED BY <3>2, <3>3
  <2>. QED BY <2>6, <2>8, <2>9, <2>10 DEF w
<1>. QED BY <1>1, <1>2

\* touchLocked makes r the last, and evictLocked takes the first of a full order,
\* which is not r.
LEMMA TouchedLists ==
  ASSUME order \in Seq(Revs), Distinct(order), Len(order) <= Limit, NEW r \in Revs
  PROVE  /\ Touched(r) \in Seq(Revs)
         /\ Distinct(Touched(r))
         /\ Len(Touched(r)) >= 1
         /\ \A x \in Revs : In(x, Touched(r)) <=> x = r \/ In(x, order)
         /\ Touched(r)[Len(Touched(r))] = r
         /\ Len(Touched(r)) <= Limit + 1
         /\ In(r, order) => Len(Touched(r)) <= Limit
<1>. DEFINE w == Without(order, r)
            t == Touched(r)
<1>1. /\ w \in Seq(Revs) /\ Distinct(w)
      /\ \A x \in Revs : In(x, w) <=> x # r /\ In(x, order)
      /\ Len(w) <= Len(order)
      /\ In(r, order) => Len(w) = Len(order) - 1
  BY WithoutDrops
<1>2. t = Append(w, r)
  BY DEF Touched
<1>. HIDE DEF w, t
<1>3. /\ t \in Seq(Revs) /\ Len(t) = Len(w) + 1
      /\ \A i \in 1..Len(w) : t[i] = w[i]
      /\ t[Len(t)] = r
  BY <1>1, <1>2
<1>4. Len(w) \in Nat /\ Len(order) \in Nat /\ \A i \in 1..Len(w) : w[i] \in Revs /\ w[i] # r
  <2>1. Len(w) \in Nat /\ Len(order) \in Nat /\ \A i \in 1..Len(w) : w[i] \in Revs
    BY <1>1
  <2>2. ~In(r, w)
    BY <1>1
  <2>. QED BY <2>1, <2>2 DEF In
<1>5. Distinct(t)
  <2>. SUFFICES ASSUME NEW i \in 1..Len(t), NEW j \in 1..Len(t), t[i] = t[j] PROVE i = j
    BY DEF Distinct
  <2>. QED BY <1>1, <1>3, <1>4 DEF Distinct
<1>6. \A x \in Revs : In(x, t) <=> x = r \/ In(x, order)
  <2>1. \A x \in Revs : In(x, t) <=> In(x, w) \/ x = r
    BY <1>3, <1>4 DEF In
  <2>. QED BY <1>1, <2>1
<1>. QED BY <1>1, <1>3, <1>4, <1>5, <1>6 DEF t

-----------------------------------------------------------------------------
(* The order lists the loads. *)

\* OrderListsLoads, in the words of the lemmas above.
LEMMA OrderFacts ==
  OrderListsLoads <=> /\ Distinct(order) /\ Len(order) <= Limit
                      /\ \A r \in Revs : loads[r] # None <=> In(r, order)
BY DEF OrderListsLoads, Distinct, In

\* The only steps that touch the map.
LEMMA MapFrame ==
  ASSUME NEW l \in Loads, Run(l), ~Forget(l)
  PROVE  UNCHANGED mapVars
BY DEF Run, OpenVictim, RemoveFile, RemoveDir, Stat, Export, Rename, Restat, Parse,
       ParseFails, WriteCache, CloseDone

LEMMA OrderStart ==
  ASSUME TypeOK, OrderListsLoads, NEW c \in Callers, NEW r \in Revs, NEW l \in Loads, Start(c, r, l)
  PROVE  order' \in Seq(Revs) /\ OrderListsLoads' /\ order'[Len(order')] = r /\ loads'[r] = l
         /\ (\A x \in Revs : loads'[x] \in {loads[x], None} \/ x = r)
<1>. DEFINE t == Touched(r)
            v == Evicted(r)
<1>1. /\ order \in Seq(Revs) /\ Distinct(order) /\ Len(order) <= Limit
      /\ \A x \in Revs : loads[x] # None <=> In(x, order)
      /\ loads \in [Revs -> Loads \cup {None}]
      /\ l # None
  BY OrderFacts DEF TypeOK
<1>2. /\ t \in Seq(Revs) /\ Distinct(t) /\ Len(t) >= 1
      /\ \A x \in Revs : In(x, t) <=> x = r \/ In(x, order)
      /\ t[Len(t)] = r /\ Len(t) <= Limit + 1
  BY <1>1, TouchedLists
<1>3. /\ loads' = [x \in Revs |-> IF x = v THEN None ELSE IF x = r THEN l ELSE loads[x]]
      /\ order' = IF v = None THEN t ELSE Tail(t)
      /\ v = IF Len(t) > Limit THEN Head(t) ELSE None
  BY DEF Start, Evicted
<1>. HIDE DEF t, v
<1>4. CASE Len(t) > Limit
  <2>1. /\ Tail(t) \in Seq(Revs) /\ Len(Tail(t)) = Len(t) - 1
        /\ \A i \in 1..(Len(t) - 1) : Tail(t)[i] = t[i + 1]
        /\ Head(t) = t[1] /\ Len(t) \in Nat /\ Len(t) >= 2
    BY <1>2, <1>4
  <2>2. v = t[1] /\ v \in Revs /\ v # r /\ v # None
    <3>1. v = t[1] /\ v \in Revs /\ v # None
      BY <1>2, <1>3, <1>4, <2>1
    <3>2. 1 # Len(t) /\ 1 \in 1..Len(t) /\ Len(t) \in 1..Len(t)
      BY <2>1
    <3>. QED BY <1>2, <3>1, <3>2 DEF Distinct
  <2>3. order' = Tail(t)
    BY <1>3, <2>2
  <2>4. Distinct(order')
    <3>. SUFFICES ASSUME NEW i \in 1..(Len(t) - 1), NEW j \in 1..(Len(t) - 1), t[i + 1] = t[j + 1]
                  PROVE  i = j
      BY <2>1, <2>3 DEF Distinct
    <3>1. i + 1 \in 1..Len(t) /\ j + 1 \in 1..Len(t)
      BY <2>1
    <3>2. i + 1 = j + 1
      BY <1>2, <3>1 DEF Distinct
    <3>. QED BY <2>1, <3>2
  <2>5. ASSUME NEW x \in Revs PROVE In(x, order') <=> x # v /\ In(x, t)
    <3>1. ASSUME In(x, order') PROVE x # v /\ In(x, t)
      <4>1. PICK i \in 1..(Len(t) - 1) : t[i + 1] = x
        BY <2>1, <2>3, <3>1 DEF In
      <4>2. i + 1 \in 1..Len(t) /\ 1 \in 1..Len(t) /\ i + 1 # 1
        BY <2>1
      <4>. QED BY <1>2, <2>2, <4>1, <4>2 DEF In, Distinct
    <3>2. ASSUME x # v, In(x, t) PROVE In(x, order')
      <4>1. PICK j \in 1..Len(t) : t[j] = x
        BY <3>2 DEF In
      <4>2. j # 1
        BY <2>2, <3>2, <4>1
      <4>3. j - 1 \in 1..(Len(t) - 1) /\ Tail(t)[j - 1] = x
        BY <2>1, <4>1, <4>2
      <4>. QED BY <2>1, <2>3, <4>3 DEF In
    <3>. QED BY <3>1, <3>2
  <2>6. \A x \in Revs : loads'[x] # None <=> In(x, order')
    BY <1>1, <1>2, <1>3, <2>2, <2>5
  <2>7. order'[Len(order')] = r
    <3>1. Len(t) - 1 \in 1..(Len(t) - 1) /\ Len(t) - 1 + 1 = Len(t)
      BY <2>1
    <3>. QED BY <1>2, <2>1, <2>3, <3>1
  <2>8. OrderListsLoads'
    <3>1. Len(order') <= Limit
      BY <1>2, <2>1, <2>3
    <3>. QED BY <2>4, <2>6, <3>1 DEF OrderListsLoads, Distinct, In
  <2>. QED BY <1>1, <1>3, <2>1, <2>2, <2>3, <2>7, <2>8
<1>5. CASE ~(Len(t) > Limit)
  <2>1. v = None /\ order' = t /\ Len(t) <= Limit
    BY <1>2, <1>3, <1>5
  <2>2. \A x \in Revs : loads'[x] # None <=> In(x, order')
    BY <1>1, <1>2, <1>3, <2>1
  <2>3. Distinct(order') /\ Len(order') <= Limit
    BY <1>2, <2>1
  <2>4. OrderListsLoads'
    BY <2>2, <2>3 DEF OrderListsLoads, Distinct, In
  <2>. QED BY <1>1, <1>2, <1>3, <2>1, <2>4
<1>. QED BY <1>4, <1>5

LEMMA OrderForget ==
  ASSUME TypeOK, OrderListsLoads, LoadsAgree, NEW l \in Loads, Forget(l)
  PROVE  order' \in Seq(Revs) /\ OrderListsLoads' /\ loads' \in [Revs -> Loads \cup {None}]
         /\ \A r \in Revs : loads'[r] = IF loads[r] = l THEN None ELSE loads[r]
<1>1. /\ order \in Seq(Revs) /\ Distinct(order) /\ Len(order) <= Limit
      /\ \A r \in Revs : loads[r] # None <=> In(r, order)
      /\ loads \in [Revs -> Loads \cup {None}]
      /\ rev[l] \in Revs /\ l # None
      /\ \A r \in Revs : loads[r] = l => r = rev[l]
  BY OrderFacts DEF TypeOK, LoadsAgree
<1>2. CASE loads[rev[l]] = l
  <2>1. loads' = [loads EXCEPT ![rev[l]] = None] /\ order' = Without(order, rev[l])
    BY <1>2 DEF Forget, ForgetFailed
  <2>2. /\ order' \in Seq(Revs) /\ Distinct(order') /\ Len(order') <= Len(order)
        /\ \A x \in Revs : In(x, order') <=> x # rev[l] /\ In(x, order)
    BY <1>1, <2>1, WithoutDrops
  <2>3. \A x \in Revs : loads'[x] # None <=> In(x, order')
    BY <1>1, <2>1, <2>2
  <2>4. Len(order') <= Limit
    BY <1>1, <2>2
  <2>. QED BY <1>1, <1>2, <2>1, <2>2, <2>3, <2>4 DEF OrderListsLoads, Distinct, In
<1>3. CASE loads[rev[l]] # l
  <2>1. UNCHANGED <<loads, order>>
    BY <1>3 DEF Forget, ForgetFailed, mapVars
  <2>. QED BY <1>1, <1>3, <2>1 DEF OrderListsLoads
<1>. QED BY <1>2, <1>3

-----------------------------------------------------------------------------
(* Type correctness. *)

LEMMA TypeInit == Init => TypeOK
<1>. SUFFICES ASSUME Init PROVE TypeOK OBVIOUS
<1>1. (CHOOSE r \in Revs : TRUE) \in Revs
  OBVIOUS
<1>2. <<>> \in Seq(Revs)
  OBVIOUS
<1>. QED BY <1>1, <1>2 DEF Init, TypeOK, Stage, Removing, Working

LEMMA TypeRun ==
  ASSUME TypeOK, OrderListsLoads, LoadsAgree, NEW l \in Loads, Run(l)
  PROVE  TypeOK'
<1>. USE DEF TypeOK, Stage, Removing, Working, mapVars, diskVars, At, Goto, Fail
<1>1. CASE OpenVictim(l)
  <2>1. Listed(victim[l]) \in SUBSET (Files \cup {CacheFile})
    BY DEF Listed
  <2>. QED BY <1>1, <2>1 DEF OpenVictim
<1>2. CASE \E f \in doomed[l] : RemoveFile(l, f)
  <2>1. PICK f \in doomed[l] : RemoveFile(l, f)
    BY <1>2
  <2>2. UNCHANGED <<loads, order, stage, rev, victim, models, failed, owner, exists, removed, waits>>
    BY <2>1 DEF RemoveFile
  <2>3. doomed' \in [Loads -> SUBSET (Files \cup {CacheFile})]
    BY <2>1 DEF RemoveFile
  <2>4. tree' \in [Revs -> SUBSET (Files \cup {CacheFile})]
    BY <2>1 DEF RemoveFile
  <2>. QED BY <2>2, <2>3, <2>4
<1>3. CASE RemoveDir(l)
  <2>1. ASSUME NEW r \in Revs PROVE (exists[r] /\ tree[r] # {}) \in BOOLEAN
    OBVIOUS
  <2>2. exists' = [exists EXCEPT ![victim[l]] = @ /\ tree[victim[l]] # {}]
    BY <1>3 DEF RemoveDir
  <2>3. exists' \in [Revs -> BOOLEAN]
    BY <2>1, <2>2, Zenon
  <2>. QED BY <1>3, <2>3 DEF RemoveDir
<1>4. CASE Stat(l)
  BY <1>4 DEF Stat
<1>5. CASE Export(l)
  BY <1>5 DEF Export
<1>6. CASE Rename(l)
  <2>1. CASE exists[rev[l]]
    BY <1>6, <2>1 DEF Rename
  <2>2. CASE ~exists[rev[l]]
    <3>1. /\ exists' = [exists EXCEPT ![rev[l]] = TRUE]
          /\ tree' = [tree EXCEPT ![rev[l]] = Files]
          /\ stage' = [stage EXCEPT ![l] = "parse"]
          /\ UNCHANGED <<loads, order, rev, victim, doomed, models, failed, owner, removed, waits>>
      BY <1>6, <2>2 DEF Rename
    <3>2. exists' \in [Revs -> BOOLEAN]
      BY <3>1, Zenon
    <3>3. tree' \in [Revs -> SUBSET (Files \cup {CacheFile})]
      BY <3>1
    <3>. QED BY <3>1, <3>2, <3>3
  <2>. QED BY <2>1, <2>2
<1>7. CASE Restat(l)
  BY <1>7 DEF Restat
<1>8. CASE Parse(l)
  BY <1>8 DEF Parse, Parsed
<1>9. CASE ParseFails(l)
  BY <1>9 DEF ParseFails
<1>10. CASE WriteCache(l)
  <2>1. /\ stage' = [stage EXCEPT ![l] = "close"]
        /\ UNCHANGED <<loads, order, rev, victim, doomed, models, failed, owner, removed, waits>>
    BY <1>10 DEF WriteCache
  <2>2. CASE UNCHANGED <<exists, tree>>
    BY <2>1, <2>2
  <2>3. CASE /\ exists' = [exists EXCEPT ![rev[l]] = TRUE]
             /\ tree' = [tree EXCEPT ![rev[l]] = @ \cup {CacheFile}]
    <3>1. exists' \in [Revs -> BOOLEAN]
      BY <2>3, Zenon
    <3>2. tree' \in [Revs -> SUBSET (Files \cup {CacheFile})]
      BY <2>3
    <3>. QED BY <2>1, <3>1, <3>2
  <2>. QED BY <1>10, <2>2, <2>3 DEF WriteCache
<1>11. CASE CloseDone(l)
  BY <1>11 DEF CloseDone
<1>12. CASE Forget(l)
  <2>1. order' \in Seq(Revs) /\ loads' \in [Revs -> Loads \cup {None}]
    BY <1>12, OrderForget
  <2>. QED BY <1>12, <2>1 DEF Forget
<1>. QED BY <1>1, <1>2, <1>3, <1>4, <1>5, <1>6, <1>7, <1>8, <1>9, <1>10, <1>11, <1>12 DEF Run

LEMMA TypeStep ==
  ASSUME TypeOK, OrderListsLoads, LoadsAgree, [Next]_vars
  PROVE  TypeOK'
<1>. USE DEF TypeOK, mapVars, loadVars, diskVars
<1>1. ASSUME NEW c \in Callers, NEW r \in Revs, Join(c, r) PROVE TypeOK'
  <2>1. Touched(r) \in Seq(Revs)
    BY OrderFacts, TouchedLists
  <2>. QED BY <1>1, <2>1 DEF Join
<1>2. ASSUME NEW c \in Callers, NEW r \in Revs, NEW l \in Loads, Start(c, r, l) PROVE TypeOK'
  <2>1. order' \in Seq(Revs)
    BY <1>2, OrderStart
  <2>2. Evicted(r) \in Revs \cup {None}
    <3>1. Touched(r) \in Seq(Revs) /\ Len(Touched(r)) >= 1
      BY OrderFacts, TouchedLists
    <3>2. Head(Touched(r)) \in Revs
      BY <3>1
    <3>. QED BY <3>2 DEF Evicted
  <2>3. stage' \in [Loads -> Stage]
    BY <1>2 DEF Start, Stage, Removing, Working
  <2>. QED BY <1>2, <2>1, <2>2, <2>3 DEF Start
<1>3. ASSUME NEW l \in Loads, Run(l) PROVE TypeOK'
  BY <1>3, TypeRun
<1>4. ASSUME NEW c \in Callers, Answer(c) \/ Cancel(c) PROVE TypeOK'
  <2>1. Return(c) /\ waits[c] \in Loads
    BY <1>4 DEF Answer, Cancel
  <2>. QED BY <2>1 DEF Return
<1>5. CASE Restart
  <2>1. order' \in Seq(Revs)
    BY <1>5 DEF Restart
  <2>2. stage' \in [Loads -> Stage]
    BY <1>5 DEF Restart, Stage
  <2>3. failed' \in [Loads -> BOOLEAN]
    BY <1>5, Zenon DEF Restart, Closed
  <2>. QED BY <1>5, <2>1, <2>2, <2>3 DEF Restart
<1>6. CASE UNCHANGED vars
  BY <1>6 DEF vars
<1>. QED BY <1>1, <1>2, <1>3, <1>4, <1>5, <1>6 DEF Next

-----------------------------------------------------------------------------
(* The inductive invariant. *)

\* IInv but for the types and the order.
Rest == FailuresAreForgotten /\ ExportsAreAtomic /\ LoadsAgree /\ VictimsAreEvicted /\ LoadsFindTrees

LEMMA InitIInv == Init => IInv
<1>. SUFFICES ASSUME Init PROVE IInv OBVIOUS
<1>1. TypeOK
  BY TypeInit
<1>2. OrderListsLoads
  BY DEF Init, OrderListsLoads
<1>3. FailuresAreForgotten /\ ExportsAreAtomic /\ LoadsAgree /\ VictimsAreEvicted /\ LoadsFindTrees
  BY DEF Init, FailuresAreForgotten, ExportsAreAtomic, Closed, LoadsAgree, VictimsAreEvicted,
         LoadsFindTrees, Removing
<1>. QED BY <1>1, <1>2, <1>3 DEF IInv

\* A start: the new load is nobody else's.
LEMMA StartStep ==
  ASSUME IInv, NEW c \in Callers, NEW r \in Revs, NEW l \in Loads, Start(c, r, l)
  PROVE  Rest'
<1>. USE DEF IInv, TypeOK
<1>1. /\ loads'[r] = l
      /\ \A x \in Revs : loads'[x] \in {loads[x], None} \/ x = r
      /\ \A x \in Revs : loads[x] # l
  <2>1. \A x \in Revs : loads[x] # l
    BY DEF Start, Unreferenced
  <2>2. loads'[r] = l /\ \A x \in Revs : loads'[x] \in {loads[x], None} \/ x = r
    BY OrderStart
  <2>. QED BY <2>1, <2>2
<1>2. /\ rev' = [rev EXCEPT ![l] = r]
      /\ victim' = [victim EXCEPT ![l] = Evicted(r)]
      /\ stage' = [stage EXCEPT ![l] = IF Evicted(r) = None THEN "stat" ELSE "open"]
      /\ failed' = [failed EXCEPT ![l] = FALSE]
      /\ models' = [models EXCEPT ![l] = {}]
      /\ removed' = removed \cup ({Evicted(r)} \ {None})
      /\ UNCHANGED <<exists, tree>>
  BY DEF Start, diskVars
<1>3. FailuresAreForgotten'
  BY <1>1, <1>2 DEF FailuresAreForgotten
<1>4. ExportsAreAtomic'
  BY <1>2 DEF ExportsAreAtomic, Closed
<1>5. LoadsAgree'
  BY <1>1, <1>2 DEF LoadsAgree
<1>6. VictimsAreEvicted'
  BY <1>2 DEF VictimsAreEvicted, Removing
<1>7. LoadsFindTrees'
  BY <1>2 DEF LoadsFindTrees
<1>. QED BY <1>3, <1>4, <1>5, <1>6, <1>7 DEF Rest

\* A step of a removal, by the caller that evicted.
LEMMA RemovalStep ==
  ASSUME IInv, NEW l \in Loads, OpenVictim(l) \/ (\E f \in doomed[l] : RemoveFile(l, f)) \/ RemoveDir(l)
  PROVE  Rest'
<1>. USE DEF IInv, TypeOK, mapVars, diskVars, At, Goto
<1>1. victim[l] \in removed
  BY DEF VictimsAreEvicted, OpenVictim, RemoveFile, RemoveDir, Removing
<1>2. /\ UNCHANGED <<loads, rev, models, failed, removed>>
      /\ stage[l] \in Removing
      /\ \A x \in Loads : stage'[x] = stage[x] \/ (x = l /\ stage'[x] \in {"remove", "stat"})
      /\ \A x \in Loads : victim'[x] = victim[x] \/ (x = l /\ victim'[x] = None /\ stage'[x] = "stat")
      /\ \A r \in Revs \ removed : exists'[r] = exists[r] /\ tree'[r] = tree[r]
  <2>1. CASE OpenVictim(l)
    BY <2>1 DEF OpenVictim, Removing
  <2>2. CASE \E f \in doomed[l] : RemoveFile(l, f)
    BY <1>1, <2>2 DEF RemoveFile, Removing
  <2>3. CASE RemoveDir(l)
    BY <1>1, <2>3 DEF RemoveDir, Removing
  <2>. QED BY <2>1, <2>2, <2>3
<1>3. FailuresAreForgotten' /\ LoadsAgree'
  BY <1>2 DEF FailuresAreForgotten, LoadsAgree
<1>4. ExportsAreAtomic'
  BY <1>2 DEF ExportsAreAtomic, Closed
<1>5. VictimsAreEvicted'
  BY <1>2 DEF VictimsAreEvicted, Removing
<1>6. LoadsFindTrees'
  BY <1>2 DEF LoadsFindTrees
<1>. QED BY <1>3, <1>4, <1>5, <1>6 DEF Rest

\* A step of materialize, and the parse.
LEMMA ReadStep ==
  ASSUME IInv, NEW l \in Loads,
         \/ Stat(l) \/ Export(l) \/ Rename(l) \/ Restat(l)
         \/ Parse(l) \/ ParseFails(l) \/ WriteCache(l)
  PROVE  Rest'
<1>. USE DEF IInv, TypeOK, mapVars, diskVars, At, Goto, Fail
<1>1. /\ UNCHANGED <<loads, rev, victim, removed>>
      /\ stage[l] \in {"stat", "export", "rename", "restat", "parse", "cache"}
      /\ \A x \in Loads \ {l} : stage'[x] = stage[x] /\ failed'[x] = failed[x] /\ models'[x] = models[x]
      /\ stage'[l] \in {"parse", "export", "rename", "restat", "cache", "close"}
  BY DEF Stat, Export, Rename, Restat, Parse, ParseFails, WriteCache
<1>2. /\ \A r \in Revs : exists[r] => exists'[r]
      /\ \A r \in Revs \ removed : exists'[r] => Files \subseteq tree'[r]
  <2>1. CASE Stat(l) \/ Export(l) \/ Restat(l) \/ Parse(l) \/ ParseFails(l)
    BY <2>1 DEF Stat, Export, Restat, Parse, ParseFails, ExportsAreAtomic
  <2>2. CASE Rename(l)
    <3>1. CASE UNCHANGED <<exists, tree>>
      BY <3>1 DEF ExportsAreAtomic
    <3>2. CASE exists' = [exists EXCEPT ![rev[l]] = TRUE] /\ tree' = [tree EXCEPT ![rev[l]] = Files]
      <4>1. \A r \in Revs : r # rev[l] => exists'[r] = exists[r] /\ tree'[r] = tree[r]
        BY <3>2
      <4>2. exists'[rev[l]] /\ tree'[rev[l]] = Files
        BY <3>2
      <4>. QED BY <4>1, <4>2 DEF ExportsAreAtomic
    <3>. QED BY <2>2, <3>1, <3>2 DEF Rename
  <2>3. CASE WriteCache(l)
    <3>1. rev[l] \notin removed => exists[rev[l]]
      BY <2>3 DEF WriteCache, LoadsFindTrees
    <3>2. CASE UNCHANGED <<exists, tree>>
      BY <3>2 DEF ExportsAreAtomic
    <3>3. CASE /\ exists' = [exists EXCEPT ![rev[l]] = TRUE]
               /\ tree' = [tree EXCEPT ![rev[l]] = @ \cup {CacheFile}]
      <4>1. \A r \in Revs : /\ exists'[r] <=> exists[r] \/ r = rev[l]
                            /\ tree[r] \subseteq tree'[r]
        BY <3>3
      <4>. QED BY <3>1, <4>1 DEF ExportsAreAtomic
    <3>. QED BY <2>3, <3>2, <3>3 DEF WriteCache
  <2>. QED BY <2>1, <2>2, <2>3
<1>3. stage'[l] \in {"parse", "cache"} => exists'[rev[l]] \/ rev[l] \in removed
  <2>1. CASE Stat(l) \/ Rename(l) \/ Restat(l) \/ Parse(l)
    BY <2>1 DEF Stat, Rename, Restat, Parse
  <2>2. CASE Export(l) \/ ParseFails(l) \/ WriteCache(l)
    BY <2>2 DEF Export, ParseFails, WriteCache
  <2>. QED BY <2>1, <2>2
<1>4. stage'[l] \in {"cache", "close"} /\ ~failed'[l] => models'[l] = Files \/ rev[l] \in removed
  <2>1. CASE Parse(l)
    BY <2>1 DEF Parse, Parsed, ExportsAreAtomic
  <2>2. CASE WriteCache(l)
    BY <2>2 DEF WriteCache, LoadsFindTrees
  <2>3. CASE Stat(l) \/ Export(l) \/ Rename(l) \/ Restat(l) \/ ParseFails(l)
    BY <2>3 DEF Stat, Export, Rename, Restat, ParseFails
  <2>. QED BY <2>1, <2>2, <2>3
<1>5. FailuresAreForgotten' /\ LoadsAgree'
  BY <1>1 DEF FailuresAreForgotten, LoadsAgree
<1>6. ExportsAreAtomic'
  BY <1>1, <1>2 DEF ExportsAreAtomic, Closed
<1>7. VictimsAreEvicted'
  BY <1>1 DEF VictimsAreEvicted, Removing
<1>8. LoadsFindTrees'
  BY <1>1, <1>2, <1>3, <1>4 DEF LoadsFindTrees
<1>. QED BY <1>5, <1>6, <1>7, <1>8 DEF Rest

\* The end of a load.
LEMMA EndStep ==
  ASSUME IInv, NEW l \in Loads, CloseDone(l) \/ Forget(l)
  PROVE  Rest'
<1>. USE DEF IInv, TypeOK, mapVars, diskVars, At, Goto
<1>1. /\ UNCHANGED <<rev, victim, models, failed, exists, tree, removed>>
      /\ \A x \in Loads \ {l} : stage'[x] = stage[x]
      /\ \/ /\ stage[l] = "close" /\ UNCHANGED loads
            /\ stage'[l] = IF failed[l] THEN "forget" ELSE "done"
         \/ /\ stage[l] = "forget" /\ stage'[l] = "done"
            /\ \A r \in Revs : loads'[r] = IF loads[r] = l THEN None ELSE loads[r]
  BY OrderForget DEF CloseDone, Forget
<1>2. FailuresAreForgotten'
  BY <1>1 DEF FailuresAreForgotten
<1>3. ExportsAreAtomic'
  BY <1>1 DEF ExportsAreAtomic, LoadsFindTrees, Closed
<1>4. LoadsAgree'
  BY <1>1 DEF LoadsAgree
<1>5. VictimsAreEvicted'
  BY <1>1 DEF VictimsAreEvicted, Removing
<1>6. LoadsFindTrees'
  BY <1>1 DEF LoadsFindTrees
<1>. QED BY <1>2, <1>3, <1>4, <1>5, <1>6 DEF Rest

LEMMA StepIInv == IInv /\ [Next]_vars => IInv'
<1>. SUFFICES ASSUME IInv, [Next]_vars PROVE IInv'
  OBVIOUS
<1>1. TypeOK'
  BY TypeStep DEF IInv
<1>2. ASSUME NEW c \in Callers, NEW r \in Revs, Join(c, r) PROVE OrderListsLoads' /\ Rest'
  <2>1. order' = Touched(r) /\ UNCHANGED <<loads, loadVars, diskVars, removed>>
    BY <1>2 DEF Join
  <2>2. In(r, order) /\ Distinct(order) /\ Len(order) <= Limit /\ order \in Seq(Revs)
    BY <1>2, OrderFacts DEF IInv, TypeOK, Join
  <2>3. /\ Distinct(order') /\ Len(order') <= Limit
        /\ \A x \in Revs : In(x, order') <=> In(x, order)
    BY <2>1, <2>2, TouchedLists
  <2>4. \A x \in Revs : loads'[x] # None <=> In(x, order')
    BY <2>1, <2>3, OrderFacts DEF IInv
  <2>5. OrderListsLoads'
    BY <2>3, <2>4 DEF OrderListsLoads, Distinct, In
  <2>. QED BY <2>1, <2>5 DEF Rest, IInv, FailuresAreForgotten, ExportsAreAtomic, LoadsAgree,
           VictimsAreEvicted, LoadsFindTrees, Closed, loadVars, diskVars
<1>3. ASSUME NEW c \in Callers, NEW r \in Revs, NEW l \in Loads, Start(c, r, l)
      PROVE  OrderListsLoads' /\ Rest'
  <2>1. OrderListsLoads'
    BY <1>3, OrderStart DEF IInv
  <2>. QED BY <1>3, <2>1, StartStep
<1>4. ASSUME NEW l \in Loads, Run(l) PROVE OrderListsLoads' /\ Rest'
  <2>1. OrderListsLoads'
    <3>1. CASE Forget(l)
      BY <3>1, OrderForget DEF IInv
    <3>2. CASE ~Forget(l)
      BY <1>4, <3>2, MapFrame DEF IInv, OrderListsLoads, mapVars
    <3>. QED BY <3>1, <3>2
  <2>2. CASE OpenVictim(l) \/ (\E f \in doomed[l] : RemoveFile(l, f)) \/ RemoveDir(l)
    BY <2>1, <2>2, RemovalStep
  <2>3. CASE \/ Stat(l) \/ Export(l) \/ Rename(l) \/ Restat(l)
             \/ Parse(l) \/ ParseFails(l) \/ WriteCache(l)
    BY <2>1, <2>3, ReadStep
  <2>4. CASE CloseDone(l) \/ Forget(l)
    BY <2>1, <2>4, EndStep
  <2>. QED BY <1>4, <2>2, <2>3, <2>4 DEF Run
<1>5. ASSUME NEW c \in Callers, Answer(c) \/ Cancel(c) PROVE OrderListsLoads' /\ Rest'
  BY <1>5 DEF Rest, Answer, Cancel, Return, mapVars, diskVars, IInv, OrderListsLoads, FailuresAreForgotten,
     ExportsAreAtomic, LoadsAgree, VictimsAreEvicted, LoadsFindTrees, Closed
<1>6. CASE Restart
  <2>1. OrderListsLoads'
    BY <1>6 DEF Restart, OrderListsLoads
  <2>2. \A l \in Loads : /\ stage'[l] = "done" /\ victim'[l] = None
                         /\ ~failed'[l] => ~failed[l] /\ Closed(l)
    BY <1>6 DEF Restart
  <2>3. FailuresAreForgotten' /\ LoadsAgree'
    BY <1>6 DEF Restart, FailuresAreForgotten, LoadsAgree
  <2>4. ExportsAreAtomic'
    BY <1>6, <2>2 DEF Restart, diskVars, ExportsAreAtomic, Closed, IInv
  <2>5. VictimsAreEvicted'
    BY <2>2 DEF VictimsAreEvicted, Removing
  <2>6. LoadsFindTrees'
    <3>1. \A l \in Loads : stage'[l] \notin {"parse", "cache", "close"}
      BY <2>2
    <3>. QED BY <3>1 DEF LoadsFindTrees
  <2>. QED BY <1>1, <2>1, <2>3, <2>4, <2>5, <2>6 DEF IInv
<1>7. CASE UNCHANGED vars
  <2>1. UNCHANGED <<loads, order, stage, rev, victim, models, failed, exists, tree, removed>>
    BY <1>7 DEF vars
  <2>2. OrderListsLoads' /\ FailuresAreForgotten' /\ ExportsAreAtomic'
    BY <2>1 DEF IInv, OrderListsLoads, FailuresAreForgotten, ExportsAreAtomic, Closed
  <2>3. LoadsAgree' /\ VictimsAreEvicted' /\ LoadsFindTrees'
    BY <2>1 DEF IInv, LoadsAgree, VictimsAreEvicted, LoadsFindTrees
  <2>. QED BY <1>1, <2>2, <2>3 DEF IInv
<1>8. OrderListsLoads' /\ Rest' => IInv'
  BY <1>1 DEF IInv, Rest
<1>. QED BY <1>2, <1>3, <1>4, <1>5, <1>6, <1>7, <1>8 DEF Next

\* The strengthening holds in every reachable state.
THEOREM Invariance == Spec => []IInv
<1>. QED BY InitIInv, StepIInv, PTL DEF Spec

-----------------------------------------------------------------------------
(* The theorems. *)

\* Every reachable state has the declared types.
THEOREM TypeCorrect == Spec => []TypeOK
<1>1. IInv => TypeOK
  BY DEF IInv
<1>. QED BY <1>1, Invariance, PTL

\* baseTrees.order and baseTrees.loads agree, and no more than the limit of
\* revisions is cached.
THEOREM OrderListsLoadsHolds == Spec => []OrderListsLoads
<1>1. IInv => OrderListsLoads
  BY DEF IInv
<1>. QED BY <1>1, Invariance, PTL

\* Models: no failed load stays cached.
THEOREM FailuresAreForgottenHolds == Spec => []FailuresAreForgotten
<1>1. IInv => FailuresAreForgotten
  BY DEF IInv
<1>. QED BY <1>1, Invariance, PTL

\* materialize: what was never evicted is whole or absent, across restarts.
THEOREM ExportsAreAtomicHolds == Spec => []ExportsAreAtomic
<1>1. IInv => ExportsAreAtomic
  BY DEF IInv
<1>. QED BY <1>1, Invariance, PTL

LEMMA SharedPreserved == IInv /\ [Next]_vars => SharedStep
<1>. SUFFICES ASSUME IInv, [Next]_vars, NEW r \in Revs, loads[r] # None, loads'[r] # loads[r]
              PROVE \/ loads'[r] = None /\ failed[loads[r]] /\ stage[loads[r]] = "forget"
                    \/ \E x \in Revs : loads[x] = None /\ loads'[x] # None /\ order'[Len(order')] = x
                    \/ loads' = [x \in Revs |-> None] /\ \A l \in Loads : stage'[l] = "done"
  BY DEF SharedStep
<1>. USE DEF IInv
<1>1. ASSUME NEW c \in Callers, NEW x \in Revs, NEW l \in Loads, Start(c, x, l)
      PROVE  loads[x] = None /\ loads'[x] # None /\ order'[Len(order')] = x
  <2>1. order'[Len(order')] = x /\ loads'[x] = l
    BY <1>1, OrderStart
  <2>. QED BY <1>1, <2>1 DEF Start
<1>2. ASSUME NEW l \in Loads, Run(l)
      PROVE  loads'[r] = None /\ failed[loads[r]] /\ stage[loads[r]] = "forget"
  <2>1. CASE Forget(l)
    <3>1. loads'[r] = IF loads[r] = l THEN None ELSE loads[r]
      BY <2>1, OrderForget
    <3>2. loads[r] = l /\ stage[l] = "forget"
      BY <2>1, <3>1 DEF Forget, At
    <3>. QED BY <3>1, <3>2 DEF LoadsAgree
  <2>2. CASE ~Forget(l)
    BY <1>2, <2>2, MapFrame DEF mapVars
  <2>. QED BY <2>1, <2>2
<1>3. CASE Restart
  BY <1>3 DEF Restart
<1>4. ASSUME NEW c \in Callers, NEW x \in Revs, Join(c, x) PROVE FALSE
  BY <1>4 DEF Join
<1>5. ASSUME NEW c \in Callers, Answer(c) \/ Cancel(c) PROVE FALSE
  BY <1>5 DEF Answer, Cancel, Return, mapVars
<1>6. CASE UNCHANGED vars
  BY <1>6 DEF vars
<1>. QED BY <1>1, <1>2, <1>3, <1>4, <1>5, <1>6 DEF Next

\* Models: a load that callers share is taken from the map only by an eviction, its
\* own failure, or the end of the process.
THEOREM LoadsAreSharedHolds == Spec => LoadsAreShared
<1>1. IInv /\ [Next]_vars => [SharedStep]_vars
  BY SharedPreserved
<1>. QED BY <1>1, Invariance, PTL DEF Spec, LoadsAreShared
=============================================================================
