---------------------------- MODULE GatewayProofs ----------------------------
(***************************************************************************)
(* Proofs about Gateway, for maps of any size and any lifetimes.  The two  *)
(* stores share no variable but the clock, so each has an invariant of its *)
(* own: IssueInv for the challenges, ReplayInv for the commands.  Both     *)
(* rest on MapInv, what holds of every bounded map.                        *)
(***************************************************************************)
EXTENDS Gateway, FiniteSetTheorems, WellFoundedInduction, TLAPS

-----------------------------------------------------------------------------
(* Bounded maps.                                                           *)

\* A finite map whose entries have distinct keys and distinct numbers below n.
Map(map, n) ==
    /\ IsFiniteSet(map)
    /\ \A e, f \in map : e.key = f.key \/ e.nr = f.nr => e = f
    /\ \A e \in map : e.nr \in Nat /\ e.nr < n

Newer(map, e) == {f \in map : f.nr > e.nr}

LEMMA SubMap ==
    ASSUME NEW m, NEW n \in Nat, Map(m, n), NEW s \in SUBSET m
    PROVE  Map(s, n)
BY FS_Subset DEF Map

LEMMA AddToMap ==
    ASSUME NEW m, NEW n \in Nat, Map(m, n), NEW key, NEW until, key \notin Keys(m)
    PROVE  Map(m \cup {Entry(key, until, n)}, n + 1)
<1> DEFINE new == Entry(key, until, n)
<1>1. IsFiniteSet(m \cup {new})
  BY FS_AddElement DEF Map
<1>2. new.key = key /\ new.nr = n
  BY DEF Entry
<1>3. \A e \in m : e.key # key /\ e.nr # n
  BY DEF Map, Keys
<1>4. QED
  BY <1>1, <1>2, <1>3 DEF Map

\* Only so many entries can be newer than e as there are numbers above that of e.
LEMMA NewerCount ==
    ASSUME NEW m, NEW n \in Nat, Map(m, n), NEW e \in m
    PROVE  IsFiniteSet(Newer(m, e)) /\ Cardinality(Newer(m, e)) \in Nat
           /\ Cardinality(Newer(m, e)) <= n - 1 - e.nr
<1> DEFINE S == Newer(m, e)
           T == (e.nr + 1) .. (n - 1)
           f == [x \in S |-> x.nr]
<1>1. e.nr \in Nat /\ e.nr < n
  BY DEF Map
<1>2. f \in Injection(S, T)
  BY <1>1 DEF Injection, IsInjective, Map, Newer
<1>3. IsFiniteSet(T) /\ Cardinality(T) = n - 1 - e.nr
  <2>1. e.nr + 1 \in Int /\ n - 1 \in Int /\ n - 1 >= (e.nr + 1) - 1
    BY <1>1
  <2>2. IsFiniteSet(T) /\ Cardinality(T)
            = IF e.nr + 1 > n - 1 THEN 0 ELSE (n - 1) - (e.nr + 1) + 1
    BY <2>1, FS_Interval
  <2>3. QED
    BY <1>1, <2>2
<1>4. IsFiniteSet(S) /\ Cardinality(S) <= Cardinality(T)
  BY <1>2, <1>3, FS_Injection
<1>5. QED
  BY <1>3, <1>4, FS_CardinalityType

\* Evict leaves room for one more entry.
LEMMA EvictSize ==
    ASSUME NEW m, NEW n \in Nat, Map(m, n), NEW max \in Nat \ {0}
    PROVE  /\ IsFiniteSet(Evict(m, max)) /\ Cardinality(Evict(m, max)) \in Nat
           /\ Cardinality(Evict(m, max)) <= max - 1
<1> DEFINE E == Evict(m, max)
           numbers == {e.nr : e \in E}
<1>1. E \subseteq m /\ IsFiniteSet(E) /\ Cardinality(E) \in Nat
  BY FS_Subset, FS_CardinalityType DEF Map, Evict
<1>2. CASE E = {}
  BY <1>1, <1>2, FS_EmptySet
<1>3. CASE E # {}
  <2>1. PICK x \in numbers : \A y \in numbers : ~ (<<y, x>> \in OpToRel(<, Nat))
    <3>1. numbers \subseteq Nat /\ numbers # {}
      BY <1>1, <1>3 DEF Map
    <3>2. QED
      BY <3>1, NatLessThanWellFounded, WFMin
  <2>2. PICK o \in E : o.nr = x
    OBVIOUS
  <2>3. \A e \in E : e.nr \in Nat /\ ~ (e.nr < o.nr)
    BY <1>1, <2>1, <2>2 DEF OpToRel, Map
  <2>4. E \ {o} \subseteq Newer(m, o)
    <3>1. \A e \in E \ {o} : e \in m /\ o \in m /\ e.nr # o.nr
      BY <1>1 DEF Map
    <3>2. QED
      BY <2>2, <2>3, <3>1 DEF Newer
  <2>5. Cardinality(Newer(m, o)) < max - 1
    BY DEF Evict, Newer
  <2>6. IsFiniteSet(Newer(m, o)) /\ Cardinality(Newer(m, o)) \in Nat
    BY <1>1, NewerCount
  <2>7. Cardinality(E \ {o}) <= Cardinality(Newer(m, o))
    BY <2>4, <2>6, FS_Subset
  <2>8. Cardinality(E \ {o}) = Cardinality(E) - 1
    BY <1>1, FS_RemoveElement
  <2>9. QED
    BY <1>1, <2>5, <2>6, <2>7, <2>8
<1>4. QED
  BY <1>2, <1>3

LEMMA LiveSubset == \A m, g : Live(m, g) \subseteq m
BY DEF Live

LEMMA EvictSubset == \A m, max : Evict(m, max) \subseteq m
BY DEF Evict

LEMMA KeysSubset == \A m, s : s \subseteq m => Keys(s) \subseteq Keys(m)
BY DEF Keys

LEMMA MapKeys ==
    ASSUME NEW m, NEW n \in Nat, Map(m, n)
    PROVE  Cardinality(Keys(m)) = Cardinality(m)
<1> DEFINE f == [e \in m |-> e.key]
<1>1. f \in Surjection(m, Keys(m))
  BY DEF Surjection, Keys
<1>2. f \in Injection(m, Keys(m))
  BY DEF Injection, IsInjective, Keys, Map
<1>3. QED
  BY <1>1, <1>2, FS_Surjection DEF Map

\* What sweeping, evicting the oldest and inserting a new key does to a map.
LEMMA Insert ==
    ASSUME NEW m, NEW n \in Nat, Map(m, n), NEW max \in Nat \ {0}, NEW g,
           NEW key, NEW until, key \notin Keys(Live(m, g)),
           NEW new, new = Evict(Live(m, g), max) \cup {Entry(key, until, n)}
    PROVE  /\ Map(new, n + 1) /\ Cardinality(new) <= max
           /\ \A e \in new : e \in m \/ e = Entry(key, until, n)
<1> DEFINE s == Evict(Live(m, g), max)
<1>1. Live(m, g) \subseteq m /\ s \subseteq Live(m, g)
  BY LiveSubset, EvictSubset
<1>2. Map(Live(m, g), n)
  BY <1>1, SubMap
<1>3. Map(s, n) /\ key \notin Keys(s)
  BY <1>1, <1>2, SubMap, KeysSubset
<1>4. IsFiniteSet(s) /\ Cardinality(s) \in Nat /\ Cardinality(s) <= max - 1
  BY <1>2, EvictSize
<1>5. Map(s \cup {Entry(key, until, n)}, n + 1)
  BY <1>3, AddToMap
<1>6. IsFiniteSet(s \cup {Entry(key, until, n)})
      /\ Cardinality(s \cup {Entry(key, until, n)}) <= max
  <2> DEFINE added == Entry(key, until, n)
  <2> HIDE DEF s, added
  <2>1. /\ IsFiniteSet(s \cup {added})
        /\ Cardinality(s \cup {added})
              = IF added \in s THEN Cardinality(s) ELSE Cardinality(s) + 1
    BY <1>4, FS_AddElement
  <2>2. Cardinality(s \cup {added}) <= max
    BY <1>4, <2>1
  <2>3. QED
    BY <2>1, <2>2 DEF added
<1>7. QED
  BY <1>1, <1>5, <1>6

-----------------------------------------------------------------------------
(* The types.                                                              *)

\* The numbers of the pending challenges are natural because issued is finite.
Typed == GatewayTypeOK /\ IsFiniteSet(issued)

LEMMA TypedInvariant == GatewaySpec => []Typed
<1>1. GatewayInit => Typed
  BY FS_EmptySet DEF GatewayInit, Typed, GatewayTypeOK
<1>2. ASSUME Typed, [GatewayNext]_gatewayVars PROVE Typed'
  <2> USE <1>2, GatewayAssumption DEF Typed, GatewayTypeOK, EntryType
  <2>1. \A m, g, max : Live(m, g) \subseteq m /\ Evict(m, max) \subseteq m
                       /\ Evict(Live(m, g), max) \subseteq m
    BY LiveSubset, EvictSubset
  <2>2. CASE Tick
    BY <2>2 DEF Tick, challengeVars, replayVars
  <2>3. CASE Issue
    <3>1. PICK c \in Challenge \ issued :
              /\ issued' = issued \cup {c}
              /\ challenges' = Evict(Live(challenges, ChallengeTtl), MaxChallenges)
                              \cup {Entry(c, now + ChallengeTtl, Cardinality(issued))}
              /\ used' = Live(used, 0)
              /\ UNCHANGED <<now, consumed, opened, replayVars>>
      BY <2>3 DEF Issue
    <3>2. Cardinality(issued) \in Nat /\ IsFiniteSet(issued')
      BY <3>1, FS_CardinalityType, FS_AddElement
    <3>3. Entry(c, now + ChallengeTtl, Cardinality(issued)) \in EntryType(Challenge)
      BY <3>2 DEF Entry
    <3>4. challenges' \subseteq EntryType(Challenge) /\ used' \subseteq EntryType(Challenge)
      BY <3>1, <3>3, <2>1
    <3>5. QED
      BY <3>1, <3>2, <3>4 DEF replayVars
  <2>4. ASSUME NEW entry \in Live(challenges, ChallengeTtl), NEW proof \in BOOLEAN,
               Verify(entry, proof)
        PROVE  Typed'
    <3>1. entry \in challenges
      BY <2>1
    <3>2. Entry(entry.key, entry.until + ChallengeTtl, Len(consumed)) \in EntryType(Challenge)
      BY <3>1 DEF Entry
    <3>3. challenges' \subseteq EntryType(Challenge) /\ used' \subseteq EntryType(Challenge)
      BY <2>1, <2>4, <3>2 DEF Verify, Consume
    <3>4. consumed' \in Seq(Challenge) /\ opened' \in Seq(Challenge)
      BY <2>4, <3>1 DEF Verify, Consume
    <3>5. QED
      BY <2>4, <3>3, <3>4 DEF Verify, replayVars
  <2>5. ASSUME NEW c \in Challenge, Refuse(c) PROVE Typed'
    BY <2>1, <2>5 DEF Refuse, replayVars
  <2>6. ASSUME NEW k \in Command, Accept(k) PROVE Typed'
    BY <2>1, <2>6 DEF Accept, Remember, Entry, challengeVars, AcceptedCommand
  <2>7. ASSUME NEW k \in Command, Reject(k) PROVE Typed'
    BY <2>1, <2>7 DEF Reject, challengeVars
  <2>8. CASE UNCHANGED gatewayVars
    BY <2>8 DEF gatewayVars, challengeVars, replayVars
  <2>9. QED
    BY <1>2, <2>2, <2>3, <2>4, <2>5, <2>6, <2>7, <2>8 DEF GatewayNext
<1>3. QED
  BY <1>1, <1>2, PTL DEF GatewaySpec

\* Every variable of the two stores always has its type.
THEOREM TypeCorrect == GatewaySpec => []GatewayTypeOK
<1>1. Typed => GatewayTypeOK
  BY DEF Typed
<1>2. QED
  BY <1>1, TypedInvariant, PTL

-----------------------------------------------------------------------------
(* The challenges.                                                         *)

\* SingleUse alone is not inductive: that a challenge is never taken again rests on its
\* having left `challenges` for good, since issue() makes only new ids and the record of
\* its use may be gone.
IssueInv ==
    /\ Map(challenges, Cardinality(issued)) /\ Cardinality(challenges) <= MaxChallenges
    /\ Map(used, Len(consumed)) /\ Cardinality(used) <= MaxChallenges
    /\ \A e \in challenges : e.key \in issued
    /\ \A i \in DOMAIN consumed :
           consumed[i] \in issued /\ \A e \in challenges : e.key # consumed[i]
    /\ \A e \in used : \E i \in DOMAIN consumed : consumed[i] = e.key
    /\ \A i \in DOMAIN opened : \E j \in DOMAIN consumed : opened[i] = consumed[j]
    /\ SingleUse

LEMMA IssueInit == GatewayInit => IssueInv
BY FS_EmptySet, GatewayAssumption DEF GatewayInit, IssueInv, Map, SingleUse

\* A swept map is bounded by what bounded it before.
LEMMA LiveMap ==
    ASSUME NEW m, NEW n \in Nat, Map(m, n), NEW g, NEW max \in Nat, Cardinality(m) <= max
    PROVE  Map(Live(m, g), n) /\ Cardinality(Live(m, g)) <= max
<1>1. Live(m, g) \subseteq m /\ Live(m, g) \in SUBSET m
  BY LiveSubset
<1>2. Cardinality(Live(m, g)) <= Cardinality(m) /\ IsFiniteSet(Live(m, g))
  BY <1>1, FS_Subset DEF Map
<1>3. Cardinality(Live(m, g)) \in Nat /\ Cardinality(m) \in Nat
  BY <1>2, FS_CardinalityType DEF Map
<1>4. QED
  BY <1>1, <1>2, <1>3, SubMap

LEMMA IssueStep == ASSUME Typed, IssueInv, Issue PROVE IssueInv'
<1> USE GatewayAssumption
<1>1. PICK c \in Challenge \ issued :
          /\ issued' = issued \cup {c}
          /\ challenges' = Evict(Live(challenges, ChallengeTtl), MaxChallenges)
                          \cup {Entry(c, now + ChallengeTtl, Cardinality(issued))}
          /\ used' = Live(used, 0)
          /\ UNCHANGED <<now, consumed, opened, replayVars>>
  BY DEF Issue
<1>2. Cardinality(issued) \in Nat /\ Cardinality(issued') = Cardinality(issued) + 1
  BY <1>1, FS_CardinalityType, FS_AddElement DEF Typed
<1>3. c \notin Keys(Live(challenges, ChallengeTtl))
  BY <1>1, LiveSubset DEF IssueInv, Keys
<1>4. /\ Map(challenges', Cardinality(issued)')
      /\ Cardinality(challenges') <= MaxChallenges
      /\ \A e \in challenges' :
             e \in challenges \/ e = Entry(c, now + ChallengeTtl, Cardinality(issued))
  <2>1. /\ Map(challenges', Cardinality(issued) + 1)
        /\ Cardinality(challenges') <= MaxChallenges
        /\ \A e \in challenges' :
               e \in challenges \/ e = Entry(c, now + ChallengeTtl, Cardinality(issued))
    BY <1>1, <1>2, <1>3, Insert DEF IssueInv
  <2>2. QED
    BY <1>2, <2>1
<1>5. Len(consumed) \in Nat /\ consumed' = consumed /\ opened' = opened
  BY <1>1 DEF Typed, GatewayTypeOK
<1>6. Map(used', Len(consumed)') /\ Cardinality(used') <= MaxChallenges /\ used' \subseteq used
  BY <1>1, <1>5, LiveMap, LiveSubset DEF IssueInv
<1>7. \A e \in challenges' : e.key \in issued' /\ (e \in challenges \/ e.key = c)
  BY <1>1, <1>4 DEF Entry, IssueInv
<1>8. \A i \in DOMAIN consumed : consumed[i] \in issued' /\ \A e \in challenges' : e.key # consumed[i]
  BY <1>1, <1>7 DEF IssueInv
<1>9. SingleUse'
  BY <1>1, <1>5 DEF IssueInv, SingleUse
<1>10. QED
  BY <1>4, <1>5, <1>6, <1>7, <1>8, <1>9 DEF IssueInv

LEMMA VerifyStep ==
    ASSUME Typed, IssueInv, NEW entry \in Live(challenges, ChallengeTtl),
           NEW proof \in BOOLEAN, Verify(entry, proof)
    PROVE  IssueInv'
<1> USE GatewayAssumption
<1>1. /\ entry \in challenges /\ entry.key \in issued
      /\ Live(challenges, ChallengeTtl) \subseteq challenges
  BY LiveSubset DEF IssueInv
<1>2. /\ challenges' = Live(challenges, ChallengeTtl) \ {entry}
      /\ used' = Evict(Live(used, 0), MaxChallenges)
                   \cup {Entry(entry.key, entry.until + ChallengeTtl, Len(consumed))}
      /\ consumed' = Append(consumed, entry.key) /\ issued' = issued
      /\ opened' = opened \/ opened' = Append(opened, entry.key)
  BY DEF Verify, Consume
<1>3. Cardinality(issued) \in Nat /\ issued \subseteq Challenge
  BY FS_CardinalityType DEF Typed, GatewayTypeOK
<1>4. /\ consumed \in Seq(Challenge) /\ entry.key \in Challenge
      /\ opened \in Seq(Challenge)
  BY <1>1, <1>3 DEF Typed, GatewayTypeOK
<1>5. /\ Len(consumed) \in Nat /\ Len(consumed') = Len(consumed) + 1
      /\ DOMAIN consumed' = DOMAIN consumed \cup {Len(consumed) + 1}
      /\ consumed'[Len(consumed) + 1] = entry.key
      /\ \A i \in DOMAIN consumed : consumed'[i] = consumed[i]
  BY <1>2, <1>4
<1>6. Map(challenges', Cardinality(issued)') /\ Cardinality(challenges') <= MaxChallenges
  <2>1. /\ Map(Live(challenges, ChallengeTtl), Cardinality(issued))
        /\ Cardinality(Live(challenges, ChallengeTtl)) <= MaxChallenges
    BY <1>3, LiveMap DEF IssueInv
  <2>2. IsFiniteSet(Live(challenges, ChallengeTtl))
    BY <2>1 DEF Map
  <2>3. Cardinality(Live(challenges, ChallengeTtl)) \in Nat
        /\ Cardinality(challenges') = Cardinality(Live(challenges, ChallengeTtl)) - 1
    BY <1>2, <2>2, FS_RemoveElement, FS_CardinalityType
  <2>4. Map(challenges', Cardinality(issued))
    BY <1>2, <1>3, <2>1, SubMap
  <2>5. QED
    BY <1>2, <2>1, <2>3, <2>4
<1>7. /\ Map(used', Len(consumed)') /\ Cardinality(used') <= MaxChallenges
      /\ \A e \in used' : e \in used
             \/ e = Entry(entry.key, entry.until + ChallengeTtl, Len(consumed))
  <2> DEFINE n == Len(consumed)
             until == entry.until + ChallengeTtl
  <2>1. /\ entry.key \notin Keys(Live(used, 0)) /\ n \in Nat /\ Map(used, n)
        /\ used' = Evict(Live(used, 0), MaxChallenges) \cup {Entry(entry.key, until, n)}
    BY <1>2, <1>5 DEF Verify, IssueInv
  <2> HIDE DEF n, until
  <2>2. /\ Map(used', n + 1) /\ Cardinality(used') <= MaxChallenges
        /\ \A e \in used' : e \in used \/ e = Entry(entry.key, until, n)
    BY <2>1, Insert
  <2>3. QED
    BY <1>5, <2>2 DEF n, until
<1>8. \A e \in challenges' : e \in challenges /\ e.key \in issued' /\ e.key # entry.key
  BY <1>1, <1>2 DEF IssueInv, Map
<1>9. \A i \in DOMAIN consumed' :
          consumed'[i] \in issued' /\ \A e \in challenges' : e.key # consumed'[i]
  BY <1>1, <1>2, <1>5, <1>8 DEF IssueInv
<1>10. \A e \in used' : \E i \in DOMAIN consumed' : consumed'[i] = e.key
  BY <1>5, <1>7 DEF IssueInv, Entry
<1>11. \A i \in DOMAIN opened : opened[i] # entry.key /\ opened[i] \in issued
  BY <1>1 DEF IssueInv
<1>12. (\A i \in DOMAIN opened' : \E j \in DOMAIN consumed' : opened'[i] = consumed'[j])
       /\ SingleUse'
  <2>1. CASE opened' = opened
    BY <1>2, <1>5, <2>1 DEF IssueInv, SingleUse
  <2>2. CASE opened' = Append(opened, entry.key)
    <3>1. /\ DOMAIN opened' = DOMAIN opened \cup {Len(opened) + 1}
          /\ opened'[Len(opened) + 1] = entry.key
          /\ \A i \in DOMAIN opened : opened'[i] = opened[i]
      BY <1>4, <2>2
    <3>2. \A i \in DOMAIN opened' : \E j \in DOMAIN consumed' : opened'[i] = consumed'[j]
      BY <1>5, <3>1 DEF IssueInv
    <3>3. SingleUse'
      BY <1>1, <1>2, <1>11, <3>1 DEF IssueInv, SingleUse
    <3>4. QED
      BY <3>2, <3>3
  <2>3. QED
    BY <1>2, <2>1, <2>2
<1>13. QED
  BY <1>6, <1>7, <1>8, <1>9, <1>10, <1>12 DEF IssueInv

LEMMA RefuseStep ==
    ASSUME Typed, IssueInv, NEW c \in Challenge, Refuse(c)
    PROVE  IssueInv'
<1> USE GatewayAssumption
<1>1. /\ challenges' = Live(challenges, ChallengeTtl) /\ used' = Live(used, 0)
      /\ UNCHANGED <<issued, consumed, opened>>
  BY DEF Refuse
<1>2. Cardinality(issued) \in Nat /\ Len(consumed) \in Nat
  BY FS_CardinalityType DEF Typed, GatewayTypeOK
<1>3. Map(challenges', Cardinality(issued)) /\ Cardinality(challenges') <= MaxChallenges
  BY <1>1, <1>2, LiveMap DEF IssueInv
<1>4. Map(used', Len(consumed)) /\ Cardinality(used') <= MaxChallenges
  BY <1>1, <1>2, LiveMap DEF IssueInv
<1>5. challenges' \subseteq challenges /\ used' \subseteq used
  BY <1>1, LiveSubset
<1>6. SingleUse'
  BY <1>1 DEF IssueInv, SingleUse
<1>7. QED
  BY <1>1, <1>3, <1>4, <1>5, <1>6 DEF IssueInv

LEMMA IssueInvariant == GatewaySpec => []IssueInv
<1>1. ASSUME Typed, IssueInv, [GatewayNext]_gatewayVars PROVE IssueInv'
  <2>1. ASSUME UNCHANGED challengeVars PROVE IssueInv'
    BY <1>1, <2>1 DEF challengeVars, IssueInv, SingleUse
  <2>2. CASE Tick \/ UNCHANGED gatewayVars \/ \E k \in Command : Accept(k) \/ Reject(k)
    BY <2>1, <2>2 DEF Tick, Accept, Reject, gatewayVars, challengeVars
  <2>3. CASE Issue
    BY <1>1, <2>3, IssueStep
  <2>4. CASE \E entry \in Live(challenges, ChallengeTtl), proof \in BOOLEAN : Verify(entry, proof)
    BY <1>1, <2>4, VerifyStep
  <2>5. CASE \E c \in Challenge : Refuse(c)
    BY <1>1, <2>5, RefuseStep
  <2>6. QED
    BY <1>1, <2>2, <2>3, <2>4, <2>5 DEF GatewayNext
<1>2. QED
  BY <1>1, IssueInit, TypedInvariant, PTL DEF GatewaySpec

\* A challenge opens at most one connection, however few entries the store keeps and
\* however short their lifetime.
THEOREM SingleUseCorrect == GatewaySpec => []SingleUse
<1>1. IssueInv => SingleUse
  BY DEF IssueInv
<1>2. QED
  BY <1>1, IssueInvariant, PTL

\* Only the first try of a challenge opens a connection, and only in its lifetime.
THEOREM FirstTryCorrect == GatewaySpec => FirstTryInTime
<1> DEFINE Step ==
      Len(opened') > Len(opened) =>
          LET c == opened'[Len(opened')]
          IN  /\ \A i \in DOMAIN consumed : consumed[i] # c
              /\ \E entry \in challenges : entry.key = c /\ now <= entry.until
<1>1. ASSUME Typed, IssueInv, [GatewayNext]_gatewayVars PROVE [Step]_gatewayVars
  <2>1. SUFFICES ASSUME Len(opened') > Len(opened) PROVE Step
    OBVIOUS
  <2>2. opened \in Seq(Challenge) /\ Len(opened) \in Nat /\ opened' # opened /\ now \in Nat
    BY <1>1, <2>1 DEF Typed, GatewayTypeOK
  <2>3. PICK entry \in Live(challenges, ChallengeTtl), proof \in BOOLEAN : Verify(entry, proof)
    BY <1>1, <2>2 DEF GatewayNext, Tick, Issue, Refuse, Accept, Reject, challengeVars, gatewayVars
  <2>4. entry \in challenges /\ entry.until \in Nat /\ entry.key \in Challenge
    BY <1>1, LiveSubset DEF Typed, GatewayTypeOK, EntryType
  <2>5. entry.until >= now /\ opened' = Append(opened, entry.key)
    BY <2>2, <2>3 DEF Verify, Valid
  <2>6. opened'[Len(opened')] = entry.key
    BY <2>2, <2>4, <2>5
  <2>7. \A i \in DOMAIN consumed : consumed[i] # entry.key
    BY <1>1, <2>4 DEF IssueInv
  <2>8. QED
    BY <2>2, <2>4, <2>5, <2>6, <2>7
<1>2. QED
  BY <1>1, TypedInvariant, IssueInvariant, PTL DEF GatewaySpec, FirstTryInTime

-----------------------------------------------------------------------------
(* The commands.                                                           *)

\* An accepted command is in the cache unless its time is over or as many commands as
\* the cache holds came after it.
Remembered(i) ==
    \/ Entry(accepted[i].key, accepted[i].at + ReplayTtl, i) \in seen
    \/ now > accepted[i].at + ReplayTtl
    \/ Len(accepted) - i >= MaxEntries

ReplayInv ==
    /\ Map(seen, Len(accepted) + 1) /\ Cardinality(seen) <= MaxEntries
    /\ \A i \in DOMAIN accepted : Remembered(i)
    /\ NoEarlyDuplicate

LEMMA ReplayInit == GatewayInit => ReplayInv
BY FS_EmptySet, GatewayAssumption DEF GatewayInit, ReplayInv, Map, NoEarlyDuplicate

LEMMA AppendAccepted ==
    ASSUME NEW S, NEW s \in Seq(S), NEW x \in S
    PROVE  /\ Len(s) \in Nat /\ DOMAIN s = 1 .. Len(s) /\ \A i \in DOMAIN s : s[i] \in S
           /\ Len(Append(s, x)) = Len(s) + 1
           /\ DOMAIN Append(s, x) = 1 .. Len(s) + 1
           /\ Append(s, x)[Len(s) + 1] = x
           /\ \A i \in 1 .. Len(s) : Append(s, x)[i] = s[i]
OBVIOUS

LEMMA AcceptStep ==
    ASSUME Typed, ReplayInv, NEW k \in Command, Accept(k)
    PROVE  ReplayInv'
<1> DEFINE live == Live(seen, 0)
           until == now + ReplayTtl
           command == [key |-> k, at |-> now]
<1> USE GatewayAssumption
<1>n. PICK n \in Nat : n = Len(accepted)
  BY DEF Typed, GatewayTypeOK
<1>1. /\ accepted \in Seq(AcceptedCommand) /\ now \in Nat /\ now' = now
      /\ n \in Nat /\ k \notin Keys(live) /\ Map(seen, n + 1)
      /\ seen' = Evict(live, MaxEntries) \cup {Entry(k, until, n + 1)}
      /\ accepted' = Append(accepted, command) /\ command \in AcceptedCommand
  BY <1>n DEF Typed, GatewayTypeOK, Accept, Remember, ReplayInv, AcceptedCommand
<1>2. /\ Len(accepted') = n + 1 /\ DOMAIN accepted = 1 .. n /\ DOMAIN accepted' = 1 .. n + 1
      /\ accepted'[n + 1].key = k /\ accepted'[n + 1].at = now
      /\ \A i \in 1 .. n : accepted'[i] = accepted[i] /\ accepted[i].at \in Nat
  <2>1. /\ Len(accepted') = n + 1 /\ DOMAIN accepted = 1 .. n /\ DOMAIN accepted' = 1 .. n + 1
        /\ accepted'[n + 1] = command
        /\ \A i \in 1 .. n : accepted'[i] = accepted[i]
                             /\ accepted[i] \in AcceptedCommand
    <3> HIDE DEF command
    <3>1. QED
      BY <1>n, <1>1, AppendAccepted
  <2>2. QED
    BY <2>1 DEF AcceptedCommand
<1>3. Map(seen', Len(accepted)' + 1) /\ Cardinality(seen') <= MaxEntries
  <2> HIDE DEF live, until, command
  <2> DEFINE m == n + 1
  <2> HIDE DEF m
  <2>1. /\ m \in Nat /\ Map(seen, m) /\ k \notin Keys(live)
        /\ seen' = Evict(live, MaxEntries) \cup {Entry(k, until, m)}
    BY <1>1 DEF m
  <2>2. Map(seen', m + 1) /\ Cardinality(seen') <= MaxEntries
    BY <2>1, Insert DEF live
  <2>3. QED
    BY <1>2, <2>2 DEF m
<1>4. ASSUME NEW i \in 1 .. n PROVE Remembered(i)'
  <2> DEFINE e == Entry(accepted[i].key, accepted[i].at + ReplayTtl, i)
  <2>1. e.nr = i /\ e.until = accepted[i].at + ReplayTtl
    BY DEF Entry
  <2>2. CASE e \in live
    <3>1. live \subseteq seen /\ Map(live, n + 1)
      BY <1>1, LiveSubset, SubMap
    <3>2. Cardinality(Newer(live, e)) \in Nat /\ Cardinality(Newer(live, e)) <= n - i
      BY <1>1, <2>1, <2>2, <3>1, NewerCount
    <3>3. CASE Cardinality(Newer(live, e)) < MaxEntries - 1
      <4>1. e \in seen'
        BY <1>1, <2>2, <3>3 DEF Evict, Newer
      <4>2. QED
        BY <1>2, <4>1 DEF Remembered
    <3>4. CASE Cardinality(Newer(live, e)) >= MaxEntries - 1
      BY <1>1, <1>2, <3>2, <3>4 DEF Remembered
    <3>5. QED
      BY <3>2, <3>3, <3>4
  <2>3. CASE e \in seen \ live
    BY SMTT(60), <1>1, <1>2, <2>1, <2>3 DEF Live, Remembered
  <2>4. CASE e \notin seen
    <3>1. now > accepted[i].at + ReplayTtl \/ n - i >= MaxEntries
      BY <1>n, <1>2, <2>4 DEF Remembered, ReplayInv
    <3>2. QED
      BY <1>1, <1>2, <3>1 DEF Remembered
  <2>5. QED
    BY <2>2, <2>3, <2>4
<1>5. Remembered(n + 1)'
  <2>1. Entry(k, until, n + 1) \in seen'
    BY <1>1
  <2>2. QED
    BY <1>1, <1>2, <2>1 DEF Remembered
<1>6. ASSUME NEW i \in 1 .. n, accepted[i].key = k
      PROVE  now > accepted[i].at + ReplayTtl \/ n + 1 - i > MaxEntries
  <2> DEFINE e == Entry(accepted[i].key, accepted[i].at + ReplayTtl, i)
  <2>1. e.key = k /\ e.until = accepted[i].at + ReplayTtl
    BY <1>6 DEF Entry
  <2>2. e \notin live
    BY <1>1, <2>1 DEF Keys
  <2>3. CASE e \in seen
    BY <1>1, <1>2, <2>1, <2>2, <2>3 DEF Live
  <2>4. CASE e \notin seen
    BY <1>n, <1>1, <1>2, <2>4 DEF Remembered, ReplayInv
  <2>5. QED
    BY <2>3, <2>4
<1>7. NoEarlyDuplicate'
  <2>1. SUFFICES ASSUME NEW i \in 1 .. n + 1, NEW j \in 1 .. n + 1,
                        i < j, accepted'[i].key = accepted'[j].key
                 PROVE  accepted'[j].at > accepted'[i].at + ReplayTtl \/ j - i > MaxEntries
    BY <1>2 DEF NoEarlyDuplicate
  <2>2. i \in 1 .. n
    BY <1>1, <2>1
  <2>3. CASE j = n + 1
    BY <1>2, <1>6, <2>1, <2>2, <2>3
  <2>4. CASE j \in 1 .. n
    <3>1. i \in DOMAIN accepted /\ j \in DOMAIN accepted
          /\ accepted'[i] = accepted[i] /\ accepted'[j] = accepted[j]
      BY <1>2, <2>2, <2>4
    <3>2. QED
      BY <2>1, <3>1 DEF ReplayInv, NoEarlyDuplicate
  <2>5. j = n + 1 \/ j \in 1 .. n
    OBVIOUS
  <2>6. QED
    BY <2>3, <2>4, <2>5
<1>8. \A i \in DOMAIN accepted' : Remembered(i)'
  BY <1>1, <1>2, <1>4, <1>5
<1>9. QED
  BY <1>3, <1>7, <1>8 DEF ReplayInv

LEMMA RejectStep ==
    ASSUME Typed, ReplayInv, NEW k \in Command, Reject(k)
    PROVE  ReplayInv'
<1> USE GatewayAssumption
<1>1. seen' = Live(seen, 0) /\ UNCHANGED <<now, accepted>> /\ now \in Nat
      /\ accepted \in Seq(AcceptedCommand) /\ Len(accepted) + 1 \in Nat
  BY DEF Reject, Typed, GatewayTypeOK
<1>2. Map(seen', Len(accepted) + 1) /\ Cardinality(seen') <= MaxEntries
  BY <1>1, LiveMap DEF ReplayInv
<1>3. ASSUME NEW i \in DOMAIN accepted PROVE Remembered(i)'
  <2> DEFINE e == Entry(accepted[i].key, accepted[i].at + ReplayTtl, i)
  <2>1. e.until = accepted[i].at + ReplayTtl /\ accepted[i].at \in Nat
    <3>1. accepted[i] \in AcceptedCommand
      BY <1>1
    <3>2. QED
      BY <3>1 DEF Entry, AcceptedCommand
  <2>2. e \in seen => e \in seen' \/ now > accepted[i].at + ReplayTtl
    BY <1>1, <2>1 DEF Live
  <2>3. QED
    BY <1>1, <2>2 DEF Remembered, ReplayInv
<1>4. NoEarlyDuplicate'
  BY <1>1 DEF ReplayInv, NoEarlyDuplicate
<1>5. QED
  BY <1>1, <1>2, <1>3, <1>4 DEF ReplayInv

LEMMA ReplayInvariant == GatewaySpec => []ReplayInv
<1>1. ASSUME Typed, ReplayInv, [GatewayNext]_gatewayVars PROVE ReplayInv'
  <2>1. ASSUME UNCHANGED replayVars, now' = now \/ now' = now + 1 PROVE ReplayInv'
    <3>1. /\ seen' = seen /\ accepted' = accepted /\ now \in Nat
          /\ \A i \in DOMAIN accepted : accepted[i].at \in Nat
      <4>1. accepted \in Seq(AcceptedCommand)
        BY <1>1 DEF Typed, GatewayTypeOK
      <4>2. \A i \in DOMAIN accepted : accepted[i] \in AcceptedCommand
        BY <4>1
      <4>3. QED
        BY <1>1, <2>1, <4>2 DEF replayVars, Typed, GatewayTypeOK, AcceptedCommand
    <3>2. \A i \in DOMAIN accepted : Remembered(i) => Remembered(i)'
      BY <2>1, <3>1, GatewayAssumption DEF Remembered
    <3>3. NoEarlyDuplicate'
      BY <1>1, <3>1 DEF ReplayInv, NoEarlyDuplicate
    <3>4. QED
      BY <1>1, <3>1, <3>2, <3>3 DEF ReplayInv
  <2>2. CASE Tick \/ Issue \/ UNCHANGED gatewayVars
    BY <2>1, <2>2 DEF Tick, Issue, gatewayVars, replayVars
  <2>3. CASE \/ \E entry \in Live(challenges, ChallengeTtl), proof \in BOOLEAN : Verify(entry, proof)
             \/ \E c \in Challenge : Refuse(c)
    BY <2>1, <2>3 DEF Verify, Refuse
  <2>4. CASE \E k \in Command : Accept(k) \/ Reject(k)
    BY <1>1, <2>4, AcceptStep, RejectStep
  <2>5. QED
    BY <1>1, <2>2, <2>3, <2>4 DEF GatewayNext
<1>2. QED
  BY <1>1, ReplayInit, TypedInvariant, PTL DEF GatewaySpec

\* A command is accepted twice only when its time is over or the cache was full of later
\* ones, for every lifetime and every size.
THEOREM NoEarlyDuplicateCorrect == GatewaySpec => []NoEarlyDuplicate
<1>1. ReplayInv => NoEarlyDuplicate
  BY DEF ReplayInv
<1>2. QED
  BY <1>1, ReplayInvariant, PTL

\* None of the three maps outgrows its limit or holds a key twice.
THEOREM BoundedCorrect == GatewaySpec => []Bounded
<1>1. Typed /\ IssueInv /\ ReplayInv => Bounded
  <2> SUFFICES ASSUME Typed, IssueInv, ReplayInv PROVE Bounded
    OBVIOUS
  <2>1. Cardinality(issued) \in Nat /\ Len(consumed) \in Nat /\ Len(accepted) + 1 \in Nat
    BY FS_CardinalityType DEF Typed, GatewayTypeOK
  <2>2. /\ Cardinality(Keys(challenges)) = Cardinality(challenges)
        /\ Cardinality(Keys(used)) = Cardinality(used)
        /\ Cardinality(Keys(seen)) = Cardinality(seen)
    BY <2>1, MapKeys DEF IssueInv, ReplayInv
  <2>3. QED
    BY <2>2 DEF Bounded, Typed, IssueInv, ReplayInv
<1>2. QED
  BY <1>1, TypedInvariant, IssueInvariant, ReplayInvariant, PTL
=============================================================================
