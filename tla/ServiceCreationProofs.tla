------------------------ MODULE ServiceCreationProofs ------------------------
(***************************************************************************)
(* Proofs about the creation of services, whatever the templates, the types *)
(* and the services are: capabilities take no more relationships than they *)
(* may, as long as sessions do not overlap, and a service that is accepted *)
(* lacks none, whether they do or not.                                     *)
(***************************************************************************)
EXTENDS ServiceCreation, FiniteSetTheorems, SequenceTheorems, WellFoundedInduction, TLAPS

-----------------------------------------------------------------------------
(* Numbers.                                                                *)

(* A set of numbers that is not empty has a least one.                     *)
LEMMA LeastNumber ==
  ASSUME NEW T, T \subseteq Nat, T # {}
  PROVE  \E x \in T : \A y \in T : x <= y
<1> DEFINE R == OpToRel(<, Nat)
<1>1. IsWellFoundedOn(R, Nat)
  BY NatLessThanWellFounded
<1>2. \A x, y \in Nat : x < y => <<x, y>> \in R
  BY DEF OpToRel
<1> HIDE DEF R
<1>3. PICK x \in T : \A y \in T : ~ (<<y, x>> \in R)
  BY <1>1, WFMin
<1>4. ASSUME NEW y \in T
      PROVE  x <= y
  <2>1. ~ (y < x)
    BY <1>2, <1>3
  <2> QED BY <2>1
<1> QED BY <1>3, <1>4

(* Hence a sequence of numbers has a largest one: of the prefixes without  *)
(* one, none can be the shortest.                                          *)
LEMMA LargestNumber ==
  ASSUME NEW len \in Nat, NEW value, \A i \in 1 .. len : value[i] \in Int, len > 0
  PROVE  \E i \in 1 .. len : \A j \in 1 .. len : value[i] >= value[j]
<1> DEFINE IsLargest(i, n) == \A j \in 1 .. n : value[i] >= value[j]
           without == {n \in 1 .. len : ~ \E i \in 1 .. n : IsLargest(i, n)}
<1>1. SUFFICES ASSUME without # {} PROVE FALSE
  <2>1. len \in 1 .. len
    OBVIOUS
  <2>2. without = {} => \E i \in 1 .. len : IsLargest(i, len)
    BY <2>1
  <2> QED BY <2>2
<1>2. PICK n \in without : \A m \in without : n <= m
  <2>1. without \subseteq Nat
    OBVIOUS
  <2> HIDE DEF without
  <2> QED BY <1>1, <2>1, LeastNumber
<1>3. n \in 1 .. len /\ ~ \E i \in 1 .. n : IsLargest(i, n)
  OBVIOUS
<1>4. n # 1
  BY <1>3
<1>5. n - 1 \in 1 .. len /\ n - 1 \notin without
  <2>1. n - 1 \in 1 .. len /\ ~ (n <= n - 1)
    BY <1>3, <1>4
  <2> HIDE DEF without
  <2> QED BY <1>2, <2>1
<1>6. PICK i \in 1 .. n - 1 : IsLargest(i, n - 1)
  BY <1>5
<1>7. CASE value[i] >= value[n]
  <2>1. IsLargest(i, n)
    BY <1>3, <1>6, <1>7
  <2> QED BY <1>3, <1>6, <2>1
<1>8. CASE ~ (value[i] >= value[n])
  <2>1. IsLargest(n, n)
    BY <1>3, <1>6, <1>8
  <2> QED BY <1>3, <2>1
<1> QED BY <1>7, <1>8

(* The members of a finite set of numbers can be counted from below: the   *)
(* least one with at least n members up to it has n of them.               *)
LEMMA Ranks ==
  ASSUME NEW P, P \subseteq Nat, IsFiniteSet(P), NEW n \in 1 .. Cardinality(P)
  PROVE  \E i \in P : Cardinality({j \in P : j <= i}) = n
<1> DEFINE UpTo(i) == {j \in P : j <= i}
           enough == {i \in Nat : Cardinality(UpTo(i)) >= n}
<1>0. \A j \in P : j \in Nat
  OBVIOUS
<1>1. Cardinality(P) \in Nat /\ \A i : IsFiniteSet(UpTo(i)) /\ Cardinality(UpTo(i)) \in Nat
  <2>1. \A i : UpTo(i) \in SUBSET P
    OBVIOUS
  <2> QED BY <2>1, FS_CardinalityType, FS_Subset
<1>2. enough # {}
  <2>1. PICK b \in Nat : \A j \in P : j <= b
    <3>1. P # {}
      BY FS_EmptySet
    <3>2. PICK f \in [1 .. Cardinality(P) -> P] : \A j \in P : \E k \in 1 .. Cardinality(P) : f[k] = j
      BY FS_CardinalityType DEF ExistsBijection, Bijection, Injection, Surjection
    <3>3. \A k \in 1 .. Cardinality(P) : f[k] \in Nat
      OBVIOUS
    <3>4. PICK k \in 1 .. Cardinality(P) : \A l \in 1 .. Cardinality(P) : f[k] >= f[l]
      <4>1. \A k \in 1 .. Cardinality(P) : f[k] \in Int
        BY <3>3
      <4>2. Cardinality(P) > 0
        BY <1>1
      <4> HIDE DEF UpTo, enough
      <4> QED BY <1>1, <4>1, <4>2, LargestNumber
    <3> QED BY <3>2, <3>3, <3>4
  <2>2. UpTo(b) = P
    BY <2>1
  <2> QED BY <1>1, <2>2
<1>3. PICK i \in enough : \A j \in enough : i <= j
  <2>1. enough \subseteq Nat
    OBVIOUS
  <2> HIDE DEF enough
  <2> QED BY <1>2, <2>1, LeastNumber
<1>4. Cardinality(UpTo(i)) >= n /\ i \in Nat
  OBVIOUS
<1>5. CASE i \notin P \/ Cardinality(UpTo(i)) > n
  <2>1. i # 0 \/ i \in P
    <3>1. ASSUME i = 0, i \notin P
          PROVE  UpTo(i) = {}
      <4>1. \A j \in P : ~ (j <= i)
        BY <1>0, <3>1
      <4> QED BY <4>1
    <3>2. Cardinality({}) = 0
      BY FS_EmptySet
    <3> QED BY <1>1, <1>4, <3>1, <3>2
  <2>2. CASE i = 0
    <3>1. UpTo(i) = {0}
      <4>1. \A j \in P : j <= i <=> j = 0
        BY <1>0, <2>2
      <4>2. 0 \in P
        BY <2>1, <2>2
      <4> QED BY <4>1, <4>2
    <3>2. Cardinality(UpTo(i)) = 1
      BY <3>1, FS_Singleton
    <3> QED BY <1>5, <2>1, <2>2, <3>2
  <2>3. CASE i # 0
    <3>1. i - 1 \in Nat
      BY <1>4, <2>3
    <3>2. UpTo(i - 1) = UpTo(i) \ {i}
      <4>1. \A j \in P : j <= i - 1 <=> j <= i /\ j # i
        BY <1>0, <1>4
      <4> QED BY <4>1
    <3>3. Cardinality(UpTo(i) \ {i}) =
            IF i \in UpTo(i) THEN Cardinality(UpTo(i)) - 1 ELSE Cardinality(UpTo(i))
      <4>1. IsFiniteSet(UpTo(i))
        BY <1>1
      <4> QED BY ONLY <4>1, FS_RemoveElement, Zenon
    <3>4. Cardinality(UpTo(i - 1)) >= n
      <4>1. CASE i \in P
        BY <1>1, <1>4, <1>5, <3>2, <3>3, <4>1
      <4>2. CASE i \notin P
        BY <1>1, <1>4, <3>2, <3>3, <4>2
      <4> QED BY <4>1, <4>2
    <3>5. i - 1 \in enough /\ ~ (i <= i - 1)
      BY <1>4, <3>1, <3>4
    <3> QED BY <1>3, <3>5
  <2> QED BY <2>2, <2>3
<1>6. CASE i \in P /\ ~ (Cardinality(UpTo(i)) > n)
  BY <1>1, <1>4, <1>6
<1> QED BY <1>5, <1>6

-----------------------------------------------------------------------------
(* Sequences: what is left of one, and how often a capability is the end   *)
(* of a relationship.                                                      *)

(* What is left of a sequence is a sequence, whose entries are those of    *)
(* different places of the old one, all of them kept.                      *)
LEMMA WhatRemains ==
  ASSUME NEW S, NEW seq \in Seq(S), NEW kept
  PROVE  /\ Remaining(seq, kept) \in Seq(S)
         /\ ToSet(Remaining(seq, kept)) \subseteq ToSet(seq) \cap kept
         /\ \E place \in [DOMAIN Remaining(seq, kept) -> DOMAIN seq] :
              /\ \A i \in DOMAIN Remaining(seq, kept) : Remaining(seq, kept)[i] = seq[place[i]]
              /\ \A i, j \in DOMAIN Remaining(seq, kept) : place[i] = place[j] => i = j
<1> DEFINE places == {i \in DOMAIN seq : seq[i] \in kept}
           upTo(i) == {j \in places : j <= i}
           at(n) == CHOOSE i \in places : Cardinality(upTo(i)) = n
           left == 1 .. Cardinality(places)
           place == [n \in left |-> at(n)]
<1>1. DOMAIN seq = 1 .. Len(seq) /\ Len(seq) \in Nat /\ \A i \in DOMAIN seq : seq[i] \in S
  OBVIOUS
<1>2. places \subseteq Nat /\ IsFiniteSet(places) /\ Cardinality(places) \in Nat
  <2>1. IsFiniteSet(1 .. Len(seq))
    BY <1>1, FS_Interval
  <2>2. places \in SUBSET (1 .. Len(seq))
    BY <1>1
  <2>3. 1 .. Len(seq) \subseteq Nat
    BY <1>1
  <2> HIDE DEF places
  <2>4. IsFiniteSet(places)
    BY <2>1, <2>2, FS_Subset
  <2>5. Cardinality(places) \in Nat
    BY <2>4, FS_CardinalityType
  <2> QED BY <2>2, <2>3, <2>4, <2>5
<1>3. \A n \in left : at(n) \in places /\ Cardinality(upTo(at(n))) = n
  <2>1. SUFFICES ASSUME NEW n \in left PROVE \E i \in places : Cardinality(upTo(i)) = n
    BY Zenon
  <2> HIDE DEF places
  <2> QED BY <1>2, Ranks
<1>4. Remaining(seq, kept) = [n \in left |-> seq[at(n)]]
  BY DEF Remaining
<1> HIDE DEF at, upTo
<1>5. \A n \in left : seq[at(n)] \in S \cap kept /\ at(n) \in DOMAIN seq
  BY <1>1, <1>3
<1> HIDE DEF places
<1>6. Remaining(seq, kept) \in Seq(S)
  BY <1>2, <1>4, <1>5
<1>7. place \in [DOMAIN Remaining(seq, kept) -> DOMAIN seq]
  BY <1>4, <1>5
<1>8. \A i, j \in DOMAIN Remaining(seq, kept) : place[i] = place[j] => i = j
  BY <1>3, <1>4
<1>9. \A i \in DOMAIN Remaining(seq, kept) : Remaining(seq, kept)[i] = seq[place[i]]
  BY <1>4
<1>10. ToSet(Remaining(seq, kept)) \subseteq ToSet(seq) \cap kept
  BY <1>4, <1>5 DEF ToSet
<1> QED BY <1>6, <1>7, <1>8, <1>9, <1>10

(* The places a count is about.                                            *)
Counted(relationships, slot) ==
  {i \in DOMAIN relationships :
     relationships[i].target = slot.node /\ relationships[i].capability = slot.name}

(* A count is the number of finitely many places.                          *)
LEMMA CountIsANumber ==
  ASSUME NEW S, NEW r \in Seq(S), NEW slot
  PROVE  /\ Count(r, slot) = Cardinality(Counted(r, slot))
         /\ Count(r, slot) \in Nat /\ IsFiniteSet(Counted(r, slot))
<1>1. IsFiniteSet(1 .. Len(r))
  BY FS_Interval
<1>2. Counted(r, slot) \in SUBSET (1 .. Len(r))
  BY DEF Counted
<1>3. Count(r, slot) = Cardinality(Counted(r, slot))
  BY DEF Count, Counted
<1> QED BY <1>1, <1>2, <1>3, FS_Subset, FS_CardinalityType

(* Nothing ends in a capability that no relationship has as its target.    *)
LEMMA NoneCounted ==
  ASSUME NEW S, NEW r \in Seq(S), NEW slot, \A x \in ToSet(r) : x.target # slot.node
  PROVE  Count(r, slot) = 0
<1>1. Counted(r, slot) = {}
  BY DEF Counted, ToSet
<1> QED BY <1>1, CountIsANumber, FS_EmptySet

(* One more relationship is counted for the capability it ends in.         *)
LEMMA OneMore ==
  ASSUME NEW S, NEW r \in Seq(S), NEW x \in S, NEW slot
  PROVE  Count(Append(r, x), slot) <= Count(r, slot) + 1
         /\ (x.target # slot.node \/ x.capability # slot.name =>
               Count(Append(r, x), slot) = Count(r, slot))
<1> DEFINE last == Len(r) + 1
<1>1. /\ DOMAIN Append(r, x) = (DOMAIN r) \cup {last} /\ Append(r, x)[last] = x
      /\ \A i \in DOMAIN r : Append(r, x)[i] = r[i]
      /\ Append(r, x) \in Seq(S) /\ last \notin DOMAIN r
  OBVIOUS
<1>2. CASE x.target = slot.node /\ x.capability = slot.name
  <2>1. Counted(Append(r, x), slot) = Counted(r, slot) \cup {last} /\ last \notin Counted(r, slot)
    BY <1>1, <1>2 DEF Counted
  <2>2. IsFiniteSet(Counted(r, slot))
    BY CountIsANumber
  <2>3. Cardinality(Counted(r, slot) \cup {last}) = Cardinality(Counted(r, slot)) + 1
    BY <2>1, <2>2, FS_AddElement
  <2>4. Count(Append(r, x), slot) = Cardinality(Counted(Append(r, x), slot))
    BY <1>1, CountIsANumber
  <2>5. Count(r, slot) = Cardinality(Counted(r, slot)) /\ Count(r, slot) \in Nat
    BY CountIsANumber
  <2> QED BY <1>2, <2>1, <2>3, <2>4, <2>5
<1>3. CASE ~ (x.target = slot.node /\ x.capability = slot.name)
  <2>1. Counted(Append(r, x), slot) = Counted(r, slot)
    BY <1>1, <1>3 DEF Counted
  <2>2. Count(Append(r, x), slot) = Count(r, slot)
    BY <1>1, <2>1, CountIsANumber
  <2> QED BY <2>2, CountIsANumber
<1> QED BY <1>2, <1>3

(* Others that end elsewhere do not count.                                 *)
LEMMA OthersDoNotCount ==
  ASSUME NEW S, NEW r \in Seq(S), NEW more \in Seq(S), NEW slot,
         \A x \in ToSet(more) : ~ (x.target = slot.node /\ x.capability = slot.name)
  PROVE  Count(r \o more, slot) = Count(r, slot)
<1>1. /\ r \o more \in Seq(S) /\ DOMAIN r \subseteq DOMAIN (r \o more)
      /\ \A i \in DOMAIN r : (r \o more)[i] = r[i]
      /\ \A i \in (DOMAIN (r \o more)) \ DOMAIN r :
           i - Len(r) \in DOMAIN more /\ (r \o more)[i] = more[i - Len(r)]
  OBVIOUS
<1>2. \A i \in (DOMAIN (r \o more)) \ DOMAIN r : (r \o more)[i] \in ToSet(more)
  BY <1>1 DEF ToSet
<1>3. Counted(r \o more, slot) = Counted(r, slot)
  BY <1>1, <1>2 DEF Counted
<1> QED BY <1>1, <1>3, CountIsANumber

(* What is left of some relationships counts no more than they did.        *)
LEMMA FewerRemain ==
  ASSUME NEW S, NEW r \in Seq(S), NEW kept, NEW slot
  PROVE  Count(Remaining(r, kept), slot) <= Count(r, slot)
<1> DEFINE left == Remaining(r, kept)
<1>1. left \in Seq(S)
  BY WhatRemains
<1>2. PICK place \in [DOMAIN left -> DOMAIN r] :
             /\ \A i \in DOMAIN left : left[i] = r[place[i]]
             /\ \A i, j \in DOMAIN left : place[i] = place[j] => i = j
  BY WhatRemains
<1> HIDE DEF left
<1> DEFINE to == [i \in Counted(left, slot) |-> place[i]]
<1>3. to \in Injection(Counted(left, slot), Counted(r, slot))
  BY <1>2 DEF Counted, Injection, IsInjective
<1>4. Cardinality(Counted(left, slot)) <= Cardinality(Counted(r, slot))
  BY <1>3, CountIsANumber, FS_Injection
<1> QED BY <1>1, <1>4, CountIsANumber DEF left

(* The places where a sequence has members of a set.                       *)
Places(r, T) == {i \in DOMAIN r : r[i] \in T}

(* Finitely many, and none where it has no such member.                    *)
LEMMA PlacesAreFinite ==
  ASSUME NEW S, NEW r \in Seq(S), NEW T
  PROVE  /\ IsFiniteSet(Places(r, T)) /\ Cardinality(Places(r, T)) \in Nat
         /\ ToSet(r) \cap T = {} => Cardinality(Places(r, T)) = 0
<1>1. IsFiniteSet(1 .. Len(r)) /\ Places(r, T) \in SUBSET (1 .. Len(r))
  <2>1. Places(r, T) \subseteq 1 .. Len(r)
    BY DEF Places
  <2> QED BY <2>1, FS_Interval
<1>2. ToSet(r) \cap T = {} => Places(r, T) = {}
  BY DEF Places, ToSet
<1> QED BY <1>1, <1>2, FS_Subset, FS_CardinalityType, FS_EmptySet

(* One member more has one place more, if it is in the set.                *)
LEMMA OnePlaceMore ==
  ASSUME NEW S, NEW r \in Seq(S), NEW x \in S, NEW T
  PROVE  Cardinality(Places(Append(r, x), T)) =
           IF x \in T THEN Cardinality(Places(r, T)) + 1 ELSE Cardinality(Places(r, T))
<1> DEFINE last == Len(r) + 1
<1>1. /\ DOMAIN Append(r, x) = (DOMAIN r) \cup {last} /\ Append(r, x)[last] = x
      /\ \A i \in DOMAIN r : Append(r, x)[i] = r[i]
      /\ last \notin DOMAIN r
  OBVIOUS
<1> HIDE DEF last
<1>2. CASE x \in T
  <2>1. Places(Append(r, x), T) = Places(r, T) \cup {last} /\ last \notin Places(r, T)
    BY <1>1, <1>2 DEF Places
  <2> QED BY <1>2, <2>1, PlacesAreFinite, FS_AddElement
<1>3. CASE x \notin T
  <2>1. Places(Append(r, x), T) = Places(r, T)
    BY <1>1, <1>3 DEF Places
  <2> QED BY <1>3, <2>1
<1> QED BY <1>2, <1>3

(* Behind a sequence without such members, the places are shifted, not     *)
(* fewer or more.                                                          *)
LEMMA PlacesBehind ==
  ASSUME NEW S, NEW r \in Seq(S), NEW more \in Seq(S), NEW T, ToSet(r) \cap T = {}
  PROVE  Cardinality(Places(r \o more, T)) = Cardinality(Places(more, T))
<1> DEFINE to == [i \in Places(more, T) |-> i + Len(r)]
<1>1. /\ r \o more \in Seq(S) /\ Len(r) \in Nat
      /\ DOMAIN (r \o more) = 1 .. Len(r) + Len(more) /\ DOMAIN more = 1 .. Len(more)
      /\ \A i \in DOMAIN r : (r \o more)[i] = r[i]
      /\ \A i \in DOMAIN more : (r \o more)[i + Len(r)] = more[i]
  OBVIOUS
<1>2. \A i \in DOMAIN r : r[i] \notin T
  BY DEF ToSet
<1>3. \A i \in Places(r \o more, T) : i - Len(r) \in Places(more, T) /\ i = (i - Len(r)) + Len(r)
  <2> SUFFICES ASSUME NEW i \in Places(r \o more, T)
               PROVE  i - Len(r) \in Places(more, T) /\ i = (i - Len(r)) + Len(r)
    OBVIOUS
  <2>1. i \in DOMAIN (r \o more) /\ (r \o more)[i] \in T
    BY DEF Places
  <2>2. i \notin DOMAIN r
    BY <1>1, <1>2, <2>1
  <2>3. i - Len(r) \in DOMAIN more /\ i = (i - Len(r)) + Len(r)
    BY <1>1, <2>1, <2>2
  <2>4. more[i - Len(r)] = (r \o more)[i]
    BY <1>1, <2>3
  <2> QED BY <2>1, <2>3, <2>4 DEF Places
<1>4. \A i \in Places(more, T) : i + Len(r) \in Places(r \o more, T) /\ i \in Int
  BY <1>1 DEF Places
<1>5. to \in Bijection(Places(more, T), Places(r \o more, T))
  <2>1. to \in [Places(more, T) -> Places(r \o more, T)]
    BY <1>4
  <2>2. \A i, j \in Places(more, T) : to[i] = to[j] => i = j
    BY <1>1, <1>4
  <2>3. \A j \in Places(r \o more, T) : \E i \in Places(more, T) : to[i] = j
    BY <1>3
  <2> QED BY <2>1, <2>2, <2>3 DEF Bijection, Injection, Surjection, IsInjective
<1>6. ExistsBijection(Places(more, T), Places(r \o more, T))
  BY <1>5 DEF ExistsBijection
<1>7. IsFiniteSet(Places(more, T)) /\ IsFiniteSet(Places(r \o more, T))
  BY <1>1, PlacesAreFinite
<1> QED BY <1>6, <1>7, FS_Bijection

-----------------------------------------------------------------------------
(* Templates, nodes and capabilities.                                      *)

(* The node templates are those of what was read: their numbers of         *)
(* instances and the bounds of their capabilities are numbers.             *)
LEMMA TemplatesAre ==
  ASSUME TypeOK, templates # None
  PROVE  /\ DOMAIN templates = Templates
         /\ \A t \in Templates :
               /\ templates[t].instances[2] \in Int
               /\ DOMAIN templates[t].capabilities = DOMAIN Offered(presentation, t)
               /\ \A name \in DOMAIN templates[t].capabilities :
                     templates[t].capabilities[name].max \in {None} \cup Nat
<1>1. presentation \in Presentations /\ templates = NodeTemplates(presentation)
  BY DEF TypeOK
<1>2. DOMAIN templates = Templates
  BY <1>1 DEF NodeTemplates, Templates
<1>3. ASSUME NEW t \in Templates
      PROVE  /\ templates[t].instances = presentation.templates[t].instances
             /\ DOMAIN templates[t].capabilities = DOMAIN Offered(presentation, t)
             /\ \A name \in DOMAIN templates[t].capabilities :
                   templates[t].capabilities[name] =
                     CapabilityTemplate(Offered(presentation, t)[name])
  BY <1>1 DEF NodeTemplates, NodeTemplate, Templates
<1>4. ASSUME NEW t \in Templates, NEW name \in DOMAIN templates[t].capabilities
      PROVE  templates[t].capabilities[name].max \in {None} \cup Nat
  <2>1. templates[t].capabilities[name].max =
          IF Offered(presentation, t)[name].occurrences = None
          THEN None ELSE Offered(presentation, t)[name].occurrences[2]
    <3> DEFINE definition == Offered(presentation, t)[name]
    <3>1. templates[t].capabilities[name] = CapabilityTemplate(definition)
      BY <1>3
    <3> HIDE DEF definition
    <3>2. CapabilityTemplate(definition).max =
            IF definition.occurrences = None THEN None ELSE definition.occurrences[2]
      BY DEF CapabilityTemplate
    <3> QED BY <3>1, <3>2 DEF definition
  <2>2. Offered(presentation, t)[name].occurrences # None =>
          Offered(presentation, t)[name].occurrences[2] \in {None} \cup Nat
    BY <1>1, <1>3, PresentationsAssumption DEF Templates
  <2> QED BY <2>1, <2>2
<1>5. \A t \in Templates : templates[t].instances[2] \in Int
  BY <1>1, <1>3, PresentationsAssumption DEF Templates
<1> QED BY <1>2, <1>3, <1>4, <1>5

(* The requirements of a template are a list.                              *)
LEMMA RequirementsAre ==
  ASSUME TypeOK, templates # None, NEW t \in Templates
  PROVE  LET r == templates[t].requirements
         IN Len(r) \in Nat /\ DOMAIN r = 1 .. Len(r) /\ (r # <<>> => 1 \in DOMAIN r)
<1> DEFINE required == Requirements(presentation, t)
           to == [i \in DOMAIN required |-> RequirementTemplate(presentation, required[i])]
<1>1. presentation \in Presentations /\ templates = NodeTemplates(presentation)
  BY DEF TypeOK
<1>2. templates[t].requirements = to
  BY <1>1, Zenon DEF NodeTemplates, NodeTemplate, Templates
<1>3. Len(required) \in Nat /\ DOMAIN required = 1 .. Len(required)
  <2>1. Len(required) \in Nat
    BY <1>1, PresentationsAssumption DEF Templates
  <2>2. DOMAIN required = 1 .. Len(required)
    <3>1. ASSUME NEW r, NEW more
          PROVE  DOMAIN (r \o more) = 1 .. Len(r \o more)
      OBVIOUS
    <3> QED BY <3>1 DEF Requirements
  <2> QED BY <2>1, <2>2
<1> HIDE DEF required
<1>4. to \in Seq({to[i] : i \in 1 .. Len(required)}) /\ Len(to) = Len(required)
  BY <1>3
<1> HIDE DEF to
<1>5. Len(to) \in Nat /\ DOMAIN to = 1 .. Len(to)
  BY <1>3, <1>4
<1>6. to # <<>> => 1 \in DOMAIN to
  BY <1>4, <1>5
<1> QED BY <1>2, <1>5, <1>6

(* The members of two sequences in a row.                                  *)
LEMMA JoinedMembers ==
  ASSUME NEW S, NEW x \in Seq(S), NEW y \in Seq(S)
  PROVE  ToSet(x \o y) = ToSet(x) \cup ToSet(y)
<1>1. ToSet(x \o y) \subseteq ToSet(x) \cup ToSet(y)
  <2>1. \A i \in DOMAIN (x \o y) :
           (x \o y)[i] = IF i \in DOMAIN x THEN x[i] ELSE y[i - Len(x)]
    OBVIOUS
  <2>2. \A i \in DOMAIN (x \o y) : i \notin DOMAIN x => i - Len(x) \in DOMAIN y
    OBVIOUS
  <2> QED BY <2>1, <2>2 DEF ToSet
<1>2. ToSet(x) \cup ToSet(y) \subseteq ToSet(x \o y)
  <2>1. \A i \in DOMAIN x : i \in DOMAIN (x \o y) /\ (x \o y)[i] = x[i]
    OBVIOUS
  <2>2. \A i \in DOMAIN y : i + Len(x) \in DOMAIN (x \o y) /\ (x \o y)[i + Len(x)] = y[i]
    OBVIOUS
  <2> QED BY <2>1, <2>2 DEF ToSet
<1> QED BY <1>1, <1>2

(* The nodes of lists that are joined are those of both.                   *)
LEMMA JoinedNodes ==
  ASSUME NEW a, NEW b, NodesAreTyped(a), NodesAreTyped(b)
  PROVE  NodesAreTyped(Joined(a, b)) /\ AllOf(Joined(a, b)) = AllOf(a) \cup AllOf(b)
<1>1. /\ DOMAIN a = Templates /\ DOMAIN b = Templates /\ DOMAIN Joined(a, b) = Templates
      /\ \A t \in Templates : a[t] \in Seq(Nodes) /\ b[t] \in Seq(Nodes)
      /\ \A t \in Templates : Joined(a, b)[t] = a[t] \o b[t]
  BY DEF Joined, NodesAreTyped
<1>2. ASSUME NEW t \in Templates
      PROVE  /\ Joined(a, b)[t] \in Seq(Nodes)
             /\ ToSet(Joined(a, b)[t]) = ToSet(a[t]) \cup ToSet(b[t])
  <2> DEFINE x == a[t]
             y == b[t]
  <2>1. x \in Seq(Nodes) /\ y \in Seq(Nodes) /\ Joined(a, b)[t] = x \o y
    BY <1>1
  <2> HIDE DEF x, y
  <2>2. x \o y \in Seq(Nodes)
    BY <2>1
  <2>3. ToSet(x \o y) = ToSet(x) \cup ToSet(y)
    BY <2>1, JoinedMembers
  <2> QED BY <2>1, <2>2, <2>3 DEF x, y
<1>3. AllOf(Joined(a, b)) = AllOf(a) \cup AllOf(b)
  BY <1>1, <1>2 DEF AllOf
<1>4. \A t \in Templates : \A n \in ToSet(Joined(a, b)[t]) : n.template = t
  BY <1>2 DEF NodesAreTyped
<1>5. Joined(a, b) \in [Templates -> Seq(Nodes)]
  <2>1. Joined(a, b) = [t \in Templates |-> a[t] \o b[t]]
    BY <1>1 DEF Joined
  <2> QED BY <1>1, <1>2, <2>1
<1> QED BY <1>3, <1>4, <1>5 DEF NodesAreTyped

(* It makes no difference which lists are joined first.                    *)
LEMMA JoinedAgain ==
  ASSUME NEW a, NEW b, NEW c, NodesAreTyped(a), NodesAreTyped(b), NodesAreTyped(c)
  PROVE  Joined(Joined(a, b), c) = Joined(a, Joined(b, c))
<1>1. \A t \in Templates : a[t] \in Seq(Nodes) /\ b[t] \in Seq(Nodes) /\ c[t] \in Seq(Nodes)
  BY DEF NodesAreTyped
<1>2. DOMAIN a = Templates /\ DOMAIN b = Templates
  BY DEF NodesAreTyped
<1>3. \A t \in Templates : (a[t] \o b[t]) \o c[t] = a[t] \o (b[t] \o c[t])
  <2>1. ASSUME NEW x \in Seq(Nodes), NEW y \in Seq(Nodes), NEW z \in Seq(Nodes)
        PROVE  (x \o y) \o z = x \o (y \o z)
    OBVIOUS
  <2> QED BY <1>1, <2>1
<1>4. Joined(Joined(a, b), c) = [t \in Templates |-> (a[t] \o b[t]) \o c[t]]
  BY <1>2 DEF Joined
<1>5. Joined(a, Joined(b, c)) = [t \in Templates |-> a[t] \o (b[t] \o c[t])]
  BY <1>2 DEF Joined
<1> QED BY <1>3, <1>4, <1>5

(* The nodes in lists are nodes of the templates they are listed for.      *)
LEMMA NodesAre ==
  ASSUME NEW nodes, NodesAreTyped(nodes)
  PROVE  AllOf(nodes) \subseteq Nodes
<1>1. \A t \in Templates : ToSet(nodes[t]) \subseteq Nodes
  <2> SUFFICES ASSUME NEW t \in Templates PROVE ToSet(nodes[t]) \subseteq Nodes
    OBVIOUS
  <2>1. nodes[t] \in Seq(Nodes)
    BY DEF NodesAreTyped
  <2>2. \A i \in DOMAIN nodes[t] : nodes[t][i] \in Nodes
    BY <2>1
  <2> QED BY <2>2 DEF ToSet
<1> QED BY <1>1 DEF AllOf, NodesAreTyped

(* The capabilities of nodes: each is of a node, by a name of its          *)
(* template, and its upper bound is a number or none.                      *)
LEMMA SlotsAre ==
  ASSUME TypeOK, templates # None, NEW nodes, nodes \subseteq Nodes
  PROVE  /\ \A n \in nodes : \A name \in DOMAIN templates[n.template].capabilities :
               [node |-> n, name |-> name] \in Slots(nodes)
         /\ \A slot \in Slots(nodes) :
               /\ slot.node \in nodes
               /\ slot.name \in DOMAIN templates[slot.node.template].capabilities
               /\ slot = [node |-> slot.node, name |-> slot.name]
               /\ SlotTemplate(slot).max \in {None} \cup Nat
<1>1. \A n \in nodes : n.template \in Templates
  BY DEF Nodes
<1>2. \A n \in nodes : \A name \in DOMAIN templates[n.template].capabilities :
         [node |-> n, name |-> name] \in Slots(nodes)
  BY DEF Slots
<1>3. \A slot \in Slots(nodes) :
         \E n \in nodes : \E name \in DOMAIN templates[n.template].capabilities :
            slot = [node |-> n, name |-> name]
  BY DEF Slots
<1> QED BY <1>1, <1>2, <1>3, TemplatesAre DEF SlotTemplate

(* The targets of a requirement are templates with a capability.           *)
LEMMA TargetsAre ==
  ASSUME NEW source, NEW r, NEW target \in FindTarget(source, r)
  PROVE  /\ target.template \in DOMAIN templates
         /\ target.capability \in DOMAIN templates[target.template].capabilities
BY DEF FindTarget, Targets, Matches

(* A counter that a session sees is a number within its bounds.            *)
LEMMA SeenIsBounded ==
  ASSUME IInv, ~overlapped, NEW s \in Services, IsOpen(s),
         NEW slot \in Slots(AllOf(sessions[s].nodes))
  PROVE  /\ Occurrences(sessions[s], slot) \in Nat
         /\ SlotTemplate(slot).max # None =>
              Occurrences(sessions[s], slot) <= SlotTemplate(slot).max
         /\ SlotTemplate(slot).max \in {None} \cup Nat
<1>1. TypeOK /\ templates # None /\ IsSession(sessions[s]) /\ NodesAreTyped(stored.nodes)
  BY DEF IInv, TypeOK, StagesFit, IsOpen, IsStorage
<1>2. NodesAreTyped(sessions[s].nodes) /\ NodesAreTyped(sessions[s].made)
  BY <1>1 DEF IsSession
<1>3. AllOf(sessions[s].nodes) = AllOf(stored.nodes) \cup AllOf(sessions[s].made)
  BY <1>1, <1>2, JoinedNodes DEF IInv, SessionsCount
<1>4. slot \in Slots(AllOf(stored.nodes)) \/ slot \in Slots(Made(s))
  BY <1>3 DEF Slots, Made
<1>5. slot \in DOMAIN stored.occurrences \/ slot \in DOMAIN sessions[s].occurrences
  BY <1>4 DEF IInv, StoredCount, SessionsCount
<1>6. Bounded(stored.occurrences) /\ Bounded(sessions[s].occurrences)
  BY DEF IInv, StoredCount, SessionsCount
<1>7. SlotTemplate(slot).max \in {None} \cup Nat
  BY <1>1, <1>2, NodesAre, SlotsAre
<1> QED BY <1>5, <1>6, <1>7 DEF Bounded, Occurrences

-----------------------------------------------------------------------------
(* Steps of one session.                                                   *)

(* What the types of nodes, sessions and the storage say depends only on   *)
(* what was read, which never changes.                                     *)
LEMMA TypesStay ==
  ASSUME presentation' = presentation
  PROVE  /\ Nodes' = Nodes /\ Templates' = Templates
         /\ \A nodes : NodesAreTyped(nodes)' <=> NodesAreTyped(nodes)
         /\ \A x : IsSession(x)' <=> IsSession(x)
         /\ \A x : IsStorage(x)' <=> IsStorage(x)
<1>1. Templates' = Templates
  BY DEF Templates
<1>2. Nodes' = Nodes
  BY <1>1 DEF Nodes
<1>3. Names' = Names
  BY <1>1, Zenon DEF Names
<1>4. Ends' = Ends
  BY <1>2, <1>3 DEF Ends
<1>5. ASSUME NEW nodes
      PROVE  NodesAreTyped(nodes)' <=> NodesAreTyped(nodes)
  BY <1>1, <1>2 DEF NodesAreTyped
<1>6. ASSUME NEW x
      PROVE  IsSession(x)' <=> IsSession(x)
  BY <1>2, <1>4, <1>5 DEF IsSession
<1>7. ASSUME NEW x
      PROVE  IsStorage(x)' <=> IsStorage(x)
  BY <1>4, <1>5 DEF IsStorage
<1> QED BY <1>1, <1>2, <1>5, <1>6, <1>7

(* What is said about capabilities depends only on the templates.          *)
LEMMA SlotsStay ==
  ASSUME templates' = templates
  PROVE  /\ \A nodes : Slots(nodes)' = Slots(nodes)
         /\ \A slot : SlotTemplate(slot)' = SlotTemplate(slot)
         /\ \A occurrences : Bounded(occurrences)' <=> Bounded(occurrences)
<1>1. ASSUME NEW nodes
      PROVE  Slots(nodes)' = Slots(nodes)
  <2>1. \A n : DOMAIN templates'[n.template].capabilities = DOMAIN templates[n.template].capabilities
    OBVIOUS
  <2> QED BY ONLY <2>1 DEF Slots
<1>2. ASSUME NEW slot
      PROVE  SlotTemplate(slot)' = SlotTemplate(slot)
  BY DEF SlotTemplate
<1>3. ASSUME NEW occurrences
      PROVE  Bounded(occurrences)' <=> Bounded(occurrences)
  BY <1>2, Zenon DEF Bounded
<1> QED BY <1>1, <1>2, <1>3

(* A creation that is under way has a session, whose lists are typed.      *)
LEMMA UnderWay ==
  ASSUME IInv, NEW s \in Services, stage[s] = "satisfying"
  PROVE  IsOpen(s) /\ IsSession(sessions[s]) /\ templates # None
BY DEF IInv, TypeOK, StagesFit, IsOpen

(* A step that changes relationships and counters of one session, adding   *)
(* no nodes, keeps the invariant if its counters go on counting.           *)
LEMMA SessionStep ==
  ASSUME IInv, NEW s \in Services, stage[s] = "satisfying",
         UNCHANGED <<presentation, templates, stage, stored, overlapped>>,
         NEW x, IsSession(x), sessions' = [sessions EXCEPT ![s] = x],
         x.nodes = sessions[s].nodes, x.made = sessions[s].made,
         \A r \in ToSet(x.relationships) : HasBegun(r.target),
         ~overlapped =>
           /\ Slots(Made(s)) \subseteq DOMAIN x.occurrences
           /\ Bounded(x.occurrences)
           /\ \A slot \in Slots(AllOf(x.nodes)) :
                 Count(stored.relationships \o x.relationships, slot) <= Occurrences(x, slot)
  PROVE  IInv'
<1>0. /\ presentation' = presentation /\ templates' = templates /\ stage' = stage
      /\ stored' = stored /\ overlapped' = overlapped
  OBVIOUS
<1>1. IsOpen(s) /\ x # Closed
  <2>1. x # Closed
    <3>1. DOMAIN x = Fields
      BY DEF IsSession
    <3> QED BY <3>1 DEF Closed, Fields
  <2> QED BY <2>1, UnderWay
<1>2. /\ sessions = [y \in Services |-> sessions[y]]
      /\ sessions'[s] = x /\ \A y \in Services : y # s => sessions'[y] = sessions[y]
      /\ \A y \in Services : IsOpen(y)' <=> IsOpen(y)
  <2>1. sessions = [y \in Services |-> sessions[y]]
    BY DEF IInv, TypeOK
  <2>2. sessions'[s] = x /\ \A y \in Services : y # s => sessions'[y] = sessions[y]
    BY <2>1
  <2> QED BY <1>1, <2>1, <2>2 DEF IsOpen
<1>3. /\ TypeOK /\ StagesFit /\ OneIsOpen /\ NodesHaveBegun /\ StoredCount /\ SessionsCount
  BY DEF IInv
<1>4. TypeOK'
  <2>1. \A y \in Services : sessions'[y] # Closed => IsSession(sessions'[y])
    BY <1>2, <1>3 DEF TypeOK
  <2>2. sessions' = [y \in Services |-> sessions'[y]]
    BY <1>2
  <2>3. IsStorage(stored)'
    BY <1>0, <1>3, TypesStay DEF TypeOK
  <2>4. \A y \in Services : sessions'[y] # Closed => IsSession(sessions[y])'
    BY <1>0, <2>1, TypesStay
  <2> QED BY <1>0, <1>3, <2>2, <2>3, <2>4 DEF TypeOK
<1>5. StagesFit'
  BY <1>2, <1>3 DEF StagesFit
<1>6. OneIsOpen'
  BY <1>2, <1>3 DEF OneIsOpen
<1>7. NodesHaveBegun'
  <2>1. \A y \in Services : IsOpen(y) =>
          /\ \A n \in AllOf(sessions'[y].nodes) \cup AllOf(sessions'[y].made) : HasBegun(n)
          /\ \A r \in ToSet(sessions'[y].relationships) : HasBegun(r.target)
    BY <1>1, <1>2, <1>3 DEF NodesHaveBegun
  <2> QED BY <1>2, <1>3, <2>1 DEF NodesHaveBegun, HasBegun
<1>8. StoredCount'
  BY <1>0, <1>3, SlotsStay DEF StoredCount
<1>9. SessionsCount'
  <2> SUFFICES ASSUME ~overlapped, NEW y \in Services, IsOpen(y)
               PROVE  /\ sessions'[y].nodes = Joined(stored.nodes, sessions'[y].made)
                      /\ Slots(AllOf(sessions'[y].made)) \subseteq DOMAIN sessions'[y].occurrences
                      /\ Bounded(sessions'[y].occurrences)
                      /\ \A slot \in Slots(AllOf(sessions'[y].nodes)) :
                            Count(stored.relationships \o sessions'[y].relationships, slot)
                              <= Occurrences(sessions'[y], slot)
    BY <1>0, <1>2, SlotsStay DEF SessionsCount, Occurrences, Made, Relationships
  <2>1. y = s
    BY <1>1, <1>3 DEF OneIsOpen
  <2>2. sessions[s].nodes = Joined(stored.nodes, sessions[s].made)
    BY <1>1, <1>3 DEF SessionsCount
  <2> QED BY <1>2, <2>1, <2>2 DEF Made
<1> QED BY <1>4, <1>5, <1>6, <1>7, <1>8, <1>9 DEF IInv

(* What a session without another beside it counts, field by field.        *)
LEMMA SessionAlone ==
  ASSUME IInv, NEW s \in Services, IsOpen(s)
  PROVE  /\ \A r \in ToSet(sessions[s].relationships) : HasBegun(r.target)
         /\ ~overlapped =>
              /\ Slots(Made(s)) \subseteq DOMAIN sessions[s].occurrences
              /\ Bounded(sessions[s].occurrences)
              /\ \A slot \in Slots(AllOf(sessions[s].nodes)) :
                    Count(stored.relationships \o sessions[s].relationships, slot)
                      <= Occurrences(sessions[s], slot)
BY DEF IInv, NodesHaveBegun, SessionsCount, Relationships

(* Changing fields of a session leaves the others as they were.            *)
LEMMA Updated ==
  ASSUME NEW x, x = [field \in Fields |-> x[field]], NEW v, NEW f \in Fields
  PROVE  LET y == [x EXCEPT ![f] = v]
         IN  /\ y = [field \in Fields |-> y[field]]
             /\ y[f] = v
             /\ \A field \in Fields : field # f => y[field] = x[field]
OBVIOUS

(* Turning to the next node.                                               *)
LEMMA NextNodeIs ==
  ASSUME IInv, NEW s \in Services, NEW node, NextNode(s, node)
  PROVE  /\ stage[s] = "satisfying"
         /\ UNCHANGED <<presentation, templates, stage, stored, overlapped>>
         /\ \E x : /\ IsSession(x) /\ sessions' = [sessions EXCEPT ![s] = x]
                   /\ x.todo = sessions[s].todo \ {node} /\ x.at = <<node, 1>>
                   /\ \A field \in Fields \ {"todo", "at"} : x[field] = sessions[s][field]
<1> DEFINE old == sessions[s]
           x == [old EXCEPT !.todo = @ \ {node}, !.at = <<node, 1>>]
<1>1. stage[s] = "satisfying" /\ IsOpen(s) /\ IsSession(old)
  BY UnderWay DEF NextNode
<1>2. node \in Nodes
  BY <1>1 DEF NextNode, IsSession
<1>3. x = [field \in Fields |-> CASE field = "todo" -> old.todo \ {node}
                                [] field = "at" -> <<node, 1>>
                                [] OTHER -> old[field]]
  BY <1>1 DEF IsSession, Fields
<1>4. sessions' = [sessions EXCEPT ![s] = x]
  BY DEF NextNode
<1>5. UNCHANGED <<presentation, templates, stage, stored, overlapped>>
  BY DEF NextNode
<1> HIDE DEF x
<1>6. /\ x = [field \in Fields |-> x[field]]
      /\ x.todo = old.todo \ {node} /\ x.at = <<node, 1>>
      /\ \A field \in Fields \ {"todo", "at"} : x[field] = old[field]
  BY <1>3 DEF Fields
<1>7. IsSession(x)
  <2>1. x.todo \subseteq Nodes
    BY <1>1, <1>6 DEF IsSession
  <2>2. x.at \in Nodes \X Nat
    BY <1>2, <1>6
  <2>3. x.nodes = old.nodes /\ x.made = old.made /\ x.relationships = old.relationships
    BY <1>6 DEF Fields
  <2> QED BY <1>1, <1>6, <2>1, <2>2, <2>3 DEF IsSession
<1> QED BY <1>1, <1>4, <1>5, <1>6, <1>7

(* It changes no counter.                                                  *)
LEMMA NextNodeKeeps ==
  ASSUME IInv, NEW s \in Services, NEW node, NextNode(s, node)
  PROVE  IInv'
<1>1. stage[s] = "satisfying" /\ UNCHANGED <<presentation, templates, stage, stored, overlapped>>
  BY NextNodeIs
<1>2. PICK x : /\ IsSession(x) /\ sessions' = [sessions EXCEPT ![s] = x]
               /\ \A field \in Fields \ {"todo", "at"} : x[field] = sessions[s][field]
  BY NextNodeIs
<1>3. /\ x.nodes = sessions[s].nodes /\ x.made = sessions[s].made
      /\ x.relationships = sessions[s].relationships /\ x.occurrences = sessions[s].occurrences
  BY <1>2 DEF Fields
<1>4. \A slot : Occurrences(x, slot) = Occurrences(sessions[s], slot)
  BY <1>3 DEF Occurrences
<1> QED BY <1>1, <1>2, <1>3, <1>4, UnderWay, SessionAlone, SessionStep

(* Going on to the next requirement of the node, or to no node.            *)
LEMMA AfterIs ==
  ASSUME NEW at \in Nodes \X Nat
  PROVE  After(at) \in {None} \cup (Nodes \X Nat)
<1>1. at[1] \in Nodes /\ at[2] + 1 \in Nat
  OBVIOUS
<1> QED BY <1>1 DEF After

(* A requirement that is not satisfied may leave counters in the session,  *)
(* as they were read.                                                      *)
LEMMA UnsatisfiedIs ==
  ASSUME IInv, NEW s \in Services, Unsatisfied(s)
  PROVE  /\ stage[s] = "satisfying" /\ sessions[s].at # None
         /\ UNCHANGED <<presentation, templates, stage, stored, overlapped>>
         /\ \E x : /\ IsSession(x) /\ sessions' = [sessions EXCEPT ![s] = x]
                   /\ x.issues = TRUE /\ x.at = After(sessions[s].at)
                   /\ \A field \in Fields \ {"issues", "satisfied", "at", "occurrences"} :
                         x[field] = sessions[s][field]
                   /\ DOMAIN sessions[s].occurrences \subseteq DOMAIN x.occurrences
                   /\ DOMAIN x.occurrences \subseteq
                        DOMAIN sessions[s].occurrences \cup Slots(AllOf(sessions[s].nodes))
                   /\ \A slot \in DOMAIN x.occurrences :
                         x.occurrences[slot] = Occurrences(sessions[s], slot)
<1> DEFINE old == sessions[s]
           y == [old EXCEPT !.issues = TRUE]
           z == [y EXCEPT !.satisfied = FALSE]
           w == [z EXCEPT !.at = After(@)]
           same == Fields \ {"issues", "satisfied", "at", "occurrences"}
<1>1. stage[s] = "satisfying" /\ IsOpen(s) /\ IsSession(old) /\ templates # None /\ old.at # None
  BY UnderWay DEF Unsatisfied, HasRequirement
<1>2. UNCHANGED <<presentation, templates, stage, stored, overlapped>>
  BY DEF Unsatisfied
<1>3. After(old.at) \in {None} \cup (Nodes \X Nat)
  <2>1. old.at \in Nodes \X Nat
    BY <1>1 DEF IsSession
  <2> QED BY <2>1, AfterIs
<1>4. /\ w = [field \in Fields |-> w[field]]
      /\ w.at = After(old.at) /\ w.issues = TRUE /\ w.occurrences = old.occurrences
      /\ \A field \in same : w[field] = old[field]
  <2>1. /\ y = [field \in Fields |-> y[field]] /\ y.issues = TRUE
        /\ \A field \in Fields \ {"issues"} : y[field] = old[field]
    BY <1>1, Updated DEF IsSession, Fields
  <2> HIDE DEF y
  <2>2. /\ z = [field \in Fields |-> z[field]]
        /\ \A field \in Fields \ {"satisfied"} : z[field] = y[field]
    BY <2>1, Updated DEF Fields
  <2> HIDE DEF z
  <2>3. /\ w = [field \in Fields |-> w[field]]
        /\ w.at = After(z.at)
        /\ \A field \in Fields \ {"at"} : w[field] = z[field]
    BY <2>2, Updated DEF Fields
  <2> HIDE DEF w
  <2> QED BY <2>1, <2>2, <2>3 DEF Fields
<1>5. ASSUME NEW x, x = [field \in Fields |-> x[field]], x.at = After(old.at),
             \A field \in same : x[field] = old[field]
      PROVE  IsSession(x)
  <2>1. x.nodes = old.nodes /\ x.made = old.made /\ x.relationships = old.relationships
        /\ x.todo = old.todo
    BY <1>5 DEF Fields
  <2> QED BY <1>1, <1>3, <1>5, <2>1 DEF IsSession
<1>6. CASE sessions' = [sessions EXCEPT ![s].issues = TRUE, ![s].satisfied = FALSE,
                                        ![s].at = After(@)]
  <2>1. sessions' = [sessions EXCEPT ![s] = w]
    BY <1>6
  <2> HIDE DEF w
  <2>2. \A slot \in DOMAIN w.occurrences : w.occurrences[slot] = Occurrences(old, slot)
    BY <1>4 DEF Occurrences
  <2>3. IsSession(w)
    BY <1>4, <1>5
  <2> QED BY <1>1, <1>2, <1>4, <2>1, <2>2, <2>3
<1>7. ASSUME NEW target \in FindTarget(old.at[1].template, Requirement(old.at)),
             NEW seen,
             seen = {[node |-> n, name |-> target.capability] :
                        n \in ToSet(old.nodes[target.template])},
             sessions' =
               [sessions EXCEPT
                  ![s].issues = TRUE, ![s].satisfied = FALSE, ![s].at = After(@),
                  ![s].occurrences = Over(@, [slot \in seen |-> Occurrences(old, slot)])]
      PROVE  \E x : /\ IsSession(x) /\ sessions' = [sessions EXCEPT ![s] = x]
                    /\ x.issues = TRUE /\ x.at = After(old.at)
                    /\ \A field \in same : x[field] = old[field]
                    /\ DOMAIN old.occurrences \subseteq DOMAIN x.occurrences
                    /\ DOMAIN x.occurrences \subseteq
                         DOMAIN old.occurrences \cup Slots(AllOf(old.nodes))
                    /\ \A slot \in DOMAIN x.occurrences :
                          x.occurrences[slot] = Occurrences(old, slot)
  <2> DEFINE more == Over(old.occurrences, [slot \in seen |-> Occurrences(old, slot)])
             x == [w EXCEPT !.occurrences = Over(@, [slot \in seen |-> Occurrences(old, slot)])]
  <2>1. sessions' = [sessions EXCEPT ![s] = x]
    BY <1>7
  <2>2. /\ x = [field \in Fields |-> x[field]]
        /\ x.at = After(old.at) /\ x.issues = TRUE /\ x.occurrences = more
        /\ \A field \in same : x[field] = old[field]
    <3> HIDE DEF w
    <3>1. /\ x = [field \in Fields |-> x[field]]
          /\ x.occurrences = Over(w.occurrences, [slot \in seen |-> Occurrences(old, slot)])
          /\ \A field \in Fields \ {"occurrences"} : x[field] = w[field]
      BY <1>4, Updated DEF Fields
    <3> HIDE DEF x
    <3> QED BY <1>4, <3>1 DEF Fields
  <2> HIDE DEF x, w, same
  <2>3. IsSession(x)
    BY <1>5, <2>2
  <2>4. DOMAIN more = DOMAIN old.occurrences \cup seen
        /\ \A slot \in DOMAIN more : more[slot] = Occurrences(old, slot)
    BY DEF Over, Occurrences
  <2>5. seen \subseteq Slots(AllOf(old.nodes))
    <3>1. target.template \in Templates
          /\ target.capability \in DOMAIN templates[target.template].capabilities
      BY <1>1, TargetsAre, TemplatesAre DEF IInv
    <3>2. NodesAreTyped(old.nodes)
      BY <1>1 DEF IsSession
    <3>3. \A n \in ToSet(old.nodes[target.template]) :
             n.template = target.template /\ n \in AllOf(old.nodes)
      BY <3>1, <3>2 DEF NodesAreTyped, AllOf
    <3>4. AllOf(old.nodes) \subseteq Nodes
      BY <3>2, NodesAre
    <3> QED BY <1>1, <1>7, <3>1, <3>3, <3>4, SlotsAre DEF IInv
  <2> HIDE DEF more, old
  <2> QED BY <2>1, <2>2, <2>3, <2>4, <2>5
<1>8. \E x : /\ IsSession(x) /\ sessions' = [sessions EXCEPT ![s] = x]
             /\ x.issues = TRUE /\ x.at = After(old.at)
             /\ \A field \in same : x[field] = old[field]
             /\ DOMAIN old.occurrences \subseteq DOMAIN x.occurrences
             /\ DOMAIN x.occurrences \subseteq DOMAIN old.occurrences \cup Slots(AllOf(old.nodes))
             /\ \A slot \in DOMAIN x.occurrences : x.occurrences[slot] = Occurrences(old, slot)
  BY <1>6, <1>7 DEF Unsatisfied
<1> QED BY <1>1, <1>2, <1>8

(* The counters go on counting.                                            *)
LEMMA UnsatisfiedKeeps ==
  ASSUME IInv, NEW s \in Services, Unsatisfied(s)
  PROVE  IInv'
<1> DEFINE old == sessions[s]
<1>1. stage[s] = "satisfying" /\ UNCHANGED <<presentation, templates, stage, stored, overlapped>>
  BY UnsatisfiedIs
<1>2. PICK x : /\ IsSession(x) /\ sessions' = [sessions EXCEPT ![s] = x]
               /\ x.issues = TRUE /\ x.at = After(old.at)
               /\ \A field \in Fields \ {"issues", "satisfied", "at", "occurrences"} :
                     x[field] = old[field]
               /\ DOMAIN old.occurrences \subseteq DOMAIN x.occurrences
               /\ DOMAIN x.occurrences \subseteq
                    DOMAIN old.occurrences \cup Slots(AllOf(old.nodes))
               /\ \A slot \in DOMAIN x.occurrences : x.occurrences[slot] = Occurrences(old, slot)
  BY UnsatisfiedIs, Zenon
<1>3. x.nodes = old.nodes /\ x.made = old.made /\ x.relationships = old.relationships
  BY <1>2 DEF Fields
<1>4. \A slot : Occurrences(x, slot) = Occurrences(old, slot)
  BY <1>2 DEF Occurrences
<1>5. ASSUME ~overlapped, NEW slot \in DOMAIN x.occurrences
      PROVE  /\ x.occurrences[slot] \in Nat
             /\ SlotTemplate(slot).max # None => x.occurrences[slot] <= SlotTemplate(slot).max
  <2>1. CASE slot \in DOMAIN old.occurrences
    BY <1>1, <1>2, <1>5, <2>1, UnderWay, SessionAlone DEF Bounded, Occurrences
  <2>2. CASE slot \in Slots(AllOf(old.nodes))
    BY <1>1, <1>2, <1>5, <2>2, UnderWay, SeenIsBounded
  <2> QED BY <1>2, <1>5, <2>1, <2>2
<1>6. ~overlapped => Bounded(x.occurrences)
  BY <1>5 DEF Bounded
<1> QED BY <1>1, <1>2, <1>3, <1>4, <1>6, UnderWay, SessionAlone, SessionStep

(* A relationship is added where there is capacity, and counted.           *)
Satisfied(old, x, slot, added) ==
  /\ x.at = After(old.at) /\ x.satisfied = TRUE
  /\ \A field \in Fields \ {"relationships", "occurrences", "satisfied", "at"} :
        x[field] = old[field]
  /\ slot \in Slots(AllOf(old.nodes)) /\ HasCapacity(old, slot)
  /\ added \in Ends /\ x.relationships = Append(old.relationships, added)
  /\ added.source = old.at[1] /\ added.requirement = old.at[2]
  /\ added.target = slot.node /\ added.capability = slot.name
  /\ DOMAIN old.occurrences \subseteq DOMAIN x.occurrences
  /\ DOMAIN x.occurrences \subseteq DOMAIN old.occurrences \cup Slots(AllOf(old.nodes))
  /\ slot \in DOMAIN x.occurrences
  /\ \A other \in DOMAIN x.occurrences :
        x.occurrences[other] = IF other = slot THEN Occurrences(old, slot) + 1
                               ELSE Occurrences(old, other)

(* What satisfying a requirement makes of a session.                       *)
LEMMA SatisfyIs ==
  ASSUME IInv, NEW s \in Services, Satisfy(s)
  PROVE  /\ stage[s] = "satisfying" /\ sessions[s].at # None
         /\ UNCHANGED <<presentation, templates, stage, stored, overlapped>>
         /\ \E x, slot, added : IsSession(x) /\ sessions' = [sessions EXCEPT ![s] = x]
                               /\ Satisfied(sessions[s], x, slot, added)
<1> DEFINE old == sessions[s]
<1>1. stage[s] = "satisfying" /\ IsOpen(s) /\ IsSession(old) /\ templates # None /\ TypeOK
      /\ old.at # None
  BY UnderWay DEF Satisfy, HasRequirement, IInv
<1>2. UNCHANGED <<presentation, templates, stage, stored, overlapped>>
  BY DEF Satisfy
<1>3. old.at \in Nodes \X Nat /\ After(old.at) \in {None} \cup (Nodes \X Nat)
  <2>1. old.at \in Nodes \X Nat
    BY <1>1 DEF IsSession
  <2> QED BY <2>1, AfterIs
<1>4. PICK target \in FindTarget(old.at[1].template, Requirement(old.at)) :
        \E i \in DOMAIN old.nodes[target.template] :
           LET slot(j) == [node |-> old.nodes[target.template][j], name |-> target.capability]
           IN /\ HasCapacity(old, slot(i))
              /\ \A j \in 1 .. i - 1 : ~HasCapacity(old, slot(j))
              /\ sessions' =
                   [sessions EXCEPT
                      ![s].relationships =
                         Append(@, [source |-> old.at[1], requirement |-> old.at[2],
                                    target |-> old.nodes[target.template][i],
                                    capability |-> target.capability]),
                      ![s].occurrences =
                         Over([x \in {slot(i)} |-> Occurrences(old, x) + 1],
                              Over(@, [x \in {slot(j) : j \in 1 .. i - 1} |->
                                         Occurrences(old, x)])),
                      ![s].satisfied = TRUE,
                      ![s].at = After(@)]
  BY Zenon DEF Satisfy
<1> DEFINE nodes == old.nodes[target.template]
           slot(j) == [node |-> nodes[j], name |-> target.capability]
           one(i) == [source |-> old.at[1], requirement |-> old.at[2],
                      target |-> nodes[i], capability |-> target.capability]
           count(i, o) == Over([x \in {slot(i)} |-> Occurrences(old, x) + 1],
                               Over(o, [x \in {slot(j) : j \in 1 .. i - 1} |->
                                          Occurrences(old, x)]))
<1>5. PICK i \in DOMAIN nodes :
        /\ HasCapacity(old, slot(i))
        /\ sessions' = [sessions EXCEPT ![s].relationships = Append(@, one(i)),
                                        ![s].occurrences = count(i, @),
                                        ![s].satisfied = TRUE,
                                        ![s].at = After(@)]
  BY <1>4, Zenon
<1> DEFINE added == one(i)
           counted == count(i, old.occurrences)
           y == [old EXCEPT !.relationships = Append(@, added)]
           z == [y EXCEPT !.occurrences = counted]
           w == [z EXCEPT !.satisfied = TRUE]
           x == [w EXCEPT !.at = After(@)]
<1>6. sessions' = [sessions EXCEPT ![s] = x]
  <2>1. sessions' = [sessions EXCEPT ![s].relationships = Append(@, added),
                                     ![s].occurrences = count(i, @),
                                     ![s].satisfied = TRUE,
                                     ![s].at = After(@)]
    BY <1>5
  <2>2. s \in DOMAIN sessions
    BY <1>1 DEF TypeOK
  <2> HIDE DEF added, count
  <2> QED BY ONLY <2>1, <2>2
<1> HIDE DEF nodes, added, counted, y, z, w, x
<1>7. /\ target.template \in Templates
      /\ target.capability \in DOMAIN templates[target.template].capabilities
      /\ target.capability \in Names
  BY <1>1, TargetsAre, TemplatesAre DEF Names
<1>8. NodesAreTyped(old.nodes) /\ nodes \in Seq(Nodes) /\ AllOf(old.nodes) \subseteq Nodes
  <2>1. NodesAreTyped(old.nodes)
    BY <1>1 DEF IsSession
  <2> QED BY <1>7, <2>1, NodesAre DEF NodesAreTyped, nodes
<1>9. \A j \in DOMAIN nodes :
         /\ nodes[j] \in AllOf(old.nodes) /\ nodes[j].template = target.template
         /\ slot(j) \in Slots(AllOf(old.nodes))
  <2>1. \A j \in DOMAIN nodes :
           nodes[j] \in AllOf(old.nodes) /\ nodes[j].template = target.template
    <3>1. \A j \in DOMAIN nodes : nodes[j] \in ToSet(old.nodes[target.template])
      BY DEF ToSet, nodes
    <3> QED BY <1>7, <1>8, <3>1 DEF NodesAreTyped, AllOf
  <2> QED BY <1>1, <1>7, <1>8, <2>1, SlotsAre
<1>10. added \in Ends
  <2>1. nodes[i] \in Nodes
    BY <1>8, <1>9
  <2> QED BY <1>3, <1>7, <2>1 DEF Ends, added
<1>11. old.relationships \in Seq(Ends) /\ Append(old.relationships, added) \in Seq(Ends)
  BY <1>1, <1>10 DEF IsSession
<1>12. /\ x = [field \in Fields |-> x[field]]
       /\ x.at = After(old.at) /\ x.occurrences = counted /\ x.satisfied = TRUE
       /\ x.relationships = Append(old.relationships, added)
       /\ \A field \in Fields \ {"relationships", "occurrences", "satisfied", "at"} :
             x[field] = old[field]
       /\ x.nodes = old.nodes /\ x.made = old.made /\ x.todo = old.todo
  <2> USE DEF y, z, w, x
  <2>1. /\ y = [field \in Fields |-> y[field]]
        /\ y.relationships = Append(old.relationships, added)
        /\ \A field \in Fields \ {"relationships"} : y[field] = old[field]
    BY <1>1, Updated DEF IsSession, Fields
  <2> HIDE DEF y
  <2>2. /\ z = [field \in Fields |-> z[field]]
        /\ z.occurrences = counted
        /\ \A field \in Fields \ {"occurrences"} : z[field] = y[field]
    BY <2>1, Updated DEF Fields
  <2> HIDE DEF z
  <2>3. /\ w = [field \in Fields |-> w[field]] /\ w.satisfied = TRUE
        /\ \A field \in Fields \ {"satisfied"} : w[field] = z[field]
    BY <2>2, Updated DEF Fields
  <2> HIDE DEF w
  <2>4. /\ x = [field \in Fields |-> x[field]]
        /\ x.at = After(w.at)
        /\ \A field \in Fields \ {"at"} : x[field] = w[field]
    BY <2>3, Updated DEF Fields
  <2> HIDE DEF x
  <2>5. \A field \in Fields \ {"relationships", "occurrences", "satisfied", "at"} :
           x[field] = old[field]
    BY <2>1, <2>2, <2>3, <2>4
  <2>6. x.nodes = old.nodes /\ x.made = old.made /\ x.todo = old.todo
    BY <2>5 DEF Fields
  <2>7. x.at = After(old.at) /\ x.satisfied = TRUE
    <3>1. w.at = z.at /\ z.at = y.at /\ y.at = old.at /\ x.satisfied = w.satisfied
      BY <2>1, <2>2, <2>3, <2>4 DEF Fields
    <3> QED BY <2>3, <2>4, <3>1
  <2>8. x.occurrences = counted /\ x.relationships = Append(old.relationships, added)
    <3>1. /\ x.occurrences = w.occurrences /\ w.occurrences = z.occurrences
          /\ x.relationships = w.relationships /\ w.relationships = z.relationships
          /\ z.relationships = y.relationships
      BY <2>2, <2>3, <2>4 DEF Fields
    <3> QED BY <2>1, <2>2, <3>1
  <2> QED BY <2>4, <2>5, <2>6, <2>7, <2>8
<1>13. IsSession(x)
  <2>1. NodesAreTyped(x.nodes) /\ NodesAreTyped(x.made) /\ x.todo \subseteq Nodes
    BY <1>1, <1>12 DEF IsSession
  <2>2. x.relationships \in Seq(Ends) /\ x.at \in {None} \cup (Nodes \X Nat)
    BY <1>3, <1>11, <1>12
  <2>3. x = [field \in Fields |-> x[field]]
    BY <1>12
  <2> QED BY ONLY <2>1, <2>2, <2>3 DEF IsSession
<1>14. /\ DOMAIN old.occurrences \subseteq DOMAIN counted
       /\ DOMAIN counted \subseteq DOMAIN old.occurrences \cup Slots(AllOf(old.nodes))
       /\ slot(i) \in DOMAIN counted /\ counted[slot(i)] = Occurrences(old, slot(i)) + 1
       /\ \A other \in DOMAIN counted : other # slot(i) =>
             counted[other] = Occurrences(old, other)
  <2>1. \A j \in 1 .. i - 1 : slot(j) \in Slots(AllOf(old.nodes))
    <3>1. \A j \in 1 .. i - 1 : j \in DOMAIN nodes
      BY <1>8
    <3> QED BY <1>9, <3>1
  <2> QED BY <1>5, <1>9, <2>1 DEF Over, Occurrences, counted
<1>15. /\ added.source = old.at[1] /\ added.requirement = old.at[2]
       /\ added.target = slot(i).node /\ added.capability = slot(i).name
  BY DEF added
<1>16. slot(i) \in Slots(AllOf(old.nodes)) /\ HasCapacity(old, slot(i))
  BY <1>5, <1>9
<1> HIDE DEF old, slot
<1>17. \A other \in DOMAIN x.occurrences :
          x.occurrences[other] = IF other = slot(i) THEN Occurrences(old, slot(i)) + 1
                                 ELSE Occurrences(old, other)
  BY <1>12, <1>14
<1>18. Satisfied(old, x, slot(i), added)
  BY <1>10, <1>12, <1>14, <1>15, <1>16, <1>17 DEF Satisfied
<1> QED BY <1>1, <1>2, <1>6, <1>13, <1>18 DEF old

(* The counters go on counting, within their bounds.                       *)
LEMMA SatisfyKeeps ==
  ASSUME IInv, NEW s \in Services, Satisfy(s)
  PROVE  IInv'
<1> DEFINE old == sessions[s]
<1>1. /\ stage[s] = "satisfying" /\ IsOpen(s) /\ IsSession(old) /\ templates # None /\ TypeOK
      /\ UNCHANGED <<presentation, templates, stage, stored, overlapped>>
  BY SatisfyIs, UnderWay DEF IInv
<1>2. PICK x, slot, added : /\ IsSession(x) /\ sessions' = [sessions EXCEPT ![s] = x]
                            /\ Satisfied(old, x, slot, added)
  BY SatisfyIs
<1> HIDE DEF old
<1> USE DEF Satisfied
<1>3. x.nodes = old.nodes /\ x.made = old.made
  BY <1>2 DEF Fields
<1>4. old.relationships \in Seq(Ends) /\ AllOf(old.nodes) \subseteq Nodes
  BY <1>1, NodesAre DEF IsSession
<1>5. \A r \in ToSet(x.relationships) : HasBegun(r.target)
  <2>1. \A r \in ToSet(Append(old.relationships, added)) :
           r \in ToSet(old.relationships) \/ r = added
    BY <1>2, <1>4 DEF ToSet
  <2>2. slot.node \in AllOf(old.nodes)
    BY <1>1, <1>2, <1>4, SlotsAre
  <2>3. HasBegun(added.target)
    BY <1>1, <1>2, <2>2 DEF IInv, NodesHaveBegun, old
  <2> QED BY <1>1, <1>2, <2>1, <2>3, SessionAlone DEF old
<1>6. ASSUME ~overlapped
      PROVE  Bounded(x.occurrences)
  <2> SUFFICES ASSUME NEW other \in DOMAIN x.occurrences
               PROVE  /\ x.occurrences[other] \in Nat
                      /\ SlotTemplate(other).max # None =>
                           x.occurrences[other] <= SlotTemplate(other).max
    BY DEF Bounded
  <2>1. CASE other = slot
    <3>1. /\ Occurrences(old, slot) \in Nat
          /\ SlotTemplate(slot).max # None => Occurrences(old, slot) <= SlotTemplate(slot).max
          /\ SlotTemplate(slot).max \in {None} \cup Nat
      BY <1>1, <1>2, <1>6, SeenIsBounded DEF old
    <3>2. SlotTemplate(slot).max # None => Occurrences(old, slot) # SlotTemplate(slot).max
      BY <1>2 DEF HasCapacity
    <3>3. x.occurrences[other] = Occurrences(old, slot) + 1
      BY <1>2, <2>1
    <3> QED BY <2>1, <3>1, <3>2, <3>3
  <2>2. CASE other # slot /\ other \in DOMAIN old.occurrences
    BY <1>1, <1>2, <1>6, <2>2, SessionAlone DEF Bounded, Occurrences, old
  <2>3. CASE other # slot /\ other \in Slots(AllOf(old.nodes))
    BY <1>1, <1>2, <1>6, <2>3, SeenIsBounded DEF old
  <2> QED BY <1>2, <2>1, <2>2, <2>3
<1>7. ASSUME ~overlapped, NEW other \in Slots(AllOf(old.nodes))
      PROVE  Count(stored.relationships \o x.relationships, other) <= Occurrences(x, other)
  <2> DEFINE all == stored.relationships \o old.relationships
  <2>1. stored.relationships \in Seq(Ends)
    BY <1>1 DEF TypeOK, IsStorage
  <2>2. all \in Seq(Ends)
        /\ stored.relationships \o Append(old.relationships, added) = Append(all, added)
    <3>1. ASSUME NEW a \in Seq(Ends), NEW b \in Seq(Ends), NEW c \in Ends
          PROVE  a \o b \in Seq(Ends) /\ a \o Append(b, c) = Append(a \o b, c)
      OBVIOUS
    <3> QED BY <1>2, <1>4, <2>1, <3>1
  <2>3. Count(all, other) <= Occurrences(old, other) /\ Count(all, other) \in Nat
    BY <1>1, <1>7, <2>2, SessionAlone, CountIsANumber DEF old
  <2>4. Occurrences(old, other) \in Nat
    BY <1>1, <1>7, SeenIsBounded DEF old
  <2> HIDE DEF all
  <2>5. Count(Append(all, added), other) \in Nat
    <3>1. Append(all, added) \in Seq(Ends)
      BY <1>2, <2>2
    <3> QED BY <3>1, CountIsANumber
  <2>6. CASE other = slot
    <3>1. Occurrences(x, other) = Occurrences(old, other) + 1
      BY <1>2, <2>6 DEF Occurrences
    <3>2. Count(Append(all, added), other) <= Count(all, other) + 1
      BY <1>2, <2>2, OneMore
    <3>3. stored.relationships \o x.relationships = Append(all, added)
      BY <1>2, <2>2
    <3> QED BY <2>3, <2>4, <2>5, <3>1, <3>2, <3>3
  <2>7. CASE other # slot
    <3>1. Occurrences(x, other) = Occurrences(old, other)
      BY <1>2, <2>7 DEF Occurrences
    <3>2. other = [node |-> other.node, name |-> other.name]
          /\ slot = [node |-> slot.node, name |-> slot.name]
      BY <1>1, <1>2, <1>4, <1>7, SlotsAre
    <3>3. added.target # other.node \/ added.capability # other.name
      BY <1>2, <2>7, <3>2
    <3>4. Count(Append(all, added), other) = Count(all, other)
      BY <1>2, <2>2, <3>3, OneMore
    <3> QED BY <1>2, <2>2, <2>3, <3>1, <3>4
  <2> QED BY <2>6, <2>7
<1>8. ~overlapped => Slots(Made(s)) \subseteq DOMAIN x.occurrences
  BY <1>1, <1>2, SessionAlone DEF old
<1> QED BY <1>1, <1>2, <1>3, <1>5, <1>6, <1>7, <1>8, SessionStep DEF old

-----------------------------------------------------------------------------
(* New nodes.                                                              *)

(* The next index of a template's nodes is a number.                       *)
LEMMA IndexIsANumber ==
  ASSUME NEW nodes, NodesAreTyped(nodes), NEW t \in Templates
  PROVE  NextIndex(nodes, t) \in Int
<1> DEFINE list == nodes[t]
           indices == {n.index : n \in ToSet(list)}
           value == [i \in 1 .. Len(list) |-> list[i].index]
<1>1. list \in Seq(Nodes) /\ Len(list) \in Nat /\ DOMAIN list = 1 .. Len(list)
  BY DEF NodesAreTyped
<1>2. \A i \in 1 .. Len(list) : list[i].index \in Int
  <2>1. \A i \in 1 .. Len(list) : list[i] \in Nodes
    BY <1>1
  <2> QED BY <2>1 DEF Nodes
<1> HIDE DEF list
<1>3. \A j \in indices : \E i \in 1 .. Len(list) : j = value[i]
  BY <1>1 DEF ToSet
<1>4. \A i \in 1 .. Len(list) : value[i] \in indices /\ value[i] \in Int
  BY <1>1, <1>2 DEF ToSet
<1>5. CASE indices # {}
  <2>1. Len(list) > 0
    <3>1. PICK j \in indices : TRUE
      BY <1>5
    <3>2. PICK i \in 1 .. Len(list) : j = value[i]
      BY <1>3
    <3> QED BY <1>1, <3>2
  <2> HIDE DEF indices, value
  <2>2. PICK i \in 1 .. Len(list) : \A j \in 1 .. Len(list) : value[i] >= value[j]
    BY <1>1, <1>4, <2>1, LargestNumber
  <2>3. value[i] \in indices /\ \A j \in indices : value[i] >= j
    BY <1>3, <1>4, <2>2
  <2>4. (CHOOSE i2 \in indices : \A j \in indices : i2 >= j) \in indices
    BY <2>3
  <2>5. \A j \in indices : j \in Int
    BY <1>3, <1>4
  <2>6. NextIndex(nodes, t) = 1 + CHOOSE i2 \in indices : \A j \in indices : i2 >= j
    BY <1>5 DEF NextIndex, indices, list
  <2> QED BY <2>4, <2>5, <2>6
<1>6. CASE indices = {}
  BY <1>6 DEF NextIndex, list
<1> QED BY <1>5, <1>6

(* The nodes that are created are of the new service.                      *)
LEMMA NewNodes ==
  ASSUME TypeOK, templates # None, NEW nodes, NodesAreTyped(nodes), NEW s \in Services
  PROVE  /\ NodesAreTyped(AllInstances(nodes, s))
         /\ \A n \in AllOf(AllInstances(nodes, s)) : n.service = s
<1> DEFINE made == AllInstances(nodes, s)
<1>1. DOMAIN nodes = Templates /\ made = [t \in Templates |-> Instances(nodes, t, s)]
  BY DEF NodesAreTyped, AllInstances
<1>2. ASSUME NEW t \in Templates
      PROVE  /\ Instances(nodes, t, s) \in Seq(Nodes)
             /\ \A n \in ToSet(Instances(nodes, t, s)) : n.template = t /\ n.service = s
  <2> DEFINE first == NextIndex(nodes, t)
             many == templates[t].instances[2]
             list == [i \in 1 .. many |->
                        [template |-> t, service |-> s, index |-> first + i - 1]]
  <2>1. Instances(nodes, t, s) = list
    BY DEF Instances
  <2>2. first \in Int /\ many \in Int
    BY IndexIsANumber, TemplatesAre
  <2> HIDE DEF first, many
  <2>3. \A i \in 1 .. many : list[i] \in Nodes /\ list[i].template = t /\ list[i].service = s
    BY <2>2 DEF Nodes
  <2>4. list \in Seq(Nodes)
    <3>1. PICK len \in Nat : 1 .. many = 1 .. len
      <4>1. many \in Nat \/ 1 .. many = 1 .. 0
        BY <2>2
      <4> QED BY <4>1
    <3>2. DOMAIN list = 1 .. len /\ \A i \in 1 .. len : list[i] \in Nodes
      BY <2>3, <3>1
    <3>3. list \in [1 .. len -> Nodes]
      BY <3>1, <3>2
    <3> HIDE DEF list
    <3> QED BY <3>3
  <2>5. ToSet(list) = {list[i] : i \in 1 .. many}
    BY DEF ToSet
  <2> HIDE DEF list
  <2> QED BY <2>1, <2>3, <2>4, <2>5
<1>3. NodesAreTyped(made)
  BY <1>1, <1>2 DEF NodesAreTyped
<1>4. \A n \in AllOf(made) : n.service = s
  BY <1>1, <1>2 DEF AllOf
<1> QED BY <1>3, <1>4

(* A session starts with what is stored and without nodes of its own.      *)
LEMMA StartsNew ==
  LET session == StartFrom(None)
  IN /\ session = [field \in Fields |-> session[field]]
     /\ session.nodes = stored.nodes /\ session.made = NoNodes
     /\ session.relationships = <<>> /\ session.occurrences = [slot \in {} |-> 0]
     /\ session.todo = {} /\ session.at = None /\ session.satisfied = TRUE
     /\ NodesAreTyped(session.made) /\ AllOf(session.made) = {}
<1>1. NodesAreTyped(NoNodes) /\ AllOf(NoNodes) = {}
  <2>1. NoNodes = [t \in Templates |-> <<>>]
    BY DEF NoNodes, Templates
  <2> QED BY <2>1 DEF NodesAreTyped, AllOf, ToSet
<1> HIDE DEF NoNodes
<1> QED BY <1>1 DEF StartFrom, NewSession, Fields

(* Or with all that a rejected creation left.                              *)
LEMMA StartsAgain ==
  ASSUME IInv, NEW from \in Reusable
  PROVE  LET session == StartFrom(from)
         IN /\ from # None /\ IsOpen(from) /\ IsSession(sessions[from])
            /\ session = [field \in Fields |-> session[field]]
            /\ session.satisfied = TRUE
            /\ \A field \in Fields \ {"carried", "satisfied", "issues"} :
                  session[field] = sessions[from][field]
<1> DEFINE old == sessions[from]
           y == [old EXCEPT !.carried = @ \cup {from}]
           z == [y EXCEPT !.satisfied = TRUE]
           session == [z EXCEPT !.issues = FALSE]
<1>1. from \in Services /\ from # None /\ IsOpen(from) /\ IsSession(old)
  BY ServicesAssumption DEF Reusable, IInv, TypeOK, IsOpen
<1>2. StartFrom(from) = session
  BY <1>1, Zenon DEF StartFrom
<1>3. /\ y = [field \in Fields |-> y[field]]
      /\ \A field \in Fields \ {"carried"} : y[field] = old[field]
  BY <1>1, Updated DEF IsSession, Fields
<1> HIDE DEF y
<1>4. /\ z = [field \in Fields |-> z[field]] /\ z.satisfied = TRUE
      /\ \A field \in Fields \ {"satisfied"} : z[field] = y[field]
  BY <1>3, Updated DEF Fields
<1> HIDE DEF z
<1>5. /\ session = [field \in Fields |-> session[field]]
      /\ \A field \in Fields \ {"issues"} : session[field] = z[field]
  BY <1>4, Updated DEF Fields
<1> HIDE DEF session, old
<1>6. session.satisfied = TRUE
  BY <1>4, <1>5 DEF Fields
<1>7. \A field \in Fields \ {"carried", "satisfied", "issues"} : session[field] = old[field]
  BY <1>3, <1>4, <1>5
<1> QED BY <1>1, <1>2, <1>5, <1>6, <1>7 DEF old

(* Its counters count either way.                                          *)
LEMMA StartsWell ==
  ASSUME IInv, NEW from \in {None} \cup Reusable
  PROVE  LET session == StartFrom(from)
         IN /\ IsSession(session)
            /\ \A n \in AllOf(session.nodes) \cup AllOf(session.made) : HasBegun(n)
            /\ \A r \in ToSet(session.relationships) : HasBegun(r.target)
            /\ ~overlapped =>
                 /\ session.nodes = Joined(stored.nodes, session.made)
                 /\ Slots(AllOf(session.made)) \subseteq DOMAIN session.occurrences
                 /\ Bounded(session.occurrences)
                 /\ \A slot \in Slots(AllOf(session.nodes)) :
                       Count(stored.relationships \o session.relationships, slot)
                         <= Occurrences(session, slot)
<1> DEFINE session == StartFrom(from)
<1>1. NodesAreTyped(stored.nodes) /\ stored.relationships \in Seq(Ends)
  BY DEF IInv, TypeOK, IsStorage
<1>2. CASE from = None
  <2>1. /\ session = [field \in Fields |-> session[field]]
        /\ session.nodes = stored.nodes /\ session.made = NoNodes
        /\ session.relationships = <<>> /\ session.occurrences = [slot \in {} |-> 0]
        /\ session.todo = {} /\ session.at = None
        /\ NodesAreTyped(NoNodes) /\ AllOf(NoNodes) = {}
    BY <1>2, StartsNew
  <2> HIDE DEF session
  <2>2. NodesAreTyped(NoNodes) /\ AllOf(NoNodes) = {}
    BY <2>1
  <2>3. Joined(stored.nodes, NoNodes) = stored.nodes
    <3>1. \A t \in Templates : stored.nodes[t] \in Seq(Nodes)
      BY <1>1 DEF NodesAreTyped
    <3>2. \A t \in Templates : stored.nodes[t] \o <<>> = stored.nodes[t]
      BY <3>1
    <3>3. Joined(stored.nodes, NoNodes) = [t \in Templates |-> stored.nodes[t] \o <<>>]
      BY <1>1 DEF Joined, NoNodes, NodesAreTyped, Templates
    <3>4. stored.nodes = [t \in Templates |-> stored.nodes[t]]
      BY <1>1 DEF NodesAreTyped
    <3> QED BY <3>2, <3>3, <3>4
  <2>4. stored.relationships \o <<>> = stored.relationships
    BY <1>1
  <2>5. DOMAIN session.occurrences = {} /\ \A slot : Occurrences(session, slot) = stored.occurrences[slot]
    BY <2>1 DEF Occurrences
  <2>6. Slots(AllOf(session.made)) = {} /\ Bounded(session.occurrences)
    BY <2>1, <2>2, <2>5 DEF Slots, Bounded
  <2>7. IsSession(session)
    <3>1. session.relationships \in Seq(Ends) /\ session.todo \subseteq Nodes
      <4>1. <<>> \in Seq(Ends) /\ {} \subseteq Nodes
        OBVIOUS
      <4> QED BY <2>1, <4>1
    <3>2. NodesAreTyped(session.nodes) /\ NodesAreTyped(session.made)
      BY <1>1, <2>1, <2>2
    <3> QED BY <2>1, <3>1, <3>2 DEF IsSession
  <2>8. \A n \in AllOf(session.nodes) \cup AllOf(session.made) : HasBegun(n)
    BY <2>1, <2>2 DEF IInv, NodesHaveBegun
  <2>9. \A r \in ToSet(session.relationships) : HasBegun(r.target)
    BY <2>1 DEF ToSet
  <2>10. ~overlapped =>
           \A slot \in Slots(AllOf(session.nodes)) :
              Count(stored.relationships \o session.relationships, slot)
                <= Occurrences(session, slot)
    <3>1. session.nodes = stored.nodes /\ session.relationships = <<>>
      BY <2>1
    <3>2. \A slot : /\ Occurrences(session, slot) = stored.occurrences[slot]
                    /\ Count(stored.relationships \o session.relationships, slot) =
                         Count(stored.relationships, slot)
      BY ONLY <2>4, <2>5, <3>1
    <3>3. ~overlapped => \A slot \in Slots(AllOf(stored.nodes)) :
                            Count(stored.relationships, slot) <= stored.occurrences[slot]
      BY DEF IInv, StoredCount
    <3> QED BY ONLY <3>1, <3>2, <3>3
  <2>11. session.nodes = Joined(stored.nodes, session.made)
    BY <2>1, <2>3
  <2> QED BY <2>6, <2>7, <2>8, <2>9, <2>10, <2>11 DEF session
<1>3. CASE from # None
  <2> DEFINE old == sessions[from]
  <2>1. from \in Services /\ IsOpen(from) /\ IsSession(old)
    BY <1>3, StartsAgain DEF Reusable
  <2>2. /\ session = [field \in Fields |-> session[field]]
        /\ \A field \in Fields \ {"carried", "satisfied", "issues"} : session[field] = old[field]
    BY <1>3, StartsAgain
  <2> HIDE DEF session
  <2>3. /\ session = [field \in Fields |-> session[field]]
        /\ session.nodes = old.nodes /\ session.made = old.made
        /\ session.relationships = old.relationships
        /\ session.occurrences = old.occurrences
        /\ session.todo = old.todo /\ session.at = old.at
    BY <2>2 DEF Fields
  <2>4. IsSession(session)
    BY <2>1, <2>3 DEF IsSession
  <2>5. \A slot : Occurrences(session, slot) = Occurrences(old, slot)
    BY <2>3 DEF Occurrences
  <2>6. \A n \in AllOf(session.nodes) \cup AllOf(session.made) : HasBegun(n)
    BY <2>1, <2>3 DEF IInv, NodesHaveBegun
  <2>7. ~overlapped => session.nodes = Joined(stored.nodes, session.made)
    BY <2>1, <2>3 DEF IInv, SessionsCount
  <2> HIDE DEF old
  <2> QED BY <2>1, <2>3, <2>4, <2>5, <2>6, <2>7, SessionAlone DEF session, old, Made
<1> QED BY <1>2, <1>3

(* The nodes that are made are added to what a session starts from.        *)
Extended(session, x, made) ==
  /\ x = [field \in Fields |-> x[field]]
  /\ x.nodes = Joined(session.nodes, made) /\ x.made = Joined(session.made, made)
  /\ x.occurrences = Over(session.occurrences, [slot \in Slots(AllOf(made)) |-> 0])
  /\ x.todo = {n \in AllOf(made) : templates[n.template].requirements # <<>>}
  /\ x.at = session.at /\ x.satisfied = session.satisfied
  /\ x.relationships = session.relationships

(* What creating the nodes of a service makes of the sessions.             *)
LEMMA InstantiateIs ==
  ASSUME IInv, NEW s \in Services, Instantiate(s)
  PROVE  \E from \in {None} \cup Reusable : \E x :
           /\ Extended(StartFrom(from), x, AllInstances(StartFrom(from).nodes, s))
           /\ sessions' = [q \in Services |-> IF q = s THEN x
                                             ELSE IF q = from THEN Closed ELSE sessions[q]]
           /\ overlapped' = (overlapped \/ \E other \in Services \ {from} :
                                              sessions[other] # Closed)
<1>1. TypeOK /\ stage[s] = "none" /\ sessions = [q \in Services |-> sessions[q]]
  BY DEF IInv, TypeOK, Instantiate
<1>2. PICK from \in {None} \cup Reusable, found \in BOOLEAN :
        LET session == StartFrom(from)
            made == AllInstances(session.nodes, s)
        IN /\ sessions' = [sessions EXCEPT
                ![s] = [session EXCEPT
                          !.nodes = Joined(@, made),
                          !.made = Joined(@, made),
                          !.occurrences = Over(@, [slot \in Slots(AllOf(made)) |-> 0]),
                          !.todo = {n \in AllOf(made) : templates[n.template].requirements # <<>>},
                          !.issues = ~found \/ \E t \in DOMAIN templates : ~ScalingIsValid(t)],
                ![IF from = None THEN s ELSE from] = IF from = None THEN @ ELSE Closed]
           /\ overlapped' = (overlapped \/ \E other \in Services \ {from} : sessions[other] # Closed)
  BY DEF Instantiate
<1> DEFINE session == StartFrom(from)
           made == AllInstances(session.nodes, s)
           y == [session EXCEPT !.nodes = Joined(@, made)]
           z == [y EXCEPT !.made = Joined(@, made)]
           w == [z EXCEPT !.occurrences = Over(@, [slot \in Slots(AllOf(made)) |-> 0])]
           v == [w EXCEPT !.todo = {n \in AllOf(made) : templates[n.template].requirements # <<>>}]
           x == [v EXCEPT !.issues = ~found \/ \E t \in DOMAIN templates : ~ScalingIsValid(t)]
<1>3. sessions' = [sessions EXCEPT ![s] = x, ![IF from = None THEN s ELSE from] =
                                                IF from = None THEN @ ELSE Closed]
  BY <1>2, Zenon
<1>4. session = [field \in Fields |-> session[field]]
  BY StartsNew, StartsAgain
<1> HIDE DEF session, made, y, z, w, v, x
<1>5. Extended(session, x, made)
  <2>1. /\ y = [field \in Fields |-> y[field]]
        /\ y.nodes = Joined(session.nodes, made)
        /\ \A field \in Fields \ {"nodes"} : y[field] = session[field]
    BY <1>4, Updated DEF Fields, y
  <2>2. /\ z = [field \in Fields |-> z[field]]
        /\ z.made = Joined(y.made, made)
        /\ \A field \in Fields \ {"made"} : z[field] = y[field]
    BY <2>1, Updated DEF Fields, z
  <2>3. /\ w = [field \in Fields |-> w[field]]
        /\ w.occurrences = Over(z.occurrences, [slot \in Slots(AllOf(made)) |-> 0])
        /\ \A field \in Fields \ {"occurrences"} : w[field] = z[field]
    BY <2>2, Updated DEF Fields, w
  <2>4. /\ v = [field \in Fields |-> v[field]]
        /\ v.todo = {n \in AllOf(made) : templates[n.template].requirements # <<>>}
        /\ \A field \in Fields \ {"todo"} : v[field] = w[field]
    BY <2>3, Updated DEF Fields, v
  <2>5. /\ x = [field \in Fields |-> x[field]]
        /\ \A field \in Fields \ {"issues"} : x[field] = v[field]
    BY <2>4, Updated DEF Fields, x
  <2>6. /\ y.made = session.made /\ z.nodes = y.nodes /\ z.occurrences = session.occurrences
        /\ x.nodes = z.nodes /\ x.made = z.made /\ x.occurrences = w.occurrences
        /\ x.todo = v.todo
    BY <2>1, <2>2, <2>3, <2>4, <2>5 DEF Fields
  <2>7. /\ x.at = session.at /\ x.satisfied = session.satisfied
        /\ x.relationships = session.relationships
    <3>1. \A field \in Fields \ {"nodes", "made", "occurrences", "todo", "issues"} :
             x[field] = session[field]
      BY <2>1, <2>2, <2>3, <2>4, <2>5
    <3> QED BY <3>1 DEF Fields
  <2> QED BY ONLY <2>1, <2>2, <2>3, <2>4, <2>5, <2>6, <2>7 DEF Extended
<1>6. from # s /\ (from # None => from \in Services)
  BY <1>1, ServicesAssumption DEF Reusable
<1>7. sessions' = [q \in Services |-> IF q = s THEN x
                                      ELSE IF q = from THEN Closed ELSE sessions[q]]
  <2>1. CASE from = None
    BY <1>1, <1>3, <2>1, ServicesAssumption
  <2>2. CASE from # None
    BY <1>1, <1>3, <1>6, <2>2
  <2> QED BY <2>1, <2>2
<1> QED BY <1>2, <1>5, <1>7 DEF session, made

(* The nodes of a service are new when it is created, and no relationship  *)
(* ends in their capabilities.                                             *)
LEMMA InstantiateKeeps ==
  ASSUME IInv, NEW s \in Services, Instantiate(s)
  PROVE  IInv'
<1>1. /\ TypeOK /\ StagesFit /\ OneIsOpen /\ NodesHaveBegun /\ StoredCount /\ SessionsCount
      /\ templates # None /\ stage[s] = "none"
      /\ stage' = [stage EXCEPT ![s] = "satisfying"]
      /\ presentation' = presentation /\ templates' = templates /\ stored' = stored
  BY DEF IInv, Instantiate
<1>0. PICK from \in {None} \cup Reusable : \E x :
           /\ Extended(StartFrom(from), x, AllInstances(StartFrom(from).nodes, s))
           /\ sessions' = [q \in Services |-> IF q = s THEN x
                                             ELSE IF q = from THEN Closed ELSE sessions[q]]
           /\ overlapped' = (overlapped \/ \E other \in Services \ {from} :
                                              sessions[other] # Closed)
  BY InstantiateIs
<1>2. PICK x :
           /\ Extended(StartFrom(from), x, AllInstances(StartFrom(from).nodes, s))
           /\ sessions' = [q \in Services |-> IF q = s THEN x
                                             ELSE IF q = from THEN Closed ELSE sessions[q]]
           /\ overlapped' = (overlapped \/ \E other \in Services \ {from} :
                                              sessions[other] # Closed)
  BY <1>0
<1> DEFINE session == StartFrom(from)
           made == AllInstances(session.nodes, s)
<1>3. Extended(session, x, made)
  BY <1>2
<1> HIDE DEF session, made
<1>4. /\ IsSession(session)
      /\ \A n \in AllOf(session.nodes) \cup AllOf(session.made) : HasBegun(n)
      /\ \A r \in ToSet(session.relationships) : HasBegun(r.target)
      /\ ~overlapped =>
           /\ session.nodes = Joined(stored.nodes, session.made)
           /\ Slots(AllOf(session.made)) \subseteq DOMAIN session.occurrences
           /\ Bounded(session.occurrences)
           /\ \A slot \in Slots(AllOf(session.nodes)) :
                 Count(stored.relationships \o session.relationships, slot)
                   <= Occurrences(session, slot)
  BY StartsWell, Zenon DEF session
<1>5. /\ x = [field \in Fields |-> x[field]]
      /\ x.nodes = Joined(session.nodes, made) /\ x.made = Joined(session.made, made)
      /\ x.occurrences = Over(session.occurrences, [slot \in Slots(AllOf(made)) |-> 0])
      /\ x.todo \subseteq AllOf(made) /\ x.at = session.at
      /\ x.relationships = session.relationships
  BY <1>3 DEF Extended
<1>6. /\ NodesAreTyped(session.nodes) /\ NodesAreTyped(session.made)
      /\ NodesAreTyped(made) /\ \A n \in AllOf(made) : n.service = s
  BY <1>1, <1>4, NewNodes DEF IsSession, made
<1>7. /\ NodesAreTyped(x.nodes) /\ NodesAreTyped(x.made)
      /\ AllOf(x.nodes) = AllOf(session.nodes) \cup AllOf(made)
      /\ AllOf(x.made) = AllOf(session.made) \cup AllOf(made)
  BY <1>5, <1>6, JoinedNodes
<1>8. IsSession(x) /\ x # Closed
  <2>1. x.todo \subseteq Nodes
    BY <1>5, <1>6, NodesAre
  <2>2. x.relationships \in Seq(Ends) /\ x.at \in {None} \cup (Nodes \X Nat)
    BY <1>4, <1>5 DEF IsSession
  <2>3. IsSession(x)
    BY <1>5, <1>7, <2>1, <2>2 DEF IsSession
  <2>4. DOMAIN x = Fields
    BY <1>5
  <2> QED BY <2>3, <2>4 DEF Closed, Fields
<1>10. /\ sessions' = [q \in Services |-> sessions'[q]]
       /\ \A q \in Services : sessions'[q] = IF q = s THEN x
                                             ELSE IF q = from THEN Closed ELSE sessions[q]
  BY <1>2
<1>11. \A n : HasBegun(n) => HasBegun(n)'
  BY <1>1 DEF HasBegun, TypeOK
<1>12. \A n \in AllOf(made) : ~HasBegun(n) /\ HasBegun(n)'
  BY <1>1, <1>6 DEF HasBegun, TypeOK
<1>13. TypeOK'
  <2>1. \A q \in Services : sessions'[q] # Closed => IsSession(sessions'[q])
    BY <1>1, <1>8, <1>10 DEF TypeOK
  <2>2. \A q \in Services : sessions'[q] # Closed => IsSession(sessions[q])'
    BY <1>1, <2>1, TypesStay
  <2>3. IsStorage(stored)'
    BY <1>1, TypesStay DEF TypeOK
  <2>4. overlapped' \in BOOLEAN
    BY <1>1, <1>2 DEF TypeOK
  <2>5. stage' \in [Services -> {"none", "satisfying", "stored", "rejected", "leftover", "deleted"}]
    BY <1>1 DEF TypeOK
  <2> QED BY <1>1, <1>10, <2>2, <2>3, <2>4, <2>5 DEF TypeOK
<1>14. StagesFit'
  <2>1. \A q \in Services : stage'[q] = IF q = s THEN "satisfying" ELSE stage[q]
    BY <1>1 DEF TypeOK
  <2>2. \A q \in Services : q = from => stage[q] = "rejected"
    BY ServicesAssumption DEF Reusable
  <2> QED BY <1>1, <1>8, <1>10, <2>1, <2>2 DEF StagesFit, IsOpen
<1>15. ~overlapped' => ~overlapped /\ \A q \in Services : sessions'[q] # Closed => q = s
  BY <1>2, <1>10
<1>16. OneIsOpen'
  BY <1>15 DEF OneIsOpen, IsOpen
<1>17. NodesHaveBegun'
  <2>1. /\ \A n \in AllOf(stored.nodes) : HasBegun(n)
        /\ \A r \in ToSet(stored.relationships) : HasBegun(r.target)
        /\ \A slot \in DOMAIN stored.occurrences : HasBegun(slot.node)
        /\ \A q \in Services : sessions[q] # Closed =>
             /\ \A n \in AllOf(sessions[q].nodes) \cup AllOf(sessions[q].made) : HasBegun(n)
             /\ \A r \in ToSet(sessions[q].relationships) : HasBegun(r.target)
    BY <1>1 DEF NodesHaveBegun, IsOpen
  <2>2. /\ \A n \in AllOf(x.nodes) \cup AllOf(x.made) : HasBegun(n)'
        /\ \A r \in ToSet(x.relationships) : HasBegun(r.target)'
    BY <1>4, <1>5, <1>7, <1>11, <1>12
  <2>3. \A q \in Services : sessions'[q] # Closed =>
          /\ \A n \in AllOf(sessions'[q].nodes) \cup AllOf(sessions'[q].made) : HasBegun(n)'
          /\ \A r \in ToSet(sessions'[q].relationships) : HasBegun(r.target)'
    BY <1>10, <1>11, <2>1, <2>2
  <2> QED BY <1>1, <1>11, <2>1, <2>3 DEF NodesHaveBegun, IsOpen
<1>18. StoredCount'
  BY <1>1, <1>15, SlotsStay DEF StoredCount
<1>19. SessionsCount'
  <2> SUFFICES ASSUME ~overlapped
               PROVE  /\ x.nodes = Joined(stored.nodes, x.made)
                      /\ Slots(AllOf(x.made)) \subseteq DOMAIN x.occurrences
                      /\ Bounded(x.occurrences)
                      /\ \A slot \in Slots(AllOf(x.nodes)) :
                            Count(stored.relationships \o x.relationships, slot)
                              <= Occurrences(x, slot)
    BY <1>1, <1>10, <1>15, SlotsStay
       DEF SessionsCount, Occurrences, Made, Relationships, IsOpen
  <2>1. x.nodes = Joined(stored.nodes, x.made)
    BY <1>1, <1>4, <1>5, <1>6, JoinedAgain DEF TypeOK, IsStorage
  <2>2. AllOf(made) \subseteq Nodes /\ AllOf(x.nodes) \subseteq Nodes
    BY <1>6, <1>7, NodesAre
  <2>3. DOMAIN x.occurrences = DOMAIN session.occurrences \cup Slots(AllOf(made))
        /\ \A slot \in DOMAIN x.occurrences :
              x.occurrences[slot] = IF slot \in DOMAIN session.occurrences
                                    THEN session.occurrences[slot] ELSE 0
    BY <1>5 DEF Over
  <2>4. Slots(AllOf(x.made)) \subseteq DOMAIN x.occurrences
    <3>1. Slots(AllOf(x.made)) = Slots(AllOf(session.made)) \cup Slots(AllOf(made))
      BY <1>7 DEF Slots
    <3> QED BY <1>4, <2>3, <3>1
  <2>5. Bounded(x.occurrences)
    <3>1. \A slot \in Slots(AllOf(made)) : SlotTemplate(slot).max \in {None} \cup Nat
      BY <1>1, <2>2, SlotsAre
    <3> QED BY <1>4, <2>3, <3>1 DEF Bounded
  <2>6. ASSUME NEW slot \in Slots(AllOf(x.nodes))
        PROVE  Count(stored.relationships \o x.relationships, slot) <= Occurrences(x, slot)
    <3>1. slot \in Slots(AllOf(session.nodes)) \/ slot \in Slots(AllOf(made))
      BY <1>7 DEF Slots
    <3>2. CASE slot \in Slots(AllOf(session.nodes))
      <4>1. HasBegun(slot.node)
        BY <1>1, <1>4, <1>6, <3>2, NodesAre, SlotsAre
      <4>2. slot \notin Slots(AllOf(made))
        BY <1>1, <1>12, <2>2, <4>1, SlotsAre
      <4>3. Occurrences(x, slot) = Occurrences(session, slot)
        BY <2>3, <4>2 DEF Occurrences
      <4> QED BY <1>4, <1>5, <3>2, <4>3
    <3>3. CASE slot \in Slots(AllOf(made))
      <4>1. ~HasBegun(slot.node)
        BY <1>1, <1>12, <2>2, <3>3, SlotsAre
      <4> DEFINE all == stored.relationships \o x.relationships
      <4>2. stored.relationships \in Seq(Ends) /\ x.relationships \in Seq(Ends)
        BY <1>1, <1>8 DEF TypeOK, IsStorage, IsSession
      <4>3. all \in Seq(Ends)
        BY <4>2
      <4>4. \A r \in ToSet(all) : r.target # slot.node
        <5>1. ToSet(all) = ToSet(stored.relationships) \cup ToSet(x.relationships)
          BY <4>2, JoinedMembers
        <5> QED BY <1>1, <1>4, <1>5, <4>1, <5>1 DEF NodesHaveBegun
      <4> HIDE DEF all
      <4>5. Count(all, slot) = 0
        BY <4>3, <4>4, NoneCounted
      <4>6. Occurrences(x, slot) \in Nat
        BY <2>3, <2>5, <3>3 DEF Occurrences, Bounded
      <4> QED BY <4>5, <4>6 DEF all
    <3> QED BY <3>1, <3>2, <3>3
  <2> QED BY <2>1, <2>4, <2>5, <2>6
<1> QED BY <1>13, <1>14, <1>16, <1>17, <1>18, <1>19 DEF IInv

-----------------------------------------------------------------------------
(* The other steps.                                                        *)

(* Before the template is there, nothing is stored and no session is open. *)
LEMMA ParseKeeps ==
  ASSUME IInv, Parse
  PROVE  IInv'
<1>1. /\ TypeOK /\ StagesFit /\ NodesHaveBegun
      /\ templates = None /\ templates' = NodeTemplates(presentation)
      /\ presentation' = presentation /\ stage' = stage /\ sessions' = sessions
      /\ stored' = stored /\ overlapped' = overlapped
  BY DEF IInv, Parse
<1>2. \A s \in Services : stage[s] = "none" /\ ~IsOpen(s)
  BY <1>1 DEF StagesFit
<1>3. \A n : ~HasBegun(n)
  BY <1>2 DEF HasBegun
<1>4. AllOf(stored.nodes) = {} /\ DOMAIN stored.occurrences = {}
  BY <1>1, <1>3 DEF NodesHaveBegun
<1>5. TypeOK'
  <2>1. IsStorage(stored)'
    BY <1>1, TypesStay DEF TypeOK
  <2>2. \A s \in Services : sessions'[s] = Closed
    BY <1>1, <1>2 DEF IsOpen
  <2>3. templates' \in {None, NodeTemplates(presentation')}
    BY <1>1
  <2> QED BY <1>1, <2>1, <2>2, <2>3 DEF TypeOK
<1>6. StagesFit'
  BY <1>1, <1>2 DEF StagesFit, IsOpen
<1>7. OneIsOpen' /\ SessionsCount'
  BY <1>1, <1>2 DEF OneIsOpen, SessionsCount, IsOpen
<1>8. NodesHaveBegun'
  BY <1>1 DEF NodesHaveBegun, HasBegun, IsOpen
<1>9. StoredCount'
  BY <1>1, <1>4 DEF StoredCount, Slots, Bounded
<1> QED BY <1>5, <1>6, <1>7, <1>8, <1>9 DEF IInv

(* A session that is closed leaves the others as they are.                 *)
LEMMA ExitKeeps ==
  ASSUME IInv, NEW s \in Services, Exit(s)
  PROVE  IInv'
<1>1. /\ TypeOK /\ StagesFit /\ OneIsOpen /\ NodesHaveBegun /\ StoredCount /\ SessionsCount
      /\ stage[s] = "rejected" /\ sessions' = [sessions EXCEPT ![s] = Closed]
      /\ presentation' = presentation /\ templates' = templates /\ stage' = stage
      /\ stored' = stored /\ overlapped' = overlapped
  BY DEF IInv, Exit, Reusable
<1>2. /\ sessions' = [q \in Services |-> sessions'[q]]
      /\ \A q \in Services : sessions'[q] = IF q = s THEN Closed ELSE sessions[q]
  BY <1>1 DEF TypeOK
<1>3. \A q \in Services : IsOpen(q)' => IsOpen(q) /\ q # s
  BY <1>2 DEF IsOpen
<1>4. TypeOK'
  <2>1. IsStorage(stored)'
    BY <1>1, TypesStay DEF TypeOK
  <2>2. \A q \in Services : sessions'[q] # Closed => IsSession(sessions'[q])
    BY <1>1, <1>2 DEF TypeOK
  <2>3. \A q \in Services : sessions'[q] # Closed => IsSession(sessions[q])'
    BY <1>1, <2>2, TypesStay
  <2> QED BY <1>1, <1>2, <2>1, <2>3 DEF TypeOK
<1>5. StagesFit'
  BY <1>1, <1>2 DEF StagesFit, IsOpen
<1>6. OneIsOpen'
  BY <1>1, <1>3 DEF OneIsOpen
<1>7. NodesHaveBegun'
  BY <1>1, <1>2, <1>3 DEF NodesHaveBegun, HasBegun
<1>8. StoredCount'
  BY <1>1, SlotsStay DEF StoredCount
<1>9. SessionsCount'
  BY <1>1, <1>2, <1>3, SlotsStay DEF SessionsCount, Occurrences, Made, Relationships
<1> QED BY <1>4, <1>5, <1>6, <1>7, <1>8, <1>9 DEF IInv

(* A rejected creation leaves its session open.                            *)
LEMMA RejectKeeps ==
  ASSUME IInv, NEW s \in Services, Reject(s)
  PROVE  IInv'
<1>1. /\ TypeOK /\ StagesFit /\ OneIsOpen /\ NodesHaveBegun /\ StoredCount /\ SessionsCount
      /\ stage[s] = "satisfying" /\ stage' = [stage EXCEPT ![s] = "rejected"]
      /\ presentation' = presentation /\ templates' = templates /\ sessions' = sessions
      /\ stored' = stored /\ overlapped' = overlapped
  BY DEF IInv, Reject, IsThrough
<1>2. \A q \in Services : stage'[q] = IF q = s THEN "rejected" ELSE stage[q]
  BY <1>1 DEF TypeOK
<1>3. \A q : IsOpen(q)' <=> IsOpen(q)
  BY <1>1 DEF IsOpen
<1>4. TypeOK'
  <2>1. IsStorage(stored)'
    BY <1>1, TypesStay DEF TypeOK
  <2>2. \A q \in Services : sessions'[q] # Closed => IsSession(sessions[q])'
    BY <1>1, TypesStay DEF TypeOK
  <2>3. stage' \in [Services -> {"none", "satisfying", "stored", "rejected", "leftover", "deleted"}]
    BY <1>1 DEF TypeOK
  <2> QED BY <1>1, <2>1, <2>2, <2>3 DEF TypeOK
<1>5. StagesFit'
  BY <1>1, <1>2, <1>3 DEF StagesFit
<1>6. OneIsOpen'
  BY <1>1, <1>3 DEF OneIsOpen
<1>7. \A n : HasBegun(n) => HasBegun(n)'
  BY <1>2 DEF HasBegun
<1>8. NodesHaveBegun'
  BY <1>1, <1>3, <1>7 DEF NodesHaveBegun
<1>9. StoredCount'
  BY <1>1, SlotsStay DEF StoredCount
<1>10. SessionsCount'
  BY <1>1, <1>3, SlotsStay DEF SessionsCount, Occurrences, Made, Relationships
<1> QED BY <1>4, <1>5, <1>6, <1>8, <1>9, <1>10 DEF IInv

(* What is stored of an accepted service is counted as its session counted *)
(* it: a counter that is not stored is one that no relationship added to.  *)
LEMMA AcceptKeeps ==
  ASSUME IInv, NEW s \in Services, Accept(s)
  PROVE  IInv'
<1> DEFINE old == sessions[s]
           written == {x \in DOMAIN old.occurrences :
                         x.node \in Made(s) \/ \E r \in ToSet(old.relationships) :
                                                  r.target = x.node /\ r.capability = x.name}
           counts == Over([slot \in written |-> old.occurrences[slot]], stored.occurrences)
<1>1. /\ TypeOK /\ StagesFit /\ OneIsOpen /\ NodesHaveBegun /\ StoredCount /\ SessionsCount
      /\ stage[s] = "satisfying" /\ IsOpen(s) /\ IsSession(old) /\ templates # None
      /\ presentation' = presentation /\ templates' = templates /\ overlapped' = overlapped
  BY UnderWay DEF IInv, Accept, IsThrough
<1>2. /\ stage' = [q \in Services |-> IF q \in {s} THEN "stored"
                                      ELSE IF q \in old.carried THEN "leftover" ELSE stage[q]]
      /\ sessions' = [sessions EXCEPT ![s] = Closed]
      /\ \E hosts : stored' = [services |-> stored.services \cup {s} \cup old.carried,
                               nodes |-> Joined(stored.nodes, old.made),
                               relationships |-> stored.relationships \o old.relationships,
                               occurrences |-> counts,
                               hosts |-> hosts]
  BY Zenon DEF Accept, Relationships
<1> HIDE DEF old, counts
<1>3. /\ stored' = [services |-> stored'.services, nodes |-> stored'.nodes,
                    relationships |-> stored'.relationships,
                    occurrences |-> stored'.occurrences, hosts |-> stored'.hosts]
      /\ stored'.services = stored.services \cup {s} \cup old.carried
      /\ stored'.nodes = Joined(stored.nodes, old.made)
      /\ stored'.relationships = stored.relationships \o old.relationships
      /\ stored'.occurrences = counts
  <2>1. PICK hosts :
          stored' = [services |-> stored.services \cup {s} \cup old.carried,
                     nodes |-> Joined(stored.nodes, old.made),
                     relationships |-> stored.relationships \o old.relationships,
                     occurrences |-> counts,
                     hosts |-> hosts]
    BY <1>2
  <2> QED BY <2>1
<1>4. /\ sessions' = [q \in Services |-> sessions'[q]]
      /\ \A q \in Services : sessions'[q] = IF q = s THEN Closed ELSE sessions[q]
      /\ \A q \in Services : IsOpen(q)' => IsOpen(q) /\ q # s
  BY <1>1, <1>2 DEF TypeOK, IsOpen
<1>5. /\ NodesAreTyped(stored.nodes) /\ NodesAreTyped(old.made) /\ NodesAreTyped(old.nodes)
      /\ stored.relationships \in Seq(Ends) /\ old.relationships \in Seq(Ends)
  BY <1>1 DEF TypeOK, IsStorage, IsSession
<1>6. /\ NodesAreTyped(stored'.nodes)
      /\ AllOf(stored'.nodes) = AllOf(stored.nodes) \cup AllOf(old.made)
      /\ stored'.relationships \in Seq(Ends)
      /\ ToSet(stored'.relationships) = ToSet(stored.relationships) \cup ToSet(old.relationships)
  BY <1>3, <1>5, JoinedNodes, JoinedMembers
<1>7. /\ DOMAIN counts = written \cup DOMAIN stored.occurrences
      /\ \A slot \in DOMAIN counts :
            counts[slot] = IF slot \in written THEN old.occurrences[slot]
                           ELSE stored.occurrences[slot]
  BY DEF Over, counts
<1>8. TypeOK'
  <2>1. IsStorage(stored')
    BY <1>3, <1>6 DEF IsStorage
  <2>2. IsStorage(stored)'
    BY <1>1, <2>1, TypesStay
  <2>3. \A q \in Services : sessions'[q] # Closed => IsSession(sessions'[q])
    BY <1>1, <1>4 DEF TypeOK
  <2>4. \A q \in Services : sessions'[q] # Closed => IsSession(sessions[q])'
    BY <1>1, <2>3, TypesStay
  <2>5. stage' \in [Services -> {"none", "satisfying", "stored", "rejected", "leftover", "deleted"}]
    BY <1>1, <1>2 DEF TypeOK
  <2> QED BY <1>1, <1>4, <2>2, <2>4, <2>5 DEF TypeOK
<1>9. \A q \in Services : stage[q] # "none" => stage'[q] # "none"
  BY <1>2
<1>10. StagesFit'
  <2>1. \A q \in Services : q \in stored'.services => stage'[q] # "none"
    BY <1>1, <1>2, <1>3, <1>9 DEF StagesFit
  <2>2. \A q \in Services : stage'[q] = "satisfying" => stage[q] = "satisfying" /\ q # s
    BY <1>2
  <2>3. \A q \in Services : q # s => (IsOpen(q)' <=> IsOpen(q))
    BY <1>4 DEF IsOpen
  <2> QED BY <1>1, <1>4, <1>9, <2>1, <2>2, <2>3 DEF StagesFit
<1>11. OneIsOpen'
  BY <1>1, <1>4 DEF OneIsOpen
<1>12. \A n : HasBegun(n) => HasBegun(n)'
  BY <1>9 DEF HasBegun
<1>13. NodesHaveBegun'
  <2>1. \A n \in AllOf(stored'.nodes) : HasBegun(n)
    BY <1>1, <1>6 DEF NodesHaveBegun, old
  <2>2. \A r \in ToSet(stored'.relationships) : HasBegun(r.target)
    BY <1>1, <1>6 DEF NodesHaveBegun, old
  <2>3. \A slot \in DOMAIN counts : HasBegun(slot.node)
    BY <1>1, <1>7 DEF NodesHaveBegun, Made, old
  <2>4. \A q \in Services : IsOpen(q)' =>
          /\ \A n \in AllOf(sessions'[q].nodes) \cup AllOf(sessions'[q].made) : HasBegun(n)
          /\ \A r \in ToSet(sessions'[q].relationships) : HasBegun(r.target)
    BY <1>1, <1>4 DEF NodesHaveBegun
  <2> QED BY <1>3, <1>12, <2>1, <2>2, <2>3, <2>4 DEF NodesHaveBegun
<1>14. SessionsCount'
  BY <1>1, <1>4 DEF SessionsCount, OneIsOpen
<1>15. StoredCount'
  <2> SUFFICES ASSUME ~overlapped
               PROVE  /\ Slots(AllOf(stored'.nodes)) \subseteq DOMAIN counts
                      /\ Bounded(counts)
                      /\ \A slot \in Slots(AllOf(stored'.nodes)) :
                            Count(stored.relationships \o old.relationships, slot) <= counts[slot]
    BY <1>1, <1>3, SlotsStay DEF StoredCount
  <2>1. /\ old.nodes = stored'.nodes /\ Bounded(old.occurrences)
        /\ Slots(Made(s)) \subseteq DOMAIN old.occurrences
        /\ \A slot \in Slots(AllOf(old.nodes)) :
              Count(stored.relationships \o old.relationships, slot) <= Occurrences(old, slot)
    BY <1>1, <1>3 DEF SessionsCount, Relationships, old
  <2>2. /\ Slots(AllOf(stored.nodes)) \subseteq DOMAIN stored.occurrences
        /\ Bounded(stored.occurrences)
        /\ \A slot \in Slots(AllOf(stored.nodes)) :
              Count(stored.relationships, slot) <= stored.occurrences[slot]
    BY <1>1 DEF StoredCount
  <2>3. \A slot \in Slots(AllOf(stored'.nodes)) :
           \/ slot \in Slots(AllOf(stored.nodes))
           \/ slot \in Slots(Made(s)) /\ slot.node \in Made(s)
    <3>1. Slots(AllOf(stored'.nodes)) = Slots(AllOf(stored.nodes)) \cup Slots(Made(s))
      BY <1>6 DEF Slots, Made, old
    <3>2. Made(s) \subseteq Nodes
      BY <1>5, NodesAre DEF Made, old
    <3>3. \A slot \in Slots(Made(s)) : slot.node \in Made(s)
      BY <1>1, <3>2, SlotsAre
    <3> QED BY <3>1, <3>3
  <2>4. Slots(AllOf(stored'.nodes)) \subseteq DOMAIN counts
    BY <1>7, <2>1, <2>2, <2>3
  <2>5. Bounded(counts)
    BY <1>7, <2>1, <2>2 DEF Bounded
  <2>6. ASSUME NEW slot \in Slots(AllOf(stored'.nodes))
        PROVE  Count(stored.relationships \o old.relationships, slot) <= counts[slot]
    <3>1. CASE slot \in written \/ slot \notin DOMAIN old.occurrences
      <4>1. counts[slot] = Occurrences(old, slot)
        BY <1>7, <2>4, <3>1 DEF Occurrences
      <4> QED BY <2>1, <4>1
    <3>2. CASE slot \notin written /\ slot \in DOMAIN old.occurrences
      <4>1. slot \in Slots(AllOf(stored.nodes))
        BY <2>3, <3>2
      <4>2. \A r \in ToSet(old.relationships) :
               ~ (r.target = slot.node /\ r.capability = slot.name)
        BY <3>2
      <4> HIDE DEF written
      <4>3. Count(stored.relationships \o old.relationships, slot) =
              Count(stored.relationships, slot)
        BY <1>5, <4>2, OthersDoNotCount
      <4>4. counts[slot] = stored.occurrences[slot]
        BY <1>7, <2>4, <3>2
      <4> QED BY <2>2, <4>1, <4>3, <4>4
    <3> QED BY <3>1, <3>2
  <2> QED BY <2>4, <2>5, <2>6
<1> QED BY <1>8, <1>10, <1>11, <1>13, <1>14, <1>15 DEF IInv

(* A deletion keeps the counters of the nodes that stay, and no more       *)
(* relationships than they count.                                          *)
LEMMA DeleteServiceKeeps ==
  ASSUME IInv, NEW s \in Services, DeleteService(s)
  PROVE  IInv'
<1> DEFINE staying == {n \in AllOf(stored.nodes) : n.service # s}
           related == {r \in ToSet(stored.relationships) : {r.source, r.target} \subseteq staying}
           nodes == [t \in DOMAIN stored.nodes |-> Remaining(stored.nodes[t], staying)]
           relationships == Remaining(stored.relationships, related)
           counts == [slot \in {x \in DOMAIN stored.occurrences : x.node \in staying}
                        |-> stored.occurrences[slot]]
<1>1. /\ TypeOK /\ StagesFit /\ OneIsOpen /\ NodesHaveBegun /\ StoredCount /\ SessionsCount
      /\ s \in stored.services /\ \A q \in Services : ~IsOpen(q)
      /\ stage' = [stage EXCEPT ![s] = "deleted"] /\ sessions' = sessions
      /\ presentation' = presentation /\ templates' = templates /\ overlapped' = overlapped
  BY DEF IInv, DeleteService, IsOpen
<1>2. \E hosts : stored' = [services |-> stored.services \ {s}, nodes |-> nodes,
                            relationships |-> relationships, occurrences |-> counts,
                            hosts |-> hosts]
  BY Zenon DEF DeleteService
<1> HIDE DEF staying, related, nodes, relationships, counts
<1>3. /\ stored' = [services |-> stored'.services, nodes |-> stored'.nodes,
                    relationships |-> stored'.relationships,
                    occurrences |-> stored'.occurrences, hosts |-> stored'.hosts]
      /\ stored'.services = stored.services \ {s} /\ stored'.nodes = nodes
      /\ stored'.relationships = relationships /\ stored'.occurrences = counts
  BY <1>2
<1>4. NodesAreTyped(stored.nodes) /\ stored.relationships \in Seq(Ends)
  BY <1>1 DEF TypeOK, IsStorage
<1>5. NodesAreTyped(nodes) /\ AllOf(nodes) \subseteq AllOf(stored.nodes) \cap staying
  <2>1. nodes = [t \in Templates |-> Remaining(stored.nodes[t], staying)]
    BY <1>4 DEF NodesAreTyped, nodes
  <2>2. ASSUME NEW t \in Templates
        PROVE  /\ Remaining(stored.nodes[t], staying) \in Seq(Nodes)
               /\ ToSet(Remaining(stored.nodes[t], staying)) \subseteq
                    ToSet(stored.nodes[t]) \cap staying
    <3>1. stored.nodes[t] \in Seq(Nodes)
      BY <1>4 DEF NodesAreTyped
    <3> QED BY <3>1, WhatRemains
  <2>3. NodesAreTyped(nodes)
    BY <1>4, <2>1, <2>2 DEF NodesAreTyped
  <2>4. AllOf(nodes) \subseteq AllOf(stored.nodes) \cap staying
    BY <1>4, <2>1, <2>2 DEF AllOf, NodesAreTyped
  <2> QED BY <2>3, <2>4
<1>6. /\ relationships \in Seq(Ends)
      /\ ToSet(relationships) \subseteq ToSet(stored.relationships)
      /\ \A slot : Count(relationships, slot) <= Count(stored.relationships, slot)
  BY <1>4, WhatRemains, FewerRemain DEF relationships
<1>7. \A q \in Services : stage'[q] = IF q = s THEN "deleted" ELSE stage[q]
  BY <1>1 DEF TypeOK
<1>8. TypeOK'
  <2>1. IsStorage(stored')
    BY <1>3, <1>5, <1>6 DEF IsStorage
  <2>2. IsStorage(stored)'
    BY <1>1, <2>1, TypesStay
  <2>3. \A q \in Services : sessions'[q] = Closed
    BY <1>1 DEF IsOpen
  <2>4. stage' \in [Services -> {"none", "satisfying", "stored", "rejected", "leftover", "deleted"}]
    BY <1>1 DEF TypeOK
  <2> QED BY <1>1, <2>2, <2>3, <2>4 DEF TypeOK
<1>9. StagesFit'
  BY <1>1, <1>3, <1>7 DEF StagesFit, IsOpen
<1>10. OneIsOpen' /\ SessionsCount'
  BY <1>1 DEF OneIsOpen, SessionsCount, IsOpen
<1>11. \A n : HasBegun(n) => HasBegun(n)'
  BY <1>7 DEF HasBegun
<1>12. NodesHaveBegun'
  <2>1. /\ \A n \in AllOf(nodes) : HasBegun(n)
        /\ \A r \in ToSet(relationships) : HasBegun(r.target)
        /\ \A slot \in DOMAIN counts : HasBegun(slot.node)
    BY <1>1, <1>5, <1>6 DEF NodesHaveBegun, counts
  <2> QED BY <1>1, <1>3, <1>11, <2>1 DEF NodesHaveBegun, IsOpen
<1>13. StoredCount'
  <2> SUFFICES ASSUME ~overlapped
               PROVE  /\ Slots(AllOf(nodes)) \subseteq DOMAIN counts
                      /\ Bounded(counts)
                      /\ \A slot \in Slots(AllOf(nodes)) :
                            Count(relationships, slot) <= counts[slot]
    BY <1>1, <1>3, SlotsStay DEF StoredCount
  <2>1. /\ Slots(AllOf(stored.nodes)) \subseteq DOMAIN stored.occurrences
        /\ Bounded(stored.occurrences)
        /\ \A slot \in Slots(AllOf(stored.nodes)) :
              Count(stored.relationships, slot) <= stored.occurrences[slot]
    BY <1>1 DEF StoredCount
  <2>2. \A slot \in Slots(AllOf(nodes)) :
           slot \in Slots(AllOf(stored.nodes)) /\ slot.node \in staying
    BY <1>5 DEF Slots
  <2>3. /\ DOMAIN counts = {x \in DOMAIN stored.occurrences : x.node \in staying}
        /\ \A slot \in DOMAIN counts : counts[slot] = stored.occurrences[slot]
    BY DEF counts
  <2>4. Bounded(counts)
    BY <2>1, <2>3 DEF Bounded
  <2>5. ASSUME NEW slot \in Slots(AllOf(nodes))
        PROVE  slot \in DOMAIN counts /\ Count(relationships, slot) <= counts[slot]
    <3>1. slot \in DOMAIN counts /\ counts[slot] = stored.occurrences[slot]
      BY <2>1, <2>2, <2>3
    <3>2. Count(stored.relationships, slot) <= stored.occurrences[slot]
          /\ stored.occurrences[slot] \in Nat
      BY <2>1, <2>2 DEF Bounded
    <3>3. Count(stored.relationships, slot) \in Nat /\ Count(relationships, slot) \in Nat
      BY <1>4, <1>6, CountIsANumber
    <3> QED BY <1>6, <3>1, <3>2, <3>3
  <2> QED BY <2>4, <2>5
<1> QED BY <1>8, <1>9, <1>10, <1>12, <1>13 DEF IInv

-----------------------------------------------------------------------------
(* What is accepted.                                                       *)

(* The relationships that end in a capability, and those that begin at a   *)
(* requirement of a node.                                                  *)
EndsIn(slot) == {e \in Ends : e.target = slot.node /\ e.capability = slot.name}
StartsAt(n, k) == {e \in Ends : e.source = n /\ e.requirement = k}

(* Both counts are numbers of places.                                      *)
LEMMA CountsArePlaces ==
  ASSUME NEW r \in Seq(Ends)
  PROVE  /\ \A slot : Count(r, slot) = Cardinality(Places(r, EndsIn(slot)))
         /\ \A n, k : CountFrom(r, n, k) = Cardinality(Places(r, StartsAt(n, k)))
<1>1. \A i \in DOMAIN r : r[i] \in Ends
  OBVIOUS
<1>2. ASSUME NEW slot
      PROVE  Count(r, slot) = Cardinality(Places(r, EndsIn(slot)))
  <2>1. {i \in DOMAIN r : r[i].target = slot.node /\ r[i].capability = slot.name} =
          Places(r, EndsIn(slot))
    BY <1>1 DEF Places, EndsIn
  <2> QED BY <2>1 DEF Count
<1>3. ASSUME NEW n, NEW k
      PROVE  CountFrom(r, n, k) = Cardinality(Places(r, StartsAt(n, k)))
  <2>1. {i \in DOMAIN r : r[i].source = n /\ r[i].requirement = k} = Places(r, StartsAt(n, k))
    BY <1>1 DEF Places, StartsAt
  <2> QED BY <2>1 DEF CountFrom
<1> QED BY <1>2, <1>3

(* What is said about a session depends on the templates only.             *)
LEMMA KeptStay ==
  ASSUME templates' = templates
  PROVE  \A x, own : /\ PlaceFits(x, own)' <=> PlaceFits(x, own)
                     /\ NoneIsMissing(x, own)' <=> NoneIsMissing(x, own)
                     /\ CountersAreExact(x, own)' <=> CountersAreExact(x, own)
<1> SUFFICES ASSUME NEW x, NEW own
             PROVE  /\ PlaceFits(x, own)' <=> PlaceFits(x, own)
                    /\ NoneIsMissing(x, own)' <=> NoneIsMissing(x, own)
                    /\ CountersAreExact(x, own)' <=> CountersAreExact(x, own)
  OBVIOUS
<1>1. PlaceFits(x, own)' <=> PlaceFits(x, own)
  BY DEF PlaceFits
<1>2. NoneIsMissing(x, own)' <=> NoneIsMissing(x, own)
  BY DEF NoneIsMissing
<1>3. CountersAreExact(x, own)' <=> CountersAreExact(x, own)
  BY SlotsStay DEF CountersAreExact
<1> QED BY <1>1, <1>2, <1>3

(* A session that is apart is apart of more.                               *)
LEMMA ApartOfMore ==
  ASSUME NEW x, NEW services, NEW more, SessionIsApart(x, services), services \subseteq more
  PROVE  SessionIsApart(x, more)
BY DEF SessionIsApart

(* The nodes a creation has made are of its service.                       *)
LEMMA OwnNodesAre ==
  ASSUME IInv, NEW s \in Services, IsOpen(s)
  PROVE  /\ OwnNodes(s) \subseteq Nodes /\ OwnNodes(s) \subseteq AllOf(sessions[s].made)
         /\ \A n \in OwnNodes(s) : n.service = s /\ n.template \in Templates
<1>1. AllOf(sessions[s].made) \subseteq Nodes
  BY NodesAre DEF IInv, TypeOK, IsOpen, IsSession
<1> QED BY <1>1 DEF OwnNodes, Made, Nodes

(* A place among the requirements is not none.                             *)
LEMMA NoneIsNoPlace ==
  ASSUME TypeOK
  PROVE  None \notin Nodes \X Nat
BY NoneAssumption DEF TypeOK, Nodes, Templates

(* After a requirement comes the next one, unless it was the last.         *)
LEMMA AfterFits ==
  ASSUME TypeOK, templates # None, NEW at \in Nodes \X Nat,
         at[2] \in DOMAIN templates[at[1].template].requirements
  PROVE  LET r == templates[at[1].template].requirements
         IN /\ After(at) = None => \A k \in DOMAIN r : k <= at[2]
            /\ After(at) # None => /\ After(at) = <<at[1], at[2] + 1>>
                                   /\ at[2] + 1 \in DOMAIN r
<1> DEFINE r == templates[at[1].template].requirements
<1>1. Len(r) \in Nat /\ DOMAIN r = 1 .. Len(r)
  <2>1. at[1].template \in Templates
    BY DEF Nodes
  <2> QED BY <2>1, RequirementsAre
<1>2. at[1] \in Nodes /\ at[2] \in Nat /\ <<at[1], at[2] + 1>> \in Nodes \X Nat
  OBVIOUS
<1>3. After(at) = IF at[2] >= Len(r) THEN None ELSE <<at[1], at[2] + 1>>
  BY DEF After, IsLast
<1>4. None # <<at[1], at[2] + 1>>
  BY <1>2, NoneIsNoPlace
<1> HIDE DEF r
<1>5. CASE at[2] >= Len(r)
  BY <1>1, <1>2, <1>3, <1>5 DEF r
<1>6. CASE ~ (at[2] >= Len(r))
  <2>1. at[2] + 1 \in DOMAIN r
    BY <1>1, <1>2, <1>6
  <2> QED BY <1>3, <1>4, <1>6, <2>1 DEF r
<1> QED BY <1>5, <1>6

(* A step that changes one session, and adds no nodes.                     *)
LEMMA KeptStep ==
  ASSUME AcceptedInv, NEW s \in Services, stage[s] = "satisfying",
         sessions = [q \in Services |-> sessions[q]],
         UNCHANGED <<presentation, templates, stage, stored, overlapped>>,
         NEW x, sessions' = [sessions EXCEPT ![s] = x],
         x.made = sessions[s].made, SessionIsApart(x, Ended \cup {s}),
         PlaceFits(x, OwnNodes(s)), NoneIsMissing(x, OwnNodes(s)),
         CountersAreExact(x, OwnNodes(s))
  PROVE  AcceptedInv'
<1>1. /\ templates' = templates /\ stage' = stage /\ stored' = stored
      /\ \A q \in Services : sessions'[q] = IF q = s THEN x ELSE sessions[q]
  OBVIOUS
<1>2. Ended' = Ended
  BY <1>1 DEF Ended
<1>3. \A q \in Services : OwnNodes(q)' = OwnNodes(q)
  BY <1>1 DEF OwnNodes, Made
<1>4. OwnIsApart'
  <2>1. \A q \in Services : sessions'[q] # Closed => SessionIsApart(sessions'[q], Ended \cup {q})
    BY <1>1 DEF AcceptedInv, OwnIsApart, IsOpen
  <2>2. /\ \A n \in AllOf(stored.nodes) : n.service \in Ended
        /\ \A r \in ToSet(stored.relationships) : {r.source.service, r.target.service} \subseteq Ended
    BY DEF AcceptedInv, OwnIsApart
  <2> QED BY <1>1, <1>2, <2>1, <2>2 DEF OwnIsApart, IsOpen
<1>5. OwnIsKept'
  <2>1. ASSUME NEW q \in Services, stage'[q] = "satisfying"
        PROVE  /\ PlaceFits(sessions'[q], OwnNodes(q))
               /\ NoneIsMissing(sessions'[q], OwnNodes(q))
               /\ CountersAreExact(sessions'[q], OwnNodes(q))
    BY <1>1, <2>1 DEF AcceptedInv, OwnIsKept
  <2>2. ASSUME NEW q \in Services, stage'[q] = "satisfying"
        PROVE  /\ PlaceFits(sessions[q], OwnNodes(q))'
               /\ NoneIsMissing(sessions[q], OwnNodes(q))'
               /\ CountersAreExact(sessions[q], OwnNodes(q))'
    BY <1>1, <1>3, <2>1, <2>2, KeptStay
  <2>3. \A q \in Services : stage'[q] = "rejected" /\ sessions'[q] # Closed => sessions'[q].at = None
    BY <1>1 DEF AcceptedInv, OwnIsKept, Reusable
  <2> QED BY <2>2, <2>3 DEF OwnIsKept, Reusable
<1> QED BY <1>4, <1>5 DEF AcceptedInv

(* The next requirement is one of the same node.                           *)
LEMMA GoesOn ==
  ASSUME TypeOK, templates # None, NEW old, IsSession(old), old.at # None,
         NEW own, PlaceFits(old, own), NEW x, x.todo = old.todo, x.at = After(old.at)
  PROVE  PlaceFits(x, own)
<1>1. /\ old.at \in Nodes \X Nat /\ old.at[1] \in own \ old.todo
      /\ old.at[2] \in DOMAIN templates[old.at[1].template].requirements
  BY DEF IsSession, PlaceFits
<1>2. CASE After(old.at) = None
  BY <1>2 DEF PlaceFits
<1>3. CASE After(old.at) # None
  <2>1. /\ x.at = <<old.at[1], old.at[2] + 1>>
        /\ old.at[2] + 1 \in DOMAIN templates[old.at[1].template].requirements
    BY <1>1, <1>3, AfterFits
  <2>2. x.at[1] = old.at[1] /\ x.at[2] = old.at[2] + 1
    BY <2>1
  <2> QED BY <1>1, <2>1, <2>2 DEF PlaceFits
<1> QED BY <1>2, <1>3

(* Counters are of nodes that the session has.                             *)
LEMMA CountersAreApart ==
  ASSUME TypeOK, templates # None, NEW old, IsSession(old),
         NEW services, SessionIsApart(old, services),
         NEW slots, slots \subseteq DOMAIN old.occurrences \cup Slots(AllOf(old.nodes))
  PROVE  \A slot \in slots : slot.node.service \in services
<1>1. AllOf(old.nodes) \subseteq Nodes
  BY NodesAre DEF IsSession
<1>2. \A slot \in Slots(AllOf(old.nodes)) : slot.node \in AllOf(old.nodes)
  BY <1>1, SlotsAre
<1> QED BY <1>2 DEF SessionIsApart

(* Turning to a node leaves its requirements due.                          *)
LEMMA NextNodeIsKept ==
  ASSUME IInv, AcceptedInv, NEW s \in Services, NEW node, NextNode(s, node)
  PROVE  AcceptedInv'
<1> DEFINE old == sessions[s]
           own == OwnNodes(s)
<1>1. /\ stage[s] = "satisfying" /\ IsOpen(s) /\ IsSession(old) /\ templates # None /\ TypeOK
      /\ UNCHANGED <<presentation, templates, stage, stored, overlapped>>
      /\ old.at = None /\ node \in old.todo
  BY NextNodeIs, UnderWay DEF IInv, NextNode
<1>2. PICK x : /\ IsSession(x) /\ sessions' = [sessions EXCEPT ![s] = x]
               /\ x.todo = old.todo \ {node} /\ x.at = <<node, 1>>
               /\ \A field \in Fields \ {"todo", "at"} : x[field] = old[field]
  BY NextNodeIs
<1>3. /\ x.nodes = old.nodes /\ x.made = old.made /\ x.relationships = old.relationships
      /\ x.occurrences = old.occurrences /\ x.issues = old.issues /\ x.satisfied = old.satisfied
  BY <1>2 DEF Fields
<1>4. /\ PlaceFits(old, own) /\ NoneIsMissing(old, own) /\ CountersAreExact(old, own)
      /\ SessionIsApart(old, Ended \cup {s})
  BY <1>1 DEF AcceptedInv, OwnIsKept, OwnIsApart
<1>5. \A n \in own : n.template \in Templates
  BY <1>1, OwnNodesAre
<1> HIDE DEF own, old
<1>6. node \in own /\ 1 \in DOMAIN templates[node.template].requirements
  <2>1. node \in own /\ templates[node.template].requirements # <<>>
    BY <1>1, <1>4 DEF PlaceFits
  <2> QED BY <1>1, <1>5, <2>1, RequirementsAre
<1>7. PlaceFits(x, own)
  <2>1. x.at[1] = node /\ x.at[2] = 1
    BY <1>2
  <2> QED BY <1>2, <1>4, <1>6, <2>1 DEF PlaceFits
<1>8. x.at # None
  <2>1. x.at \in Nodes \X Nat
    <3>1. node \in Nodes
      BY <1>1 DEF IsSession
    <3> QED BY <1>2, <3>1
  <2> QED BY <1>1, <2>1, NoneIsNoPlace
<1>9. ASSUME NEW n \in own, NEW k \in DOMAIN templates[n.template].requirements
      PROVE  IsDue(x, n, k) <=> IsDue(old, n, k)
  <2>1. 1 <= k
    BY <1>1, <1>5, RequirementsAre
  <2>2. IsDue(x, n, k) <=> n \in old.todo \ {node} \/ node = n
    BY <1>2, <1>8, <2>1 DEF IsDue
  <2>3. IsDue(old, n, k) <=> n \in old.todo
    BY <1>1 DEF IsDue
  <2> QED BY <1>1, <2>2, <2>3
<1>10. NoneIsMissing(x, own)
  BY <1>3, <1>4, <1>9 DEF NoneIsMissing
<1>11. CountersAreExact(x, own) /\ SessionIsApart(x, Ended \cup {s})
  BY <1>3, <1>4 DEF CountersAreExact, SessionIsApart
<1>12. sessions = [q \in Services |-> sessions[q]]
  BY <1>1 DEF TypeOK
<1> QED BY <1>1, <1>2, <1>3, <1>7, <1>10, <1>11, <1>12, KeptStep DEF old, own

(* A requirement that is not satisfied is reported.                        *)
LEMMA UnsatisfiedIsKept ==
  ASSUME IInv, AcceptedInv, NEW s \in Services, Unsatisfied(s)
  PROVE  AcceptedInv'
<1> DEFINE old == sessions[s]
           own == OwnNodes(s)
<1>1. /\ stage[s] = "satisfying" /\ IsOpen(s) /\ IsSession(old) /\ templates # None /\ TypeOK
      /\ UNCHANGED <<presentation, templates, stage, stored, overlapped>>
      /\ old.at # None
  BY UnsatisfiedIs, UnderWay DEF IInv
<1>2. PICK x : /\ IsSession(x) /\ sessions' = [sessions EXCEPT ![s] = x]
               /\ x.issues = TRUE /\ x.at = After(old.at)
               /\ \A field \in Fields \ {"issues", "satisfied", "at", "occurrences"} :
                     x[field] = old[field]
               /\ DOMAIN old.occurrences \subseteq DOMAIN x.occurrences
               /\ DOMAIN x.occurrences \subseteq
                    DOMAIN old.occurrences \cup Slots(AllOf(old.nodes))
               /\ \A slot \in DOMAIN x.occurrences : x.occurrences[slot] = Occurrences(old, slot)
  BY UnsatisfiedIs, Zenon
<1>3. /\ x.nodes = old.nodes /\ x.made = old.made /\ x.relationships = old.relationships
      /\ x.todo = old.todo
  BY <1>2 DEF Fields
<1>4. /\ PlaceFits(old, own) /\ CountersAreExact(old, own)
      /\ SessionIsApart(old, Ended \cup {s})
  BY <1>1 DEF AcceptedInv, OwnIsKept, OwnIsApart
<1> HIDE DEF own, old
<1>5. PlaceFits(x, own)
  BY <1>1, <1>2, <1>3, <1>4, GoesOn
<1>6. NoneIsMissing(x, own)
  BY <1>2 DEF NoneIsMissing
<1>7. CountersAreExact(x, own)
  BY <1>2, <1>3, <1>4 DEF CountersAreExact, Occurrences
<1>8. SessionIsApart(x, Ended \cup {s})
  <2>1. \A slot \in DOMAIN x.occurrences : slot.node.service \in Ended \cup {s}
    BY <1>1, <1>2, <1>4, CountersAreApart
  <2> QED BY <1>3, <1>4, <2>1 DEF SessionIsApart
<1>9. sessions = [q \in Services |-> sessions[q]]
  BY <1>1 DEF TypeOK
<1> QED BY <1>1, <1>2, <1>3, <1>5, <1>6, <1>7, <1>8, <1>9, KeptStep DEF old, own

(* A requirement that is satisfied is the one that was due next, and gets  *)
(* its only relationship, which its counter counts.                        *)
LEMMA SatisfyIsKept ==
  ASSUME IInv, AcceptedInv, NEW s \in Services, Satisfy(s)
  PROVE  AcceptedInv'
<1> DEFINE old == sessions[s]
           own == OwnNodes(s)
<1>1. /\ stage[s] = "satisfying" /\ IsOpen(s) /\ IsSession(old) /\ templates # None /\ TypeOK
      /\ UNCHANGED <<presentation, templates, stage, stored, overlapped>>
      /\ old.at # None
  BY SatisfyIs, UnderWay DEF IInv
<1>2. PICK x, slot, added : /\ IsSession(x) /\ sessions' = [sessions EXCEPT ![s] = x]
                            /\ Satisfied(old, x, slot, added)
  BY SatisfyIs
<1>3. /\ x.nodes = old.nodes /\ x.made = old.made /\ x.todo = old.todo /\ x.issues = old.issues
      /\ x.at = After(old.at) /\ x.satisfied = TRUE
      /\ x.relationships = Append(old.relationships, added)
      /\ DOMAIN old.occurrences \subseteq DOMAIN x.occurrences
      /\ DOMAIN x.occurrences \subseteq DOMAIN old.occurrences \cup Slots(AllOf(old.nodes))
  BY <1>2 DEF Satisfied, Fields
<1>4. /\ PlaceFits(old, own) /\ NoneIsMissing(old, own) /\ CountersAreExact(old, own)
      /\ SessionIsApart(old, Ended \cup {s})
  BY <1>1 DEF AcceptedInv, OwnIsKept, OwnIsApart
<1>5. own \subseteq Nodes /\ \A n \in own : n.service = s /\ n.template \in Templates
  BY <1>1, OwnNodesAre
<1> HIDE DEF own, old
<1>6. PlaceFits(x, own)
  BY <1>1, <1>3, <1>4, GoesOn
<1>7. /\ old.relationships \in Seq(Ends) /\ added \in Ends
      /\ AllOf(old.nodes) \subseteq Nodes
      /\ old.at[1] \in own \ old.todo
      /\ old.at[2] \in DOMAIN templates[old.at[1].template].requirements
      /\ old.at \in Nodes \X Nat
  BY <1>1, <1>2, <1>4, NodesAre DEF IsSession, Satisfied, PlaceFits
<1>8. x.relationships \in Seq(Ends)
  BY <1>3, <1>7
<1>9. NoneIsMissing(x, own)
  <2> SUFFICES ASSUME ~old.issues, NEW n \in own,
                      NEW k \in DOMAIN templates[n.template].requirements
               PROVE  CountFrom(x.relationships, n, k) = IF IsDue(x, n, k) THEN 0 ELSE 1
    BY <1>3 DEF NoneIsMissing
  <2>1. CountFrom(old.relationships, n, k) = IF IsDue(old, n, k) THEN 0 ELSE 1
    BY <1>4 DEF NoneIsMissing
  <2>2. CountFrom(x.relationships, n, k) =
          IF n = old.at[1] /\ k = old.at[2]
          THEN CountFrom(old.relationships, n, k) + 1 ELSE CountFrom(old.relationships, n, k)
    <3>1. added \in StartsAt(n, k) <=> n = old.at[1] /\ k = old.at[2]
      BY <1>2, <1>7 DEF Satisfied, StartsAt
    <3>2. Cardinality(Places(Append(old.relationships, added), StartsAt(n, k))) =
            IF added \in StartsAt(n, k)
            THEN Cardinality(Places(old.relationships, StartsAt(n, k))) + 1
            ELSE Cardinality(Places(old.relationships, StartsAt(n, k)))
      BY <1>7, OnePlaceMore
    <3>3. /\ CountFrom(x.relationships, n, k) =
               Cardinality(Places(Append(old.relationships, added), StartsAt(n, k)))
          /\ CountFrom(old.relationships, n, k) =
               Cardinality(Places(old.relationships, StartsAt(n, k)))
      BY <1>3, <1>7, <1>8, CountsArePlaces
    <3> QED BY ONLY <3>1, <3>2, <3>3
  <2>3. k \in Nat /\ old.at[2] \in Nat
    BY <1>1, <1>5, <1>7, RequirementsAre
  <2>4. IsDue(old, n, k) <=> n \in old.todo \/ (n = old.at[1] /\ old.at[2] <= k)
    BY <1>1 DEF IsDue
  <2>5. IsDue(x, n, k) <=> n \in old.todo \/ (n = old.at[1] /\ old.at[2] < k)
    <3>1. CASE After(old.at) = None
      <4>1. n = old.at[1] => k <= old.at[2]
        BY <1>1, <1>7, <3>1, AfterFits
      <4> QED BY <1>3, <2>3, <3>1, <4>1 DEF IsDue
    <3>2. CASE After(old.at) # None
      <4>1. After(old.at) = <<old.at[1], old.at[2] + 1>>
        BY <1>1, <1>7, <3>2, AfterFits
      <4>2. x.at # None /\ x.at[1] = old.at[1] /\ x.at[2] = old.at[2] + 1
        BY <1>3, <3>2, <4>1
      <4>3. old.at[2] + 1 <= k <=> old.at[2] < k
        BY <2>3
      <4> QED BY <1>3, <4>2, <4>3 DEF IsDue
    <3> QED BY <3>1, <3>2
  <2>6. CASE n = old.at[1] /\ k = old.at[2]
    <3>1. IsDue(old, n, k) /\ ~IsDue(x, n, k)
      BY <1>7, <2>3, <2>4, <2>5, <2>6
    <3> QED BY <2>1, <2>2, <2>6, <3>1
  <2>7. CASE ~ (n = old.at[1] /\ k = old.at[2])
    <3>1. IsDue(old, n, k) <=> IsDue(x, n, k)
      BY <2>3, <2>4, <2>5, <2>7
    <3> QED BY <2>1, <2>2, <2>7, <3>1
  <2> QED BY <2>6, <2>7
<1>10. CountersAreExact(x, own)
  <2> SUFFICES ASSUME NEW other \in Slots(own)
               PROVE  /\ other \in DOMAIN x.occurrences
                      /\ Count(x.relationships, other) = x.occurrences[other]
    BY DEF CountersAreExact
  <2>1. other \in DOMAIN old.occurrences
        /\ Count(old.relationships, other) = old.occurrences[other]
    BY <1>4 DEF CountersAreExact
  <2>2. other \in DOMAIN x.occurrences
        /\ x.occurrences[other] =
             IF other = slot THEN old.occurrences[other] + 1 ELSE old.occurrences[other]
    BY <1>2, <1>3, <2>1 DEF Satisfied, Occurrences
  <2>3. added \in EndsIn(other) <=> other = slot
    <3>1. other = [node |-> other.node, name |-> other.name]
          /\ slot = [node |-> slot.node, name |-> slot.name]
      BY <1>1, <1>2, <1>5, <1>7, SlotsAre DEF Satisfied
    <3>2. added.target = slot.node /\ added.capability = slot.name
      BY <1>2 DEF Satisfied
    <3> QED BY <1>7, <3>1, <3>2 DEF EndsIn
  <2>4. Cardinality(Places(Append(old.relationships, added), EndsIn(other))) =
          IF added \in EndsIn(other)
          THEN Cardinality(Places(old.relationships, EndsIn(other))) + 1
          ELSE Cardinality(Places(old.relationships, EndsIn(other)))
    BY <1>7, OnePlaceMore
  <2>5. /\ Count(x.relationships, other) =
             Cardinality(Places(Append(old.relationships, added), EndsIn(other)))
        /\ Count(old.relationships, other) =
             Cardinality(Places(old.relationships, EndsIn(other)))
    BY <1>3, <1>7, <1>8, CountsArePlaces
  <2> QED BY ONLY <2>1, <2>2, <2>3, <2>4, <2>5
<1>11. SessionIsApart(x, Ended \cup {s})
  <2>1. \A other \in DOMAIN x.occurrences : other.node.service \in Ended \cup {s}
    BY <1>1, <1>3, <1>4, CountersAreApart
  <2>2. ASSUME NEW r \in ToSet(x.relationships)
        PROVE  {r.source.service, r.target.service} \subseteq Ended \cup {s}
    <3>1. r \in ToSet(old.relationships) \/ r = added
      BY <1>3, <1>7 DEF ToSet
    <3>2. added.source.service = s
      BY <1>2, <1>5, <1>7 DEF Satisfied
    <3>3. added.target \in AllOf(old.nodes)
      BY <1>1, <1>2, <1>7, SlotsAre DEF Satisfied
    <3> QED BY <1>4, <3>1, <3>2, <3>3 DEF SessionIsApart
  <2> QED BY <1>3, <1>4, <2>1, <2>2 DEF SessionIsApart
<1>12. sessions = [q \in Services |-> sessions[q]]
  BY <1>1 DEF TypeOK
<1> QED BY <1>1, <1>2, <1>3, <1>6, <1>9, <1>10, <1>11, <1>12, KeptStep DEF old, own

(* What a session starts from has nothing of a creation that is yet to     *)
(* begin.                                                                  *)
LEMMA StartsApart ==
  ASSUME IInv, AcceptedInv, NEW from \in {None} \cup Reusable
  PROVE  /\ SessionIsApart(StartFrom(from), Ended)
         /\ StartFrom(from).at = None /\ StartFrom(from).satisfied = TRUE
         /\ NodesAreTyped(StartFrom(from).nodes) /\ NodesAreTyped(StartFrom(from).made)
         /\ StartFrom(from).relationships \in Seq(Ends)
<1> DEFINE session == StartFrom(from)
<1>1. IsSession(session)
  BY StartsWell
<1>2. CASE from = None
  <2>1. /\ session.nodes = stored.nodes /\ AllOf(session.made) = {}
        /\ session.relationships = <<>> /\ DOMAIN session.occurrences = {}
        /\ session.at = None /\ session.satisfied = TRUE
    BY <1>2, StartsNew
  <2> HIDE DEF session
  <2>2. ToSet(session.relationships) = {}
    BY <2>1 DEF ToSet
  <2>3. SessionIsApart(session, Ended)
    BY <2>1, <2>2 DEF SessionIsApart, AcceptedInv, OwnIsApart
  <2> QED BY <1>1, <2>1, <2>3 DEF session, IsSession
<1>3. CASE from # None
  <2> DEFINE old == sessions[from]
  <2>1. /\ from \in Reusable /\ IsOpen(from) /\ session.satisfied = TRUE
        /\ \A field \in Fields \ {"carried", "satisfied", "issues"} : session[field] = old[field]
    BY <1>3, StartsAgain
  <2> HIDE DEF session
  <2>2. /\ session.nodes = old.nodes /\ session.made = old.made /\ session.at = old.at
        /\ session.relationships = old.relationships /\ session.occurrences = old.occurrences
    BY <2>1 DEF Fields
  <2>3. from \in Ended
    BY <2>1 DEF Reusable, Ended
  <2>4. SessionIsApart(old, Ended) /\ old.at = None
    <3>1. SessionIsApart(old, Ended \cup {from}) /\ old.at = None
      BY <2>1 DEF AcceptedInv, OwnIsApart, OwnIsKept, Reusable
    <3>2. Ended \cup {from} = Ended
      BY <2>3
    <3> QED BY <3>1, <3>2
  <2>5. SessionIsApart(session, Ended)
    BY <2>2, <2>4 DEF SessionIsApart
  <2> QED BY <1>1, <2>1, <2>2, <2>4, <2>5 DEF session, IsSession
<1> QED BY <1>2, <1>3

(* All requirements of the nodes made are due, and the counters of their   *)
(* capabilities begin at zero, whatever the session has carried over.      *)
LEMMA InstantiateIsKept ==
  ASSUME IInv, AcceptedInv, NEW s \in Services, Instantiate(s)
  PROVE  AcceptedInv'
<1>1. /\ TypeOK /\ templates # None /\ stage[s] = "none"
      /\ stage' = [stage EXCEPT ![s] = "satisfying"]
      /\ presentation' = presentation /\ templates' = templates /\ stored' = stored
  BY DEF IInv, Instantiate
<1>0. PICK from \in {None} \cup Reusable : \E x :
           /\ Extended(StartFrom(from), x, AllInstances(StartFrom(from).nodes, s))
           /\ sessions' = [q \in Services |-> IF q = s THEN x
                                             ELSE IF q = from THEN Closed ELSE sessions[q]]
  BY InstantiateIs
<1>2. PICK x :
           /\ Extended(StartFrom(from), x, AllInstances(StartFrom(from).nodes, s))
           /\ sessions' = [q \in Services |-> IF q = s THEN x
                                             ELSE IF q = from THEN Closed ELSE sessions[q]]
  BY <1>0
<1> DEFINE session == StartFrom(from)
           made == AllInstances(session.nodes, s)
           own == AllOf(made)
<1>3. Extended(session, x, made)
  BY <1>2
<1>4. /\ SessionIsApart(session, Ended) /\ session.at = None /\ session.satisfied = TRUE
      /\ NodesAreTyped(session.nodes) /\ NodesAreTyped(session.made)
      /\ session.relationships \in Seq(Ends)
  BY StartsApart
<1>5. NodesAreTyped(made) /\ own \subseteq Nodes /\ \A n \in own : n.service = s
  BY <1>1, <1>4, NewNodes, NodesAre
<1> HIDE DEF session, made
<1>6. /\ AllOf(x.nodes) = AllOf(session.nodes) \cup own
      /\ AllOf(x.made) = AllOf(session.made) \cup own
  BY <1>3, <1>4, <1>5, JoinedNodes DEF Extended
<1> HIDE DEF own
<1>7. /\ x.occurrences = Over(session.occurrences, [slot \in Slots(own) |-> 0])
      /\ x.todo = {n \in own : templates[n.template].requirements # <<>>}
      /\ x.at = None /\ x.satisfied = TRUE /\ x.relationships = session.relationships
  BY <1>3, <1>4 DEF Extended, own
<1>8. /\ DOMAIN x.occurrences = DOMAIN session.occurrences \cup Slots(own)
      /\ \A slot \in Slots(own) : slot \notin DOMAIN session.occurrences =>
            x.occurrences[slot] = 0
  BY <1>7 DEF Over
<1>9. \A q \in Services : stage'[q] = IF q = s THEN "satisfying" ELSE stage[q]
  BY <1>1 DEF TypeOK
<1>10. Ended' = Ended /\ s \notin Ended
  BY <1>1, <1>9 DEF Ended
<1>11. \A slot \in Slots(own) : slot.node \in own /\ slot.node.service = s
  BY <1>1, <1>5, SlotsAre
<1>12. {n \in AllOf(x.made) : n.service = s} = own
  BY <1>4, <1>5, <1>6, <1>10 DEF SessionIsApart
<1>13. PlaceFits(x, own)
  BY <1>7 DEF PlaceFits
<1>14. NoneIsMissing(x, own)
  <2> SUFFICES ASSUME NEW n \in own, NEW k \in DOMAIN templates[n.template].requirements
               PROVE  CountFrom(x.relationships, n, k) = 0 /\ IsDue(x, n, k)
    BY <1>7 DEF NoneIsMissing
  <2>1. templates[n.template].requirements # <<>>
    OBVIOUS
  <2>2. IsDue(x, n, k)
    BY <1>7, <2>1 DEF IsDue
  <2>3. ToSet(session.relationships) \cap StartsAt(n, k) = {}
    BY <1>4, <1>5, <1>10 DEF SessionIsApart, StartsAt
  <2>4. Cardinality(Places(session.relationships, StartsAt(n, k))) = 0
    BY <1>4, <2>3, PlacesAreFinite
  <2> QED BY <1>4, <1>7, <2>2, <2>4, CountsArePlaces
<1>15. CountersAreExact(x, own)
  <2> SUFFICES ASSUME NEW slot \in Slots(own)
               PROVE  slot \in DOMAIN x.occurrences
                      /\ Count(x.relationships, slot) = x.occurrences[slot]
    BY DEF CountersAreExact
  <2>1. slot \notin DOMAIN session.occurrences
    BY <1>4, <1>10, <1>11 DEF SessionIsApart
  <2>2. ToSet(session.relationships) \cap EndsIn(slot) = {}
    BY <1>4, <1>10, <1>11 DEF SessionIsApart, EndsIn
  <2>3. Cardinality(Places(session.relationships, EndsIn(slot))) = 0
    BY <1>4, <2>2, PlacesAreFinite
  <2> QED BY <1>4, <1>7, <1>8, <2>1, <2>3, CountsArePlaces
<1>16. SessionIsApart(x, Ended \cup {s})
  BY <1>4, <1>5, <1>6, <1>7, <1>8, <1>11 DEF SessionIsApart
<1>17. \A q \in Services : sessions'[q] = IF q = s THEN x
                                          ELSE IF q = from THEN Closed ELSE sessions[q]
  BY <1>2
<1>18. OwnIsApart'
  <2>1. \A q \in Services : sessions'[q] # Closed => SessionIsApart(sessions'[q], Ended \cup {q})
    BY <1>16, <1>17 DEF AcceptedInv, OwnIsApart, IsOpen
  <2>2. /\ \A n \in AllOf(stored.nodes) : n.service \in Ended
        /\ \A r \in ToSet(stored.relationships) : {r.source.service, r.target.service} \subseteq Ended
    BY DEF AcceptedInv, OwnIsApart
  <2> QED BY <1>1, <1>10, <2>1, <2>2 DEF OwnIsApart, IsOpen
<1>19. OwnIsKept'
  <2>1. ASSUME NEW q \in Services, stage'[q] = "satisfying"
        PROVE  /\ PlaceFits(sessions[q], OwnNodes(q))'
               /\ NoneIsMissing(sessions[q], OwnNodes(q))'
               /\ CountersAreExact(sessions[q], OwnNodes(q))'
    <3>1. OwnNodes(q)' = {n \in AllOf(sessions'[q].made) : n.service = q}
      BY DEF OwnNodes, Made
    <3>2. CASE q = s
      <4>1. sessions'[q] = x /\ OwnNodes(q)' = own
        BY <1>12, <1>17, <3>1, <3>2
      <4> QED BY <1>1, <1>13, <1>14, <1>15, <4>1, KeptStay
    <3>3. CASE q # s
      <4>1. stage[q] = "satisfying" /\ sessions'[q] = sessions[q]
        BY <1>9, <1>17, <2>1, <3>3, ServicesAssumption DEF Reusable
      <4>2. OwnNodes(q)' = OwnNodes(q)
        BY <3>1, <4>1 DEF OwnNodes, Made
      <4>3. /\ PlaceFits(sessions[q], OwnNodes(q)) /\ NoneIsMissing(sessions[q], OwnNodes(q))
            /\ CountersAreExact(sessions[q], OwnNodes(q))
        BY <4>1 DEF AcceptedInv, OwnIsKept
      <4> QED BY <1>1, <4>1, <4>2, <4>3, KeptStay
    <3> QED BY <3>2, <3>3
  <2>2. \A q \in Services : stage'[q] = "rejected" /\ sessions'[q] # Closed => sessions'[q].at = None
    BY <1>9, <1>17 DEF AcceptedInv, OwnIsKept, Reusable
  <2> QED BY <2>1, <2>2 DEF OwnIsKept, Reusable
<1> QED BY <1>18, <1>19 DEF AcceptedInv

(* A step that ends creations, closes sessions or does neither keeps the   *)
(* sessions of the creations that go on, if what is stored is of ended     *)
(* ones.                                                                   *)
LEMMA OthersAreKept ==
  ASSUME AcceptedInv, templates' = templates, Ended \subseteq Ended',
         \A n \in AllOf(stored'.nodes) : n.service \in Ended',
         \A r \in ToSet(stored'.relationships) :
            {r.source.service, r.target.service} \subseteq Ended',
         \A q \in Services : sessions'[q] # Closed => sessions'[q] = sessions[q],
         \A q \in Services : stage'[q] = "satisfying" =>
            stage[q] = "satisfying" /\ sessions'[q] = sessions[q],
         \A q \in Services : stage'[q] = "rejected" /\ sessions'[q] # Closed =>
            sessions[q].at = None
  PROVE  AcceptedInv'
<1>1. OwnIsApart'
  <2>1. ASSUME NEW q \in Services, sessions'[q] # Closed
        PROVE  SessionIsApart(sessions'[q], Ended' \cup {q})
    <3>1. SessionIsApart(sessions[q], Ended \cup {q}) /\ sessions'[q] = sessions[q]
      BY <2>1 DEF AcceptedInv, OwnIsApart, IsOpen
    <3>2. Ended \cup {q} \subseteq Ended' \cup {q}
      OBVIOUS
    <3> QED BY <3>1, <3>2, ApartOfMore
  <2> QED BY <2>1 DEF OwnIsApart, IsOpen
<1>2. ASSUME NEW q \in Services, stage'[q] = "satisfying"
      PROVE  /\ PlaceFits(sessions[q], OwnNodes(q))'
             /\ NoneIsMissing(sessions[q], OwnNodes(q))'
             /\ CountersAreExact(sessions[q], OwnNodes(q))'
  <2>1. stage[q] = "satisfying" /\ sessions'[q] = sessions[q]
    BY <1>2
  <2>2. OwnNodes(q)' = OwnNodes(q)
    BY <2>1 DEF OwnNodes, Made
  <2>3. /\ PlaceFits(sessions[q], OwnNodes(q)) /\ NoneIsMissing(sessions[q], OwnNodes(q))
        /\ CountersAreExact(sessions[q], OwnNodes(q))
    BY <2>1 DEF AcceptedInv, OwnIsKept
  <2> QED BY <2>1, <2>2, <2>3, KeptStay
<1>3. OwnIsKept'
  BY <1>2 DEF OwnIsKept, Reusable
<1> QED BY <1>1, <1>3 DEF AcceptedInv

(* What an accepted creation stores behind what is stored.                 *)
LEMMA AcceptIs ==
  ASSUME IInv, NEW s \in Services, Accept(s)
  PROVE  /\ stored.relationships \in Seq(Ends) /\ sessions[s].relationships \in Seq(Ends)
         /\ stored'.relationships = stored.relationships \o sessions[s].relationships
         /\ AllOf(stored'.nodes) = AllOf(stored.nodes) \cup AllOf(sessions[s].made)
         /\ ToSet(stored'.relationships) =
              ToSet(stored.relationships) \cup ToSet(sessions[s].relationships)
<1>1. stored'.nodes = Joined(stored.nodes, sessions[s].made)
      /\ stored'.relationships = stored.relationships \o sessions[s].relationships
  BY DEF Accept, Relationships
<1>2. IsSession(sessions[s]) /\ IsStorage(stored)
  BY UnderWay DEF IInv, TypeOK, Accept, IsThrough
<1>3. /\ NodesAreTyped(stored.nodes) /\ NodesAreTyped(sessions[s].made)
      /\ stored.relationships \in Seq(Ends) /\ sessions[s].relationships \in Seq(Ends)
  BY <1>2 DEF IsStorage, IsSession
<1> QED BY <1>1, <1>3, JoinedNodes, JoinedMembers

(* What is stored is of this service and of those that had ended.          *)
LEMMA AcceptIsKept ==
  ASSUME IInv, AcceptedInv, NEW s \in Services, Accept(s)
  PROVE  AcceptedInv'
<1>1. /\ TypeOK /\ IsOpen(s) /\ stage[s] = "satisfying" /\ templates' = templates
      /\ sessions' = [sessions EXCEPT ![s] = Closed]
      /\ stage' = [q \in Services |-> IF q \in {s} THEN "stored"
                                      ELSE IF q \in sessions[s].carried THEN "leftover" ELSE stage[q]]
  BY UnderWay DEF IInv, Accept, IsThrough
<1>2. \A q \in Services : sessions'[q] = IF q = s THEN Closed ELSE sessions[q]
  BY <1>1 DEF TypeOK
<1>3. Ended \cup {s} \subseteq Ended'
  BY <1>1 DEF Ended
<1>4. SessionIsApart(sessions[s], Ended \cup {s})
  BY <1>1 DEF AcceptedInv, OwnIsApart
<1>5. \A n \in AllOf(stored'.nodes) : n.service \in Ended \cup {s}
  <2>1. AllOf(stored'.nodes) = AllOf(stored.nodes) \cup AllOf(sessions[s].made)
    BY AcceptIs
  <2>2. \A n \in AllOf(stored.nodes) : n.service \in Ended
    BY DEF AcceptedInv, OwnIsApart
  <2>3. \A n \in AllOf(sessions[s].made) : n.service \in Ended \cup {s}
    BY <1>4 DEF SessionIsApart
  <2> QED BY ONLY <2>1, <2>2, <2>3
<1>6. \A r \in ToSet(stored'.relationships) :
         {r.source.service, r.target.service} \subseteq Ended \cup {s}
  <2>1. ToSet(stored'.relationships) =
          ToSet(stored.relationships) \cup ToSet(sessions[s].relationships)
    BY AcceptIs
  <2>2. \A r \in ToSet(stored.relationships) :
           {r.source.service, r.target.service} \subseteq Ended
    BY DEF AcceptedInv, OwnIsApart
  <2>3. \A r \in ToSet(sessions[s].relationships) :
           {r.source.service, r.target.service} \subseteq Ended \cup {s}
    BY <1>4 DEF SessionIsApart
  <2> QED BY ONLY <2>1, <2>2, <2>3
<1>7. \A q \in Services : stage'[q] = "satisfying" =>
         stage[q] = "satisfying" /\ sessions'[q] = sessions[q]
  BY <1>1, <1>2
<1>8. \A q \in Services : stage'[q] = "rejected" /\ sessions'[q] # Closed =>
         sessions[q].at = None
  BY <1>1, <1>2 DEF AcceptedInv, OwnIsKept, Reusable
<1> QED BY <1>1, <1>2, <1>3, <1>5, <1>6, <1>7, <1>8, OthersAreKept

(* A rejected creation has come to no requirement it could go on with.     *)
LEMMA RejectIsKept ==
  ASSUME IInv, AcceptedInv, NEW s \in Services, Reject(s)
  PROVE  AcceptedInv'
<1>1. /\ TypeOK /\ sessions[s].at = None /\ stage' = [stage EXCEPT ![s] = "rejected"]
      /\ templates' = templates /\ sessions' = sessions /\ stored' = stored
  BY DEF IInv, Reject, IsThrough
<1>2. \A q \in Services : stage'[q] = IF q = s THEN "rejected" ELSE stage[q]
  BY <1>1 DEF TypeOK
<1>3. Ended \subseteq Ended'
  BY <1>2 DEF Ended
<1>4. /\ \A n \in AllOf(stored'.nodes) : n.service \in Ended'
      /\ \A r \in ToSet(stored'.relationships) : {r.source.service, r.target.service} \subseteq Ended'
  BY <1>1, <1>3 DEF AcceptedInv, OwnIsApart
<1>5. \A q \in Services : stage'[q] = "rejected" /\ sessions'[q] # Closed => sessions[q].at = None
  BY <1>1, <1>2 DEF AcceptedInv, OwnIsKept, Reusable
<1> QED BY <1>1, <1>2, <1>3, <1>4, <1>5, OthersAreKept

(* Nothing else depends on the session of a rejected creation.             *)
LEMMA ExitIsKept ==
  ASSUME IInv, AcceptedInv, NEW s \in Services, Exit(s)
  PROVE  AcceptedInv'
<1>1. /\ TypeOK /\ stage[s] = "rejected" /\ sessions' = [sessions EXCEPT ![s] = Closed]
      /\ templates' = templates /\ stage' = stage /\ stored' = stored
  BY DEF IInv, Exit, Reusable
<1>2. \A q \in Services : sessions'[q] = IF q = s THEN Closed ELSE sessions[q]
  BY <1>1 DEF TypeOK
<1>3. Ended' = Ended
  BY <1>1 DEF Ended
<1>4. /\ \A n \in AllOf(stored'.nodes) : n.service \in Ended'
      /\ \A r \in ToSet(stored'.relationships) : {r.source.service, r.target.service} \subseteq Ended'
  BY <1>1, <1>3 DEF AcceptedInv, OwnIsApart
<1>5. \A q \in Services : stage'[q] = "rejected" /\ sessions'[q] # Closed => sessions[q].at = None
  BY <1>1, <1>2 DEF AcceptedInv, OwnIsKept, Reusable
<1> QED BY <1>1, <1>2, <1>3, <1>4, <1>5, OthersAreKept

(* No creation is under way when a service is deleted.                     *)
LEMMA DeleteServiceIsKept ==
  ASSUME IInv, AcceptedInv, NEW s \in Services, DeleteService(s)
  PROVE  AcceptedInv'
<1>1. /\ TypeOK /\ StagesFit /\ stage' = [stage EXCEPT ![s] = "deleted"]
      /\ templates' = templates /\ sessions' = sessions
      /\ \A q \in Services : sessions[q] = Closed
  BY DEF IInv, DeleteService
<1>2. \A q \in Services : stage'[q] = IF q = s THEN "deleted" ELSE stage[q]
  BY <1>1 DEF TypeOK
<1>3. Ended \subseteq Ended'
  BY <1>2 DEF Ended
<1>4. \E kept, related :
         /\ stored'.nodes = [t \in DOMAIN stored.nodes |-> Remaining(stored.nodes[t], kept)]
         /\ stored'.relationships = Remaining(stored.relationships, related)
  BY DEF DeleteService
<1>5. AllOf(stored'.nodes) \subseteq AllOf(stored.nodes)
      /\ ToSet(stored'.relationships) \subseteq ToSet(stored.relationships)
  <2>1. NodesAreTyped(stored.nodes) /\ stored.relationships \in Seq(Ends)
    BY <1>1 DEF TypeOK, IsStorage
  <2>2. PICK kept, related :
           /\ stored'.nodes = [t \in DOMAIN stored.nodes |-> Remaining(stored.nodes[t], kept)]
           /\ stored'.relationships = Remaining(stored.relationships, related)
    BY <1>4
  <2>3. ASSUME NEW t \in Templates
        PROVE  ToSet(Remaining(stored.nodes[t], kept)) \subseteq ToSet(stored.nodes[t])
    <3>1. stored.nodes[t] \in Seq(Nodes)
      BY <2>1 DEF NodesAreTyped
    <3> QED BY <3>1, WhatRemains
  <2>4. DOMAIN stored.nodes = Templates
    BY <2>1 DEF NodesAreTyped
  <2>5. AllOf(stored'.nodes) \subseteq AllOf(stored.nodes)
    BY <2>2, <2>3, <2>4 DEF AllOf
  <2> QED BY <2>1, <2>2, <2>5, WhatRemains
<1>6. /\ \A n \in AllOf(stored'.nodes) : n.service \in Ended'
      /\ \A r \in ToSet(stored'.relationships) : {r.source.service, r.target.service} \subseteq Ended'
  BY <1>3, <1>5 DEF AcceptedInv, OwnIsApart
<1>7. \A q \in Services : stage'[q] # "satisfying"
  BY <1>1, <1>2 DEF StagesFit, IsOpen
<1> QED BY <1>1, <1>3, <1>6, <1>7, OthersAreKept

(* Before the template is there, no creation has begun.                    *)
LEMMA ParseIsKept ==
  ASSUME IInv, AcceptedInv, Parse
  PROVE  AcceptedInv'
<1>1. /\ StagesFit /\ templates = None
      /\ stage' = stage /\ sessions' = sessions /\ stored' = stored
  BY DEF IInv, Parse
<1>2. \A s \in Services : stage[s] = "none"
  BY <1>1 DEF StagesFit
<1>3. Ended' = Ended
  BY <1>1 DEF Ended
<1>4. OwnIsApart'
  BY <1>1, <1>3 DEF AcceptedInv, OwnIsApart, IsOpen
<1>5. OwnIsKept'
  BY <1>1, <1>2 DEF OwnIsKept, Reusable
<1> QED BY <1>4, <1>5 DEF AcceptedInv

(* Only accepting a service stores it.                                     *)
LEMMA OnlyAcceptStores ==
  ASSUME IInv, [Next]_vars, NEW s \in Services, Stores(s)
  PROVE  Accept(s)
<1>1. stage \in [Services -> {"none", "satisfying", "stored", "rejected", "leftover", "deleted"}]
      /\ stage[s] = "satisfying" /\ stage'[s] = "stored"
  BY DEF IInv, TypeOK, Stores
<1>2. stage' # stage
  BY <1>1
<1>3. ~Parse /\ ~UNCHANGED vars
  BY <1>2 DEF Parse, vars
<1>4. PICK q \in Services :
        \/ Instantiate(q) \/ \E node \in Todo(q) : NextNode(q, node)
        \/ Unsatisfied(q) \/ Satisfy(q) \/ Accept(q) \/ Reject(q) \/ Exit(q)
        \/ DeleteService(q)
  BY <1>3 DEF Next
<1>5. ~ \E node \in Todo(q) : NextNode(q, node)
  BY <1>2 DEF NextNode
<1>6. ~Unsatisfied(q) /\ ~Satisfy(q) /\ ~Exit(q)
  BY <1>2 DEF Unsatisfied, Satisfy, Exit
<1>7. ~Instantiate(q) /\ ~Reject(q) /\ ~DeleteService(q)
  <2>1. \A value : stage' = [stage EXCEPT ![q] = value] => stage'[s] = value \/ stage'[s] = stage[s]
    BY <1>1
  <2>2. Instantiate(q) => stage' = [stage EXCEPT ![q] = "satisfying"]
    BY DEF Instantiate
  <2>3. Reject(q) => stage' = [stage EXCEPT ![q] = "rejected"]
    BY DEF Reject
  <2>4. DeleteService(q) => stage' = [stage EXCEPT ![q] = "deleted"]
    BY DEF DeleteService
  <2> QED BY <1>1, <2>1, <2>2, <2>3, <2>4
<1>8. Accept(q)
  BY <1>4, <1>5, <1>6, <1>7
<1>9. q = s
  <2>1. stage' = [p \in Services |-> IF p \in {q} THEN "stored"
                                     ELSE IF p \in sessions[q].carried THEN "leftover" ELSE stage[p]]
    BY <1>8 DEF Accept
  <2> QED BY <1>1, <2>1
<1> QED BY <1>8, <1>9

(* What is stored of an accepted service is what its session has made, and *)
(* nothing else that is stored begins or ends there.                       *)
LEMMA AcceptIsComplete ==
  ASSUME IInv, AcceptedInv, NEW s \in Services, Accept(s)
  PROVE  IsComplete(s)'
<1> DEFINE old == sessions[s]
           own == OwnNodes(s)
<1>1. /\ stage[s] = "satisfying" /\ IsOpen(s) /\ templates # None /\ TypeOK
      /\ templates' = templates
      /\ old.at = None /\ (old.todo = {} \/ ~old.satisfied) /\ ~old.issues
      /\ \A slot \in Slots(own) : HasEnough(old, slot)
  BY UnderWay DEF Accept, IsThrough, IsAccepted, IInv
<1>2. NoneIsMissing(old, own) /\ CountersAreExact(old, own)
  BY <1>1 DEF AcceptedInv, OwnIsKept
<1>3. own \subseteq Nodes /\ \A n \in own : n.service = s
  BY <1>1, OwnNodesAre
<1>4. /\ stored.relationships \in Seq(Ends) /\ old.relationships \in Seq(Ends)
      /\ stored'.relationships = stored.relationships \o old.relationships
      /\ AllOf(stored'.nodes) = AllOf(stored.nodes) \cup AllOf(old.made)
  BY AcceptIs
<1>5. /\ s \notin Ended
      /\ \A n \in AllOf(stored.nodes) : n.service \in Ended
      /\ \A r \in ToSet(stored.relationships) : r.source.service \in Ended /\ r.target.service \in Ended
  BY <1>1 DEF AcceptedInv, OwnIsApart, Ended
<1>6. StoredNodes(s)' = own
  <2>1. StoredNodes(s)' = {n \in AllOf(stored'.nodes) : n.service = s}
    BY DEF StoredNodes
  <2>2. own = {n \in AllOf(old.made) : n.service = s}
    BY DEF OwnNodes, Made
  <2> QED BY <1>4, <1>5, <2>1, <2>2
<1> HIDE DEF own, old
<1>7. stored'.relationships \in Seq(Ends)
  BY <1>4
<1>8. ASSUME NEW n \in own, NEW k \in DOMAIN templates[n.template].requirements
      PROVE  Cardinality(BySource(n, k)') = 1
  <2>1. Cardinality(BySource(n, k)') = CountFrom(stored'.relationships, n, k)
    BY DEF BySource, CountFrom
  <2>2. ToSet(stored.relationships) \cap StartsAt(n, k) = {}
    BY <1>3, <1>5 DEF StartsAt
  <2>3. Cardinality(Places(stored.relationships \o old.relationships, StartsAt(n, k))) =
          Cardinality(Places(old.relationships, StartsAt(n, k)))
    BY <1>4, <2>2, PlacesBehind
  <2>4. CountFrom(stored'.relationships, n, k) = CountFrom(old.relationships, n, k)
    <3>1. CountFrom(stored'.relationships, n, k) =
            Cardinality(Places(stored'.relationships, StartsAt(n, k)))
      BY <1>7, CountsArePlaces
    <3>2. CountFrom(old.relationships, n, k) =
            Cardinality(Places(old.relationships, StartsAt(n, k)))
      BY <1>4, CountsArePlaces
    <3>3. stored'.relationships = stored.relationships \o old.relationships
      BY <1>4
    <3> QED BY ONLY <2>3, <3>1, <3>2, <3>3
  <2>5. old.todo = {} /\ CountFrom(old.relationships, n, k) = IF IsDue(old, n, k) THEN 0 ELSE 1
    BY <1>1, <1>2 DEF NoneIsMissing
  <2>6. ~IsDue(old, n, k)
    BY <1>1, <2>5 DEF IsDue
  <2> QED BY <2>1, <2>4, <2>5, <2>6
<1>9. ASSUME NEW slot \in Slots(own)
      PROVE  Cardinality(ByTarget(slot)') >= SlotTemplate(slot).min
  <2>1. Cardinality(ByTarget(slot)') = Count(stored'.relationships, slot)
    BY DEF ByTarget, Count
  <2>2. slot.node \in own
    BY <1>1, <1>3, SlotsAre
  <2>3. ToSet(stored.relationships) \cap EndsIn(slot) = {}
    BY <1>3, <1>5, <2>2 DEF EndsIn
  <2>4. Cardinality(Places(stored.relationships \o old.relationships, EndsIn(slot))) =
          Cardinality(Places(old.relationships, EndsIn(slot)))
    BY <1>4, <2>3, PlacesBehind
  <2>5. Count(stored'.relationships, slot) = Count(old.relationships, slot)
    <3>1. Count(stored'.relationships, slot) =
            Cardinality(Places(stored'.relationships, EndsIn(slot)))
      BY <1>7, CountsArePlaces
    <3>2. Count(old.relationships, slot) = Cardinality(Places(old.relationships, EndsIn(slot)))
      BY <1>4, CountsArePlaces
    <3>3. stored'.relationships = stored.relationships \o old.relationships
      BY <1>4
    <3> QED BY ONLY <2>4, <3>1, <3>2, <3>3
  <2>6. Count(old.relationships, slot) >= SlotTemplate(slot).min
    BY <1>1, <1>2 DEF CountersAreExact, HasEnough, Occurrences
  <2> QED BY <2>1, <2>5, <2>6
<1>10. \A slot : SlotTemplate(slot)' = SlotTemplate(slot)
  BY <1>1, SlotsStay
<1>11. Slots(StoredNodes(s))' = Slots(own)
  <2>1. \A nodes : Slots(nodes)' = Slots(nodes)
    BY <1>1, SlotsStay
  <2> QED BY <1>6, <2>1
<1> QED BY <1>1, <1>6, <1>8, <1>9, <1>10, <1>11 DEF IsComplete

-----------------------------------------------------------------------------
(* The theorems.                                                           *)

(* The invariant holds from the start and no step of any creation, nor a   *)
(* deletion, breaks it.                                                    *)
THEOREM Invariance == Spec => []IInv
<1>1. ASSUME Init
      PROVE  IInv
  <2>1. /\ stored = [services |-> {}, nodes |-> NoNodes, relationships |-> <<>>,
                     occurrences |-> [slot \in {} |-> 0], hosts |-> [node \in {} |-> None]]
        /\ stage = [s \in Services |-> "none"] /\ sessions = [s \in Services |-> Closed]
        /\ presentation \in Presentations /\ templates = None /\ overlapped = FALSE
    BY <1>1 DEF Init
  <2>2. NodesAreTyped(NoNodes) /\ AllOf(NoNodes) = {}
    <3>1. NoNodes = [t \in Templates |-> <<>>]
      BY DEF NoNodes, Templates
    <3> QED BY <3>1 DEF NodesAreTyped, AllOf, ToSet
  <2>3. \A s \in Services : sessions[s] = Closed
    BY <2>1
  <2>4. TypeOK
    <3>1. <<>> \in Seq(Ends)
      OBVIOUS
    <3>2. IsStorage(stored)
      BY <2>1, <2>2, <3>1 DEF IsStorage
    <3> QED BY <2>1, <2>3, <3>2 DEF TypeOK
  <2>5. StagesFit
    BY <2>1, <2>3 DEF StagesFit, IsOpen
  <2>6. OneIsOpen /\ SessionsCount
    BY <2>3 DEF OneIsOpen, SessionsCount, IsOpen
  <2>7. DOMAIN stored.occurrences = {} /\ ToSet(stored.relationships) = {}
    BY <2>1 DEF ToSet
  <2>8. NodesHaveBegun
    BY <2>1, <2>2, <2>3, <2>7 DEF NodesHaveBegun, IsOpen
  <2>9. StoredCount
    BY <2>1, <2>2, <2>7 DEF StoredCount, Slots, Bounded
  <2> QED BY <2>4, <2>5, <2>6, <2>8, <2>9 DEF IInv
<1>2. ASSUME IInv, [Next]_vars
      PROVE  IInv'
  <2>1. CASE Parse
    BY <1>2, <2>1, ParseKeeps
  <2>2. ASSUME NEW s \in Services,
               \/ Instantiate(s) \/ \E node \in Todo(s) : NextNode(s, node)
               \/ Unsatisfied(s) \/ Satisfy(s) \/ Accept(s) \/ Reject(s) \/ Exit(s)
               \/ DeleteService(s)
        PROVE  IInv'
    <3>1. CASE Instantiate(s)
      BY <1>2, <3>1, InstantiateKeeps
    <3>2. CASE \E node \in Todo(s) : NextNode(s, node)
      BY <1>2, <3>2, NextNodeKeeps
    <3>3. CASE Unsatisfied(s)
      BY <1>2, <3>3, UnsatisfiedKeeps
    <3>4. CASE Satisfy(s)
      BY <1>2, <3>4, SatisfyKeeps
    <3>5. CASE Accept(s)
      BY <1>2, <3>5, AcceptKeeps
    <3>6. CASE Reject(s)
      BY <1>2, <3>6, RejectKeeps
    <3>7. CASE Exit(s)
      BY <1>2, <3>7, ExitKeeps
    <3>8. CASE DeleteService(s)
      BY <1>2, <3>8, DeleteServiceKeeps
    <3> QED BY <2>2, <3>1, <3>2, <3>3, <3>4, <3>5, <3>6, <3>7, <3>8
  <2>3. CASE UNCHANGED vars
    <3>1. /\ presentation' = presentation /\ templates' = templates /\ stage' = stage
          /\ sessions' = sessions /\ stored' = stored /\ overlapped' = overlapped
      BY <2>3 DEF vars
    <3>2. TypeOK'
      <4>1. IsStorage(stored)' /\ \A s \in Services : sessions[s] # Closed => IsSession(sessions[s])'
        BY <1>2, <3>1, TypesStay DEF IInv, TypeOK
      <4> QED BY <1>2, <3>1, <4>1 DEF IInv, TypeOK
    <3>3. StagesFit' /\ OneIsOpen' /\ NodesHaveBegun'
      BY <1>2, <3>1 DEF IInv, StagesFit, OneIsOpen, NodesHaveBegun, HasBegun, IsOpen
    <3>4. StoredCount'
      BY <1>2, <3>1, SlotsStay DEF IInv, StoredCount
    <3>5. SessionsCount'
      BY <1>2, <3>1, SlotsStay DEF IInv, SessionsCount, Occurrences, Made, Relationships, IsOpen
    <3> QED BY <3>2, <3>3, <3>4, <3>5 DEF IInv
  <2> QED BY <1>2, <2>1, <2>2, <2>3 DEF Next
<1> QED BY <1>1, <1>2, PTL DEF Spec

(* Nodes, relationships and counters are what they are declared to be, in  *)
(* the storage and in every session.                                       *)
THEOREM TypeCorrect == Spec => []TypeOK
<1>1. IInv => TypeOK
  BY DEF IInv
<1> QED BY <1>1, Invariance, PTL

(* No capability takes more relationships than its template allows, and    *)
(* its counter is never behind them, while sessions do not overlap.        *)
THEOREM CapacityIsKept == Spec => []CapacityHolds
<1>1. ASSUME IInv
      PROVE  CapacityHolds
  <2>1. \A slot : Cardinality(ByTarget(slot)) = Count(stored.relationships, slot)
    BY DEF ByTarget, Count
  <2> QED BY <1>1, <2>1 DEF IInv, StoredCount, CapacityHolds, Bounded
<1> QED BY <1>1, Invariance, PTL

(* While a creation is under way, its requirements that are no longer due  *)
(* have one relationship each, its counters are exact, and its nodes are   *)
(* known to no other.                                                      *)
THEOREM AcceptedInvariance == Spec => []AcceptedInv
<1>1. ASSUME Init
      PROVE  AcceptedInv
  <2>1. /\ stage = [s \in Services |-> "none"] /\ sessions = [s \in Services |-> Closed]
        /\ stored.nodes = NoNodes /\ stored.relationships = <<>>
    BY <1>1 DEF Init
  <2>2. AllOf(NoNodes) = {}
    BY StartsNew
  <2>3. AllOf(stored.nodes) = {} /\ ToSet(stored.relationships) = {}
    BY <2>1, <2>2 DEF ToSet
  <2>4. OwnIsApart
    BY <2>1, <2>3 DEF OwnIsApart, IsOpen
  <2>5. OwnIsKept
    BY <2>1 DEF OwnIsKept, Reusable
  <2> QED BY <2>4, <2>5 DEF AcceptedInv
<1>2. ASSUME IInv, AcceptedInv, [Next]_vars
      PROVE  AcceptedInv'
  <2>1. CASE Parse
    BY <1>2, <2>1, ParseIsKept
  <2>2. ASSUME NEW s \in Services,
               \/ Instantiate(s) \/ \E node \in Todo(s) : NextNode(s, node)
               \/ Unsatisfied(s) \/ Satisfy(s) \/ Accept(s) \/ Reject(s) \/ Exit(s)
               \/ DeleteService(s)
        PROVE  AcceptedInv'
    <3>1. CASE Instantiate(s)
      BY <1>2, <3>1, InstantiateIsKept
    <3>2. CASE \E node \in Todo(s) : NextNode(s, node)
      BY <1>2, <3>2, NextNodeIsKept
    <3>3. CASE Unsatisfied(s)
      BY <1>2, <3>3, UnsatisfiedIsKept
    <3>4. CASE Satisfy(s)
      BY <1>2, <3>4, SatisfyIsKept
    <3>5. CASE Accept(s)
      BY <1>2, <3>5, AcceptIsKept
    <3>6. CASE Reject(s)
      BY <1>2, <3>6, RejectIsKept
    <3>7. CASE Exit(s)
      BY <1>2, <3>7, ExitIsKept
    <3>8. CASE DeleteService(s)
      BY <1>2, <3>8, DeleteServiceIsKept
    <3> QED BY <2>2, <3>1, <3>2, <3>3, <3>4, <3>5, <3>6, <3>7, <3>8
  <2>3. CASE UNCHANGED vars
    <3>1. templates' = templates /\ stage' = stage /\ sessions' = sessions /\ stored' = stored
      BY <2>3 DEF vars
    <3>2. Ended' = Ended
      BY <3>1 DEF Ended
    <3>3. /\ \A n \in AllOf(stored'.nodes) : n.service \in Ended'
          /\ \A r \in ToSet(stored'.relationships) :
                {r.source.service, r.target.service} \subseteq Ended'
      BY <1>2, <3>1, <3>2 DEF AcceptedInv, OwnIsApart
    <3>4. \A q \in Services : stage[q] = "rejected" /\ sessions[q] # Closed =>
             sessions[q].at = None
      BY <1>2 DEF AcceptedInv, OwnIsKept, Reusable
    <3> QED BY <1>2, <3>1, <3>2, <3>3, <3>4, OthersAreKept
  <2> QED BY <1>2, <2>1, <2>2, <2>3 DEF Next
<1> QED BY <1>1, <1>2, Invariance, PTL DEF Spec

(* A service is accepted only when each requirement of its nodes has its   *)
(* relationship and each capability as many as it must have, whatever a    *)
(* session has carried over from a rejected service and whatever others    *)
(* create meanwhile.                                                       *)
THEOREM AcceptedServicesAreComplete == Spec => AcceptedIsComplete
<1>1. IInv /\ AcceptedInv /\ [Next]_vars => [\A s \in Services : Stores(s) => IsComplete(s)']_vars
  BY OnlyAcceptStores, AcceptIsComplete
<1> QED BY <1>1, Invariance, AcceptedInvariance, PTL DEF Spec, AcceptedIsComplete
=============================================================================
