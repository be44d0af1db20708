---------------------------- MODULE EmpathyProofs ----------------------------
(***************************************************************************)
(* Counting copies never rules out what a card is: the team's view and our *)
(* own view of every card drawn keep its true identity, for every deck,    *)
(* number of players and sequence of moves.                                *)
(***************************************************************************)
EXTENDS Empathy, FiniteSetTheorems, TLAPS

\* The deck was dealt from its physical cards.
DealtFrom == \E f \in Bijection(Orders, Copies(Ids)) : card = [o \in Orders |-> f[o][1]]

\* An interval from 1 has as many members as its end says.
LEMMA CountInterval ==
  ASSUME NEW n \in Nat
  PROVE  IsFiniteSet(1 .. n) /\ Cardinality(1 .. n) = n
<1>1. 1 \in Int /\ n \in Int
  OBVIOUS
<1>2. /\ IsFiniteSet(1 .. n)
      /\ Cardinality(1 .. n) = IF 1 > n THEN 0 ELSE n - 1 + 1
  BY <1>1, FS_Interval, Zenon
<1> QED BY <1>2

\* The copies of finitely many identities are finitely many.
LEMMA CopiesFinite ==
  ASSUME NEW I \in SUBSET Ids
  PROVE  IsFiniteSet(Copies(I)) /\ multiplicity(I) \in Nat
<1> DEFINE F == [id \in I |-> {id} \X (1 .. CardCount[id])]
           T == {{id} \X (1 .. CardCount[id]) : id \in I}
<1>1. IsFiniteSet(I)
  BY EmpathyAssumption, FS_Subset
<1>2. F \in Surjection(I, T)
  BY DEF Surjection
<1>3. IsFiniteSet(T)
  <2> HIDE DEF F, T
  <2> QED BY <1>1, <1>2, FS_Surjection
<1>4. \A t \in T : IsFiniteSet(t)
  <2> SUFFICES ASSUME NEW id \in I PROVE IsFiniteSet({id} \X (1 .. CardCount[id]))
    OBVIOUS
  <2>1. IsFiniteSet(1 .. CardCount[id])
    BY EmpathyAssumption, CountInterval
  <2>2. IsFiniteSet({id}) /\ IsFiniteSet(1 .. CardCount[id])
    BY <2>1, FS_Singleton, Zenon
  <2> QED BY <2>2, FS_Product
<1>5. IsFiniteSet(UNION T)
  <2> HIDE DEF T
  <2> QED BY <1>3, <1>4, FS_UNION
<1>6. IsFiniteSet(Copies(I))
  BY <1>5 DEF Copies
<1> QED BY <1>6, FS_CardinalityType DEF multiplicity

\* An identity alone has card_count copies.
LEMMA CopiesOfOne ==
  ASSUME NEW id \in Ids
  PROVE  multiplicity({id}) = CardCount[id]
<1>1. CardCount[id] \in Nat
  BY EmpathyAssumption
<1>2. Copies({id}) = {id} \X (1 .. CardCount[id])
  BY DEF Copies
<1>3. IsFiniteSet({id}) /\ Cardinality({id}) = 1
  BY FS_Singleton, Zenon
<1>4. IsFiniteSet(1 .. CardCount[id]) /\ Cardinality(1 .. CardCount[id]) = CardCount[id]
  BY <1>1, CountInterval
<1>5. Cardinality({id} \X (1 .. CardCount[id])) = Cardinality({id}) * Cardinality(1 .. CardCount[id])
  BY <1>3, <1>4, FS_Product, Zenon
<1>6. 1 * CardCount[id] = CardCount[id]
  BY <1>1
<1>7. Cardinality(Copies({id})) = CardCount[id]
  BY <1>2, <1>3, <1>4, <1>5, <1>6, Zenon
<1> QED BY <1>7, Zenon DEF multiplicity

\* There are finitely many cards.
LEMMA OrdersFinite ==
  IsFiniteSet(Orders) /\ Orders \subseteq Nat /\ Cardinality(Orders) = multiplicity(Ids)
BY CopiesFinite, FS_Interval DEF Orders

\* As many cards as there are copies of some identities, all with those
\* identities: no other card has one of them.
LEMMA AllCopies ==
  ASSUME DealtFrom, NEW I \in SUBSET Ids, NEW X \in SUBSET Orders,
         \A o \in X : card[o] \in I, Cardinality(X) = multiplicity(I)
  PROVE  \A o \in Orders : card[o] \in I => o \in X
<1>1. PICK f \in Bijection(Orders, Copies(Ids)) : card = [o \in Orders |-> f[o][1]]
  BY DEF DealtFrom
<1> DEFINE W == {o \in Orders : card[o] \in I}
           g == [o \in W |-> f[o]]
<1>2. /\ f \in [Orders -> Copies(Ids)]
      /\ \A o, q \in Orders : f[o] = f[q] => o = q
      /\ \A c \in Copies(Ids) : \E o \in Orders : f[o] = c
  BY <1>1 DEF Bijection, Injection, Surjection, IsInjective
<1>3. \A c \in Copies(Ids) : c[1] \in I <=> c \in Copies(I)
  BY DEF Copies
<1>4. Copies(I) \subseteq Copies(Ids)
  BY DEF Copies
<1>5. g \in [W -> Copies(I)]
  BY <1>1, <1>2, <1>3
<1>6. \A o, q \in W : g[o] = g[q] => o = q
  BY <1>2
<1>7. \A c \in Copies(I) : \E o \in W : g[o] = c
  <2> SUFFICES ASSUME NEW c \in Copies(I) PROVE \E o \in W : g[o] = c
    OBVIOUS
  <2>1. PICK o \in Orders : f[o] = c
    BY <1>2, <1>4
  <2>2. card[o] \in I
    BY <1>1, <1>3, <1>4, <2>1
  <2> QED BY <2>1, <2>2
<1>8. g \in Bijection(W, Copies(I))
  <2> HIDE DEF g, W
  <2> QED BY <1>5, <1>6, <1>7 DEF Bijection, Injection, Surjection, IsInjective
<1>9. IsFiniteSet(W)
  BY OrdersFinite, FS_Subset
<1>10. Cardinality(Copies(I)) = Cardinality(W)
  <2> HIDE DEF g, W
  <2>1. ExistsBijection(W, Copies(I))
    BY <1>8 DEF ExistsBijection
  <2> QED BY <1>9, <2>1, FS_Bijection
<1>11. X \subseteq W
  OBVIOUS
<1>12. X = W
  <2> HIDE DEF g, W
  <2> QED BY <1>9, <1>10, <1>11, FS_Subset DEF multiplicity
<1> QED BY <1>12

\* Entries for different cards are as many as the cards they are for.
LEMMA EntriesCount ==
  ASSUME NEW E \in SUBSET Entry, \A e, f \in E : e.order = f.order => e = f
  PROVE  /\ {e.order : e \in E} \in SUBSET Orders
         /\ Cardinality(E) = Cardinality({e.order : e \in E})
<1> DEFINE O == {e.order : e \in E}
           g == [e \in E |-> e.order]
           h == [o \in O |-> CHOOSE e \in E : e.order = o]
<1>1. O \in SUBSET Orders
  BY DEF Entry
<1>2. \A o \in O : h[o] \in E /\ h[o].order = o
  OBVIOUS
<1>3. h \in [O -> E]
  BY <1>2
<1>4. \A o, q \in O : h[o] = h[q] => o = q
  BY <1>2
<1>5. \A e \in E : \E o \in O : h[o] = e
  BY <1>2
<1>6. h \in Bijection(O, E)
  <2> HIDE DEF h, O
  <2> QED BY <1>3, <1>4, <1>5 DEF Bijection, Injection, Surjection, IsInjective
<1>7. IsFiniteSet(O)
  <2> HIDE DEF h, O
  <2> QED BY <1>1, OrdersFinite, FS_Subset
<1>8. Cardinality(E) = Cardinality(O)
  <2> HIDE DEF h, O
  <2>1. ExistsBijection(O, E)
    BY <1>6 DEF ExistsBijection
  <2> QED BY <1>7, <2>1, FS_Bijection
<1> QED BY <1>1, <1>8

\* Two disjoint sets of cards count as their sum.
LEMMA DisjointCount ==
  ASSUME NEW S \in SUBSET Orders, NEW T \in SUBSET Orders, S \cap T = {}
  PROVE  /\ Cardinality(S \cup T) = Cardinality(S) + Cardinality(T)
         /\ Cardinality(S) \in Nat /\ Cardinality(T) \in Nat
<1>1. IsFiniteSet(S) /\ IsFiniteSet(T)
  BY OrdersFinite, FS_Subset
<1>2. Cardinality(S) \in Nat /\ Cardinality(T) \in Nat
  BY <1>1, FS_CardinalityType
<1>3. Cardinality(S \cap T) = 0
  BY FS_EmptySet
<1>4. Cardinality(S \cup T) = Cardinality(S) + Cardinality(T) - Cardinality(S \cap T)
  BY <1>1, FS_Union
<1> QED BY <1>2, <1>3, <1>4

\* The first identity of a set that has one is in it.
LEMMA FirstOfSome ==
  ASSUME NEW I \in SUBSET Ids, I # {}
  PROVE  First(I) \in I
<1>1. I \in SUBSET Nat
  BY EmpathyAssumption
<1> DEFINE Less == OpToRel(<, Nat)
<1>2. \A i, k \in Nat : <<i, k>> \in Less <=> i < k
  BY DEF OpToRel
<1>3. PICK id \in I : \A i \in I : ~(<<i, id>> \in Less)
  <2> HIDE DEF Less
  <2>1. IsWellFoundedOn(Less, Nat)
    BY NatLessThanWellFounded DEF Less
  <2> QED BY <1>1, <2>1, WFMin
<1>4. \A i \in I : id <= i
  <2> HIDE DEF Less
  <2>1. \A i \in I : i \in Nat /\ id \in Nat
    BY <1>1
  <2>2. \A i \in I : ~(i < id)
    BY <1>2, <1>3, <2>1, Zenon
  <2> QED BY <2>1, <2>2
<1> QED BY <1>4 DEF First

\* The only member of a set of one identity.
LEMMA SingleIs ==
  ASSUME NEW I \in SUBSET Ids, NEW id \in I, Single(I)
  PROVE  I = {id} /\ First(I) = id
<1>1. IsFiniteSet(I)
  BY EmpathyAssumption, FS_Subset
<1>2. \E x : I = {x}
  BY <1>1, FS_Singleton, Zenon DEF Single
<1>3. I = {id}
  BY <1>2
<1>4. id \in Nat
  BY EmpathyAssumption
<1> QED BY <1>3, <1>4 DEF First

-----------------------------------------------------------------------------
(* Types. *)

\* A pass over the hands keeps the types of what it writes.
LEMMA UpdateMapTypes ==
  ASSUME TypeOK, NEW id, NEW lost \in SUBSET InHand, update_map(id, lost)
  PROVE  /\ possible' \in [Views -> [Orders -> SUBSET Ids]]
         /\ certain' \in [Views -> [Ids -> SUBSET Entry]]
         /\ dirty' \subseteq Orders /\ changed' \in BOOLEAN /\ removals' \subseteq Orders
         /\ rec' \subseteq Ids /\ todo' \subseteq Ids
<1>1. lost \subseteq Orders
  BY DEF TypeOK, InHand
<1>2. possible' \in [Views -> [Orders -> SUBSET Ids]]
  BY <1>1 DEF TypeOK, update_map
<1>3. certain' \in [Views -> [Ids -> SUBSET Entry]]
  BY <1>1 DEF TypeOK, update_map, Pin, Entry
<1>4. dirty' \subseteq Orders /\ removals' \subseteq Orders
  BY <1>1 DEF TypeOK, update_map
<1>5. changed' \in BOOLEAN
  BY Zenon DEF TypeOK, update_map
<1>6. rec' \subseteq Ids /\ todo' \subseteq Ids
  <2>1. \A o \in lost : possible[view][o] \ {id} \subseteq Ids
    BY <1>1 DEF TypeOK
  <2>2. rec' = rec \cup UNION {possible[view][o] \ {id} : o \in {q \in lost : Single(possible[view][q] \ {id})}}
    BY DEF update_map
  <2>3. todo' = todo \ {id} /\ todo \subseteq Ids /\ rec \subseteq Ids
    BY DEF update_map, TypeOK
  <2> HIDE DEF TypeOK, update_map
  <2> QED BY <2>1, <2>2, <2>3
<1> QED BY <1>2, <1>3, <1>4, <1>5, <1>6

\* The types of the table, of what is known and of the search.
TableTypes ==
  /\ card \in [Orders -> Ids] /\ drawn \in 0 .. Cardinality(Orders)
  /\ holder \in [Orders -> Players \cup {Nobody}] /\ hands \in [Players -> SUBSET Orders]
  /\ to_draw \in Players \cup {Nobody} /\ moves \in 0 .. MaxMoves
  /\ deck \in [Orders -> Ids \cup {Unknown}]
KnownTypes ==
  /\ possible \in [Views -> [Orders -> SUBSET Ids]]
  /\ certain \in [Views -> [Ids -> SUBSET Entry]]
  /\ all_possible \in [Views -> SUBSET Ids] /\ dirty \subseteq Orders
PassTypes == phase \in Phases /\ view \in Views /\ todo \subseteq Ids /\ rec \subseteq Ids
SearchTypes ==
  /\ entries \subseteq Orders /\ ids \subseteq Ids /\ candidates \subseteq Orders
  /\ tried \subseteq SUBSET Orders /\ changed \in BOOLEAN /\ removals \subseteq Orders

\* They make up the type invariant.
LEMMA TypeParts == TypeOK <=> TableTypes /\ KnownTypes /\ PassTypes /\ SearchTypes
BY Zenon DEF TypeOK, TableTypes, KnownTypes, PassTypes, SearchTypes

\* The variables an elimination step leaves alone keep their types.
LEMMA UpdateMapKeeps ==
  ASSUME TypeOK, NEW id, NEW lost \in SUBSET InHand, update_map(id, lost),
         all_possible' \in [Views -> SUBSET Ids]
  PROVE  TypeOK'
<1>1. UNCHANGED <<table, phase, view, search>>
  BY DEF update_map
<1>2. TableTypes' /\ PassTypes'
  BY <1>1, TypeParts, UpdateMapTypes DEF TableTypes, PassTypes, table
<1>3. KnownTypes'
  BY UpdateMapTypes DEF KnownTypes
<1>4. SearchTypes'
  BY <1>1, TypeParts, UpdateMapTypes, Zenon DEF SearchTypes, search
<1> QED BY <1>2, <1>3, <1>4, TypeParts, PTL

\* The types hold at the start.
LEMMA InitTypes == Init => TypeOK
<1> SUFFICES ASSUME Init PROVE TypeOK
  OBVIOUS
<1>1. card \in [Orders -> Ids]
  <2>1. PICK f \in Bijection(Orders, Copies(Ids)) : card = [o \in Orders |-> f[o][1]]
    BY DEF Init
  <2>2. f \in [Orders -> Copies(Ids)]
    BY <2>1 DEF Bijection, Injection
  <2> QED BY <2>1, <2>2 DEF Copies
<1>2. TableTypes
  <2>1. Cardinality(Orders) \in Nat
    BY OrdersFinite, FS_CardinalityType
  <2> QED BY <1>1, <2>1, EmpathyAssumption DEF Init, TableTypes
<1>3. KnownTypes
  BY DEF Init, KnownTypes
<1>4. PassTypes
  BY DEF Init, PassTypes, Phases, Views
<1>5. SearchTypes
  BY Zenon DEF Init, SearchTypes
<1> QED BY <1>2, <1>3, <1>4, <1>5, TypeParts

\* Every step keeps the types.
LEMMA NextTypes == TypeOK /\ [Next]_vars => TypeOK'
<1> SUFFICES ASSUME TypeOK, [Next]_vars PROVE TypeOK'
  OBVIOUS
<1>0. TableTypes /\ KnownTypes /\ PassTypes /\ SearchTypes
  BY TypeParts
<1>a. Cardinality(Orders) = multiplicity(Ids) /\ multiplicity(Ids) \in Nat
  BY OrdersFinite, CopiesFinite
<1>b. Common \in Views /\ Players \subseteq Views
  BY DEF Views
<1>m. ASSUME StartElim
      PROVE  PassTypes' /\ SearchTypes'
  <2>1. PassTypes'
    BY <1>0, <1>m DEF StartElim, PassTypes, Phases
  <2>2. SearchTypes'
    BY <1>0, <1>m, Zenon DEF StartElim, SearchTypes, search
  <2> QED BY <2>1, <2>2
<1>1. ASSUME NEW p \in Players, Draw(p)
      PROVE  TypeOK'
  <2>1. TableTypes'
    BY <1>0, <1>1, <1>a, EmpathyAssumption DEF Draw, TableTypes, Orders, Nobody, Unknown
  <2>2. KnownTypes'
    BY <1>0, <1>1 DEF Draw, KnownTypes
  <2>3. StartElim
    BY <1>1 DEF Draw
  <2> QED BY <1>m, <2>1, <2>2, <2>3, TypeParts, PTL
<1>2. ASSUME NEW p \in Players, NEW clue \in Clues, OnClue(p, clue)
      PROVE  TypeOK'
  <2>1. Narrowed(p, clue) \in [Orders -> SUBSET Ids]
    BY <1>0, <1>b DEF Narrowed, KnownTypes
  <2>2. \A o \in Orders : Single(Narrowed(p, clue)[o]) => First(Narrowed(p, clue)[o]) \in Ids
    <3> SUFFICES ASSUME NEW o \in Orders, Single(Narrowed(p, clue)[o])
                 PROVE  First(Narrowed(p, clue)[o]) \in Ids
      OBVIOUS
    <3>1. Narrowed(p, clue)[o] \in SUBSET Ids
      BY <2>1
    <3>2. Narrowed(p, clue)[o] # {}
      BY FS_EmptySet DEF Single
    <3> QED BY <3>1, <3>2, FirstOfSome
  <2>3. deck' \in [Orders -> Ids \cup {Unknown}]
    BY <1>0, <1>2, <2>2 DEF OnClue, TableTypes
  <2>4. moves' \in 0 .. MaxMoves
    BY <1>0, <1>2, EmpathyAssumption DEF OnClue, Move, TableTypes
  <2>5. TableTypes'
    BY <1>0, <1>2, <2>3, <2>4 DEF OnClue, TableTypes
  <2>6. KnownTypes'
    BY <1>0, <1>2, <1>b, <2>1 DEF OnClue, KnownTypes, TableTypes
  <2>7. StartElim
    BY <1>2 DEF OnClue
  <2> QED BY <1>m, <2>5, <2>6, <2>7, TypeParts, PTL
<1>3. ASSUME NEW p \in Players, NEW o \in hands[p], Remove(p, o)
      PROVE  TypeOK'
  <2>1. o \in Orders
    BY <1>0 DEF TableTypes
  <2>2. moves' \in 0 .. MaxMoves
    BY <1>0, <1>3, EmpathyAssumption DEF Remove, Move, TableTypes
  <2>3. TableTypes'
    BY <1>0, <1>3, <2>1, <2>2 DEF Remove, TableTypes
  <2>4. KnownTypes'
    BY <1>0, <1>3, <1>b, <2>1 DEF Remove, KnownTypes, TableTypes
  <2>5. StartElim
    BY <1>3 DEF Remove
  <2> QED BY <1>m, <2>3, <2>4, <2>5, TypeParts, PTL
<1>4. CASE Certify
  <2>1. Synced \in [Orders -> SUBSET Ids]
    BY <1>0, <1>b DEF Synced, KnownTypes, PassTypes
  <2>2. \A id \in Ids : Named(id) \subseteq Orders
    BY <1>0 DEF Named, KnownTypes
  <2>3. certain' \in [Views -> [Ids -> SUBSET Entry]]
    <3>1. \A id \in Ids : Certified(id) \subseteq Entry
      <4> SUFFICES ASSUME NEW id \in Ids PROVE Certified(id) \subseteq Entry
        OBVIOUS
      <4>1. certain[view][id] \subseteq Entry
        BY <1>0 DEF KnownTypes, PassTypes
      <4>2. \A o \in Named(id) : /\ [order |-> o, unknown_to |-> Nobody] \in Entry
                                 /\ [order |-> o, unknown_to |-> holder[o]] \in Entry
        BY <1>0, <2>2 DEF Entry, TableTypes
      <4> QED BY <4>1, <4>2 DEF Certified, Pin
    <3>2. certain' = [certain EXCEPT ![view] = [id \in Ids |-> Certified(id)]]
      BY <1>4 DEF Certify
    <3> QED BY <1>0, <3>1, <3>2 DEF KnownTypes
  <2>4. KnownTypes'
    BY <1>0, <1>4, <2>1, <2>3 DEF Certify, KnownTypes
  <2>5. TableTypes' /\ PassTypes'
    BY <1>0, <1>4 DEF Certify, TableTypes, PassTypes, table, Phases
  <2>6. SearchTypes'
    BY <1>0, <1>4, Zenon DEF Certify, SearchTypes
  <2> QED BY <2>4, <2>5, <2>6, TypeParts, PTL
<1>5. CASE BasicElim
  <2> DEFINE id == First(todo)
             lost == IF Counted(id) THEN Losers(id, {}, {}) ELSE {}
  <2>1. update_map(id, lost) /\ lost \in SUBSET InHand
    BY <1>5 DEF BasicElim, Losers
  <2>2. all_possible' \in [Views -> SUBSET Ids]
    BY <1>0, <1>5 DEF BasicElim, KnownTypes
  <2> HIDE DEF id, lost
  <2> QED BY <2>1, <2>2, UpdateMapKeeps
<1>6. CASE GroupElim
  <2> DEFINE id == First(todo)
             lost == IF GroupClosed(id) THEN Losers(id, {holder[o] : o \in Group(id)}, {}) ELSE {}
  <2>1. update_map(id, lost) /\ lost \in SUBSET InHand
    BY <1>6 DEF GroupElim, Losers
  <2>2. all_possible' \in [Views -> SUBSET Ids]
    BY <1>0, <1>6 DEF GroupElim, KnownTypes
  <2> HIDE DEF id, lost
  <2> QED BY <2>1, <2>2, UpdateMapKeeps
<1>7. CASE LockElim
  <2> DEFINE id == First(todo)
             own == IF view = Common THEN {} ELSE entries \cap hands[view]
             lost == Losers(id, {holder[o] : o \in entries}, own)
  <2>1. update_map(id, lost) /\ lost \in SUBSET InHand
    BY <1>7 DEF LockElim, Losers
  <2>2. all_possible' \in [Views -> SUBSET Ids]
    BY <1>0, <1>7 DEF LockElim, KnownTypes
  <2> HIDE DEF id, lost
  <2> QED BY <2>1, <2>2, UpdateMapKeeps
<1>8. CASE BasicRecursion
  <2>1. TableTypes' /\ KnownTypes' /\ PassTypes'
    BY <1>0, <1>8 DEF BasicRecursion, TableTypes, KnownTypes, PassTypes, table, known
  <2>2. SearchTypes'
    BY <1>0, <1>8, Zenon DEF BasicRecursion, SearchTypes, search
  <2> QED BY <2>1, <2>2, TypeParts, PTL
<1>9. CASE CollectCandidates
  <2>1. TableTypes' /\ KnownTypes' /\ PassTypes'
    BY <1>0, <1>9 DEF CollectCandidates, TableTypes, KnownTypes, PassTypes, table, known, Phases
  <2>2. InHand \subseteq Orders
    BY <1>0 DEF TableTypes, InHand
  <2>3. candidates' \subseteq Orders /\ tried' \subseteq SUBSET Orders
    BY <1>9, <2>2 DEF CollectCandidates
  <2>4. SearchTypes'
    BY <1>0, <1>9, <2>3, Zenon DEF CollectCandidates, SearchTypes
  <2> QED BY <2>1, <2>4, TypeParts, PTL
<1>10. ASSUME NEW S \in SUBSET candidates, CrossElim(S)
       PROVE  TypeOK'
  <2>1. S \subseteq Orders
    BY <1>0 DEF SearchTypes
  <2>2. MayBe(S) \subseteq Ids
    BY <1>0, <2>1 DEF MayBe, KnownTypes, PassTypes
  <2>3. TableTypes' /\ KnownTypes'
    BY <1>0, <1>10 DEF CrossElim, TableTypes, KnownTypes, table, known
  <2>4. {deck[o] : o \in S} \ {Unknown} \subseteq Ids
    BY <1>0, <2>1 DEF TableTypes
  <2>5. PassTypes'
    BY <1>0, <1>10, <2>4 DEF CrossElim, PassTypes, Phases
  <2>6. SearchTypes'
    BY <1>0, <1>10, <2>1, <2>2, Zenon DEF CrossElim, SearchTypes
  <2> QED BY <2>3, <2>5, <2>6, TypeParts, PTL
<1>11. CASE NextLoop
  <2>1. TableTypes' /\ KnownTypes' /\ PassTypes'
    BY <1>0, <1>11 DEF NextLoop, TableTypes, KnownTypes, PassTypes, SearchTypes, table, known, Phases
  <2>2. SearchTypes'
    BY <1>0, <1>11, Zenon DEF NextLoop, SearchTypes, search
  <2> QED BY <2>1, <2>2, TypeParts, PTL
<1>12. CASE CrossElimDone
  <2>1. TableTypes' /\ KnownTypes' /\ PassTypes'
    BY <1>0, <1>12 DEF CrossElimDone, TableTypes, KnownTypes, PassTypes, table, known, Phases
  <2>2. tried' \subseteq SUBSET Orders /\ candidates' \subseteq Orders
    BY <1>0, <1>12, Zenon DEF CrossElimDone, SearchTypes
  <2>3. SearchTypes'
    BY <1>12, <2>2, Zenon DEF CrossElimDone, SearchTypes
  <2> QED BY <2>1, <2>3, TypeParts, PTL
<1>13. CASE NextView
  <2>1. TableTypes' /\ KnownTypes'
    BY <1>0, <1>13 DEF NextView, TableTypes, KnownTypes, table
  <2>2. PassTypes'
    BY <1>0, <1>13, <1>b DEF NextView, PassTypes, Phases
  <2>3. SearchTypes'
    BY <1>0, <1>13, Zenon DEF NextView, SearchTypes
  <2> QED BY <2>1, <2>2, <2>3, TypeParts, PTL
<1>14. CASE UNCHANGED vars
  <2>1. TableTypes' /\ KnownTypes' /\ PassTypes'
    BY <1>0, <1>14 DEF vars, TableTypes, KnownTypes, PassTypes, table, known
  <2>2. SearchTypes'
    BY <1>0, <1>14, Zenon DEF vars, SearchTypes, search
  <2> QED BY <2>1, <2>2, TypeParts, PTL
<1> QED BY <1>1, <1>2, <1>3, <1>4, <1>5, <1>6, <1>7, <1>8, <1>9, <1>10, <1>11, <1>12, <1>13, <1>14
        DEF Next, ElimStep

\* TypeOK holds in every reachable state of every instance.
THEOREM TypeCorrect == Spec => []TypeOK
BY InitTypes, NextTypes, PTL DEF Spec

-----------------------------------------------------------------------------
(* The inductive invariant. *)

\* The views that are about what we know for certain.
Good == {Common, Us}

\* Cards of our own hand that we can name.
OwnKnown == {o \in hands[Us] : deck[o] # Unknown}

\* The table, and what we write down of it, is as it is.
TableInv ==
  /\ DealtFrom
  /\ \A p \in Players : \A o \in hands[p] : o < drawn /\ holder[o] = p
  /\ \A o \in Orders : deck[o] # Unknown => deck[o] = card[o]
  /\ dirty \subseteq Drawn /\ candidates \subseteq Drawn /\ entries \subseteq Drawn

\* In this elimination our view has taken over what the team knows.
UpToDate == view > Us \/ (view = Us /\ phase \notin {"idle", "certify"})

\* A card of ours that we can name is known to everyone, so that it is never
\* among the cards the search puts together in our view.
OwnInv ==
  /\ \A o \in OwnKnown : possible[Common][o] = {card[o]}
  /\ \A o \in OwnKnown : o \in dirty \/ possible[Us][o] = {card[o]}
  /\ UpToDate => \A o \in OwnKnown : possible[Us][o] = {card[o]}
  /\ view = Us => \A o \in candidates \cup entries : o \notin OwnKnown

\* The entries and the certain cards are all there is of the ids.
Covering ==
  phase \in {"group", "lock"} /\ view \in Good =>
    \A o \in Orders : card[o] \in ids =>
      o \in entries \/ \E e \in certain[view][card[o]] : e.order = o

SearchInv ==
  /\ phase = "idle" => view = Common
  /\ phase \in {"idle", "certify"} => candidates = {} /\ entries = {}
  /\ phase = "cross" => entries = {}
  /\ phase = "lock" => todo \subseteq ids
  /\ Covering

IInv == /\ TypeOK /\ TableInv /\ OwnInv /\ SearchInv
        /\ TruthStaysPossible /\ CertaintiesAreTrue /\ NextCardPossible

\* Who is at the table, in the terms the proofs use.
LEMMA Seats ==
  /\ NumPlayers \in Nat /\ Us \in Players /\ Us \in Int /\ Us >= 0 /\ Us < NumPlayers
  /\ Common \notin Players /\ Common # Us /\ Common < Us /\ Common \in Views /\ Us \in Views
  /\ Good \subseteq Views /\ Nobody \notin Players
  /\ \A i \in Ids : i # Unknown
  /\ \A v \in Views : v \in Int /\ (v + 1 \notin Players => v >= Us)
BY EmpathyAssumption DEF Players, Common, Views, Good, Nobody, Unknown

\* A card in hand is drawn and held by who has it.
LEMMA Held ==
  ASSUME TypeOK, TableInv, NEW o \in InHand
  PROVE  o \in Drawn /\ o \in Orders /\ holder[o] \in Players /\ o \in hands[holder[o]]
BY DEF InHand, TableInv, TypeOK, Drawn

\* The invariant holds at the start.
LEMMA InitInv == Init => IInv
<1> SUFFICES ASSUME Init PROVE IInv
  OBVIOUS
<1>1. TypeOK
  BY InitTypes
<1>2. Drawn = {}
  <2>1. drawn = 0
    BY DEF Init
  <2>2. \A o \in Orders : ~(o < 0)
    BY OrdersFinite
  <2>. QED
    BY <2>1, <2>2 DEF Drawn
<1>3. TableInv
  BY DEF Init, TableInv, DealtFrom
<1>4. OwnInv
  BY Seats DEF Init, OwnInv, OwnKnown, UpToDate
<1>5. SearchInv
  BY DEF Init, SearchInv, Covering
<1>6. TruthStaysPossible
  BY <1>2 DEF TruthStaysPossible
<1>7. CertaintiesAreTrue
  BY Seats DEF Init, CertaintiesAreTrue, Good
<1>8. NextCardPossible
  BY <1>1, Seats DEF Init, NextCardPossible, Good, TypeOK
<1> QED BY <1>1, <1>3, <1>4, <1>5, <1>6, <1>7, <1>8 DEF IInv

\* A pass that takes an identity only from cards that are something else
\* leaves the invariant alone, whatever view it works on.
LEMMA SafePass ==
  ASSUME IInv, TypeOK', NEW id \in Ids, NEW lost \in SUBSET InHand, update_map(id, lost),
         view \in Good => \A o \in lost : card[o] # id,
         \A v \in Good : \A o \in Orders \ Drawn : card[o] \in all_possible'[v]
  PROVE  IInv'
<1>0. /\ TypeOK /\ TableInv /\ OwnInv /\ SearchInv
      /\ TruthStaysPossible /\ CertaintiesAreTrue /\ NextCardPossible
  BY DEF IInv
<1>1. /\ UNCHANGED <<card, drawn, holder, hands, deck, phase, view, entries, ids, candidates>>
      /\ todo' \subseteq todo
  BY DEF update_map, table, search
<1>2. Drawn' = Drawn /\ InHand' = InHand /\ OwnKnown' = OwnKnown
  BY <1>1 DEF Drawn, InHand, OwnKnown
<1>3. \A v \in Views, o \in Orders :
        possible'[v][o] = IF v = view /\ o \in lost THEN possible[v][o] \ {id} ELSE possible[v][o]
  BY <1>0 DEF update_map, TypeOK
<1>4. \A o \in lost : o \in Drawn /\ o \in Orders
  BY <1>0, Held
<1>5. TruthStaysPossible'
  <2> SUFFICES ASSUME NEW v \in Good, NEW o \in Drawn PROVE card[o] \in possible'[v][o]
    BY <1>1, <1>2 DEF TruthStaysPossible, Good
  <2>1. card[o] \in possible[v][o]
    BY <1>0 DEF TruthStaysPossible, Good
  <2> QED BY <1>3, <2>1, Seats DEF Drawn
<1>6. dirty \subseteq dirty' /\ dirty' \subseteq dirty \cup lost
  BY DEF update_map
<1>7. TableInv'
  <2>1. DealtFrom'
    BY <1>0, <1>1 DEF TableInv, DealtFrom
  <2> QED BY <1>0, <1>1, <1>2, <1>4, <1>6, <2>1 DEF TableInv
<1>8. \A v \in Good, o \in OwnKnown : possible[v][o] = {card[o]} => possible'[v][o] = {card[o]}
  <2> SUFFICES ASSUME NEW v \in Good, NEW o \in OwnKnown, possible[v][o] = {card[o]}
               PROVE  possible'[v][o] = {card[o]}
    OBVIOUS
  <2>1. o \in InHand
    BY Seats DEF OwnKnown, InHand
  <2>2. o \in Drawn /\ o \in Orders
    BY <1>0, <2>1, Held
  <2>3. card[o] \in possible'[v][o]
    BY <1>1, <1>2, <1>5, <2>2 DEF TruthStaysPossible, Good
  <2> QED BY <1>3, <2>2, <2>3, Seats
<1>9. OwnInv'
  BY <1>0, <1>1, <1>2, <1>6, <1>8 DEF OwnInv, UpToDate, Good
<1>10. \A v \in Views, i \in Ids :
         /\ v # view => certain'[v][i] = certain[v][i]
         /\ v = view => certain'[v][i] = Pin(certain[v][i], {o \in lost : possible[v][o] \ {id} = {i}})
  <2>1. certain' = [certain EXCEPT ![view] =
          [i \in Ids |-> Pin(certain[view][i], {o \in lost : possible[view][o] \ {id} = {i}})]]
    BY DEF update_map
  <2>2. certain \in [Views -> [Ids -> SUBSET Entry]] /\ view \in Views
    BY <1>0 DEF TypeOK
  <2> QED BY <2>1, <2>2
<1>11. CertaintiesAreTrue'
  <2> SUFFICES ASSUME NEW v \in Good, NEW i \in Ids, NEW e \in certain'[v][i]
               PROVE  /\ e.order \in Drawn /\ card[e.order] = i
                      /\ \A f \in certain'[v][i] : f.order = e.order => f = e
    BY <1>1, <1>2 DEF CertaintiesAreTrue, Good
  <2>0. /\ \A f \in certain[v][i] : f.order \in Drawn /\ card[f.order] = i
        /\ \A f, g \in certain[v][i] : f.order = g.order => f = g
    BY <1>0 DEF CertaintiesAreTrue, Good
  <2>1. CASE v # view
    <3>1. certain'[v][i] = certain[v][i]
      BY <1>10, <2>1, Seats
    <3> QED BY <2>0, <3>1
  <2>2. CASE v = view
    <3> DEFINE P == {o \in lost : possible[v][o] \ {id} = {i}}
    <3>1. certain'[v][i] = Pin(certain[v][i], P)
      BY <1>10, <2>2, Seats
    <3>2. \A o \in P : o \in Drawn /\ card[o] = i
      <4> SUFFICES ASSUME NEW o \in P PROVE o \in Drawn /\ card[o] = i
        OBVIOUS
      <4>1. o \in Drawn /\ o \in Orders
        BY <1>4
      <4>2. card[o] \in possible'[v][o]
        BY <1>1, <1>2, <1>5, <4>1 DEF TruthStaysPossible, Good
      <4> QED BY <1>3, <2>2, <4>1, <4>2, Seats
    <3> HIDE DEF P
    <3>3. \A f \in certain'[v][i] :
            \/ f \in certain[v][i] /\ f.order \notin P
            \/ f.order \in P /\ f = [order |-> f.order, unknown_to |-> Nobody]
      BY <3>1 DEF Pin
    <3> QED BY <2>0, <3>2, <3>3
  <2> QED BY <2>1, <2>2
<1>12. NextCardPossible'
  BY <1>1, <1>2 DEF NextCardPossible, Good
<1>13. SearchInv'
  <2>1. \A v \in Views, i \in Ids : \A e \in certain[v][i] :
          \E f \in certain'[v][i] : f.order = e.order
    <3> SUFFICES ASSUME NEW v \in Views, NEW i \in Ids, NEW e \in certain[v][i]
                 PROVE  \E f \in certain'[v][i] : f.order = e.order
      OBVIOUS
    <3> DEFINE P == {o \in lost : possible[v][o] \ {id} = {i}}
    <3>1. CASE v # view
      BY <1>10, <3>1
    <3>2. CASE v = view
      <4>1. certain'[v][i] = Pin(certain[v][i], P)
        BY <1>10, <3>2
      <4> HIDE DEF P
      <4>2. CASE e.order \notin P
        BY <4>1, <4>2 DEF Pin
      <4>3. CASE e.order \in P
        <5>1. [order |-> e.order, unknown_to |-> Nobody] \in certain'[v][i]
          BY <4>1, <4>3 DEF Pin
        <5> QED BY <5>1
      <4> QED BY <4>2, <4>3
    <3> QED BY <3>1, <3>2
  <2>2. Covering'
    <3> SUFFICES ASSUME phase \in {"group", "lock"}, view \in Good,
                        NEW o \in Orders, card[o] \in ids
                 PROVE  o \in entries \/ \E e \in certain'[view][card[o]] : e.order = o
      BY <1>1 DEF Covering
    <3>1. o \in entries \/ \E e \in certain[view][card[o]] : e.order = o
      BY <1>0 DEF SearchInv, Covering
    <3>2. card[o] \in Ids
      BY <1>0 DEF TypeOK
    <3> QED BY <2>1, <3>1, <3>2, Seats
  <2> QED BY <1>0, <1>1, <2>2 DEF SearchInv
<1> QED BY <1>5, <1>7, <1>9, <1>11, <1>12, <1>13 DEF IInv

-----------------------------------------------------------------------------
(* The passes: what they take, they take rightly. *)

\* Certain cards of known identities are as many as their entries.
LEMMA CertainCount ==
  ASSUME TypeOK, CertaintiesAreTrue, view \in Good, NEW id \in Ids,
         NEW E \in SUBSET certain[view][id]
  PROVE  /\ {e.order : e \in E} \in SUBSET Orders
         /\ Cardinality(E) = Cardinality({e.order : e \in E})
         /\ \A o \in {e.order : e \in E} : card[o] = id /\ o \in Drawn
<1>1. E \in SUBSET Entry
  BY Seats DEF TypeOK
<1>2. \A e \in certain[view][id] : e.order \in Drawn /\ card[e.order] = id
  BY DEF CertaintiesAreTrue, Good
<1>3. \A e, f \in E : e.order = f.order => e = f
  BY DEF CertaintiesAreTrue, Good
<1> QED BY <1>1, <1>2, <1>3, EntriesCount

\* If as many entries are certain as there are copies, they are all there is.
LEMMA CountedRightly ==
  ASSUME IInv, view \in Good, NEW id \in Ids, Counted(id)
  PROVE  \A o \in Orders : card[o] = id => o \in Drawn /\ \E e \in certain[view][id] : e.order = o
<1> DEFINE X == {e.order : e \in certain[view][id]}
<1>1. /\ X \in SUBSET Orders
      /\ Cardinality(certain[view][id]) = Cardinality(X)
      /\ \A o \in X : card[o] = id /\ o \in Drawn
  BY CertainCount DEF IInv
<1>2. Cardinality(X) = multiplicity({id})
  <2> HIDE DEF X
  <2> QED BY <1>1, CopiesOfOne DEF Counted
<1>3. \A o \in Orders : card[o] \in {id} => o \in X
  <2>1. \A o \in X : card[o] \in {id}
    BY <1>1
  <2>2. {id} \in SUBSET Ids /\ DealtFrom
    BY DEF IInv, TableInv
  <2> HIDE DEF X
  <2> QED BY <1>1, <1>2, <2>1, <2>2, AllCopies
<1> QED BY <1>1, <1>3

\* If the entries we see to be id are the copies that are not certain, then
\* who holds none of them has none.
LEMMA GroupRightly ==
  ASSUME IInv, phase = "group", view \in Good, NEW id \in Ids, GroupClosed(id)
  PROVE  \A o \in Losers(id, {holder[q] : q \in Group(id)}, {}) : card[o] # id
<1> DEFINE G == Group(id)
           E == {e \in certain[view][id] : e.order \notin G}
           X == {e.order : e \in E}
<1>0. TypeOK /\ TableInv /\ OwnInv /\ DealtFrom
  BY DEF IInv, TableInv
<1>1. /\ X \in SUBSET Orders /\ Cardinality(E) = Cardinality(X)
      /\ \A o \in X : card[o] = id
  BY CertainCount DEF IInv
<1>2. G \in SUBSET Orders /\ \A o \in G : o \in entries /\ card[o] = id /\ deck[o] = id
  BY <1>0, Seats DEF Group, TableInv, TypeOK
<1>3. G \cap X = {}
  OBVIOUS
<1>4. Cardinality(G) = CardCount[id] - Cardinality(E)
  BY DEF GroupClosed
<1>5. CardCount[id] \in Nat
  BY EmpathyAssumption
<1>6. \A o \in Orders : card[o] \in {id} => o \in G \cup X
  <2>1. \A o \in G \cup X : card[o] \in {id}
    BY <1>1, <1>2
  <2>2. G \cup X \in SUBSET Orders /\ {id} \in SUBSET Ids
    BY <1>1, <1>2
  <2> HIDE DEF G, E, X
  <2>3. Cardinality(G \cup X) = multiplicity({id})
    <3>1. /\ Cardinality(G \cup X) = Cardinality(G) + Cardinality(X)
          /\ Cardinality(G) \in Nat /\ Cardinality(X) \in Nat
      BY <1>1, <1>2, <1>3, DisjointCount
    <3>2. multiplicity({id}) = CardCount[id]
      BY CopiesOfOne
    <3> QED BY <1>1, <1>4, <1>5, <3>1, <3>2
  <2> QED BY <1>0, <2>1, <2>2, <2>3, AllCopies
<1> SUFFICES ASSUME NEW o \in Losers(id, {holder[q] : q \in Group(id)}, {}), card[o] = id
             PROVE  FALSE
  OBVIOUS
<1>7. /\ o \in InHand /\ \A e \in certain[view][id] : e.order # o
      /\ holder[o] = view \/ \A q \in G : holder[q] # holder[o]
  BY DEF Losers
<1>8. o \in Orders /\ holder[o] \in Players /\ o \in hands[holder[o]]
  BY <1>0, <1>7, Held
<1>9. o \in G
  BY <1>6, <1>7, <1>8
<1>10. view = Us /\ o \in hands[Us]
  BY <1>7, <1>8, <1>9, Seats DEF Good
<1>11. o \in entries /\ o \in OwnKnown
  BY <1>2, <1>9, <1>10, Seats DEF OwnKnown
<1> QED BY <1>0, <1>10, <1>11 DEF OwnInv

\* The entries and the certain cards being all there is of the ids, who holds
\* no entry has none of them.
LEMMA LockRightly ==
  ASSUME IInv, phase = "lock", view \in Good, NEW id \in ids,
         NEW own, own = IF view = Common THEN {} ELSE entries \cap hands[view]
  PROVE  \A o \in Losers(id, {holder[q] : q \in entries}, own) : card[o] # id
<1>0. TypeOK /\ TableInv /\ Covering
  BY DEF IInv, SearchInv
<1> SUFFICES ASSUME NEW o \in Losers(id, {holder[q] : q \in entries}, own), card[o] = id
             PROVE  FALSE
  OBVIOUS
<1>1. /\ o \in InHand /\ o \notin own
      /\ \A e \in certain[view][id] : e.order # o
      /\ holder[o] = view \/ \A q \in entries : holder[q] # holder[o]
  BY DEF Losers
<1>2. o \in Orders /\ holder[o] \in Players /\ o \in hands[holder[o]]
  BY <1>0, <1>1, Held
<1>3. o \in entries
  BY <1>0, <1>1, <1>2 DEF Covering
<1>4. holder[o] = view /\ view # Common
  BY <1>1, <1>2, <1>3, Seats
<1> QED BY <1>1, <1>2, <1>3, <1>4

\* A set of cards that must hold all copies of what they may be, does.
LEMMA LockedCovers ==
  ASSUME IInv, view \in Good, NEW S \in SUBSET candidates, Locked(S)
  PROVE  \A o \in Orders : card[o] \in MayBe(S) =>
           o \in S \/ \E e \in certain[view][card[o]] : e.order = o
<1> DEFINE M == MayBe(S)
           C == CertainOrders(M)
<1>0. TypeOK /\ TableInv /\ DealtFrom /\ TruthStaysPossible /\ CertaintiesAreTrue
  BY DEF IInv, TableInv
<1>1. S \subseteq Drawn /\ S \in SUBSET Orders
  BY <1>0 DEF TableInv, Drawn
<1>2. M \in SUBSET Ids
  BY <1>0, <1>1 DEF MayBe, TypeOK
<1>3. \A o \in S : card[o] \in M
  BY <1>0, <1>1 DEF MayBe, TruthStaysPossible, Good
<1>4. \A o \in C : \E id \in M : \E e \in certain[view][id] : e.order = o
  BY DEF CertainOrders
<1>5. \A id \in Ids : \A e \in certain[view][id] : e.order \in Orders /\ card[e.order] = id
  BY <1>0 DEF CertaintiesAreTrue, Good, Drawn
<1>6. C \in SUBSET Orders /\ \A o \in C : card[o] \in M
  <2> HIDE DEF M, C
  <2> QED BY <1>2, <1>4, <1>5
<1>7. multiplicity(M) - Cardinality(C \ S) = Cardinality(S)
  BY DEF Locked
<1>8. multiplicity(M) \in Nat
  <2> HIDE DEF M, C
  <2> QED BY <1>2, CopiesFinite
<1>9. \A o \in Orders : card[o] \in M => o \in S \cup (C \ S)
  <2> HIDE DEF M, C
  <2>1. S \cup (C \ S) \in SUBSET Orders /\ C \ S \in SUBSET Orders /\ S \cap (C \ S) = {}
    BY <1>1, <1>6
  <2>2. Cardinality(S \cup (C \ S)) = multiplicity(M)
    <3>1. /\ Cardinality(S \cup (C \ S)) = Cardinality(S) + Cardinality(C \ S)
          /\ Cardinality(S) \in Nat /\ Cardinality(C \ S) \in Nat
      BY <1>1, <2>1, DisjointCount
    <3> QED BY <1>7, <1>8, <3>1
  <2>3. \A o \in S \cup (C \ S) : card[o] \in M
    BY <1>3, <1>6
  <2> QED BY <1>0, <1>2, <2>1, <2>2, <2>3, AllCopies
<1> SUFFICES ASSUME NEW o \in Orders, card[o] \in M, o \in C
             PROVE  \E e \in certain[view][card[o]] : e.order = o
  BY <1>9
<1>10. PICK id \in M : \E e \in certain[view][id] : e.order = o
  BY <1>4
<1>11. id \in Ids
  <2> HIDE DEF M, C
  <2> QED BY <1>2
<1>12. card[o] = id
  BY <1>5, <1>10, <1>11
<1> QED BY <1>10, <1>12

-----------------------------------------------------------------------------
(* The steps. *)

\* A move leaves the search as it was, between two eliminations.
LEMMA MoveSearch ==
  ASSUME IInv, StartElim
  PROVE  /\ SearchInv' /\ ~UpToDate' /\ view' # Us /\ phase = "idle" /\ view = Common
         /\ candidates = {} /\ entries = {} /\ candidates' = {} /\ entries' = {}
<1>1. phase = "idle" /\ phase' = "certify" /\ view = Common /\ candidates = {} /\ entries = {}
  BY DEF StartElim, IInv, SearchInv
<1>2. view' = view /\ candidates' = candidates /\ entries' = entries
  BY DEF StartElim, search
<1>3. SearchInv'
  BY <1>1, <1>2 DEF SearchInv, Covering
<1>4. ~UpToDate'
  BY <1>1, <1>2, Seats DEF UpToDate
<1> QED BY <1>1, <1>2, <1>3, <1>4, Seats

\* A drawn card can be what is still possible for a new card.
LEMMA DrawInv ==
  ASSUME IInv, TypeOK', NEW p \in Players, Draw(p)
  PROVE  IInv'
<1>0. /\ TypeOK /\ TableInv /\ OwnInv /\ SearchInv
      /\ TruthStaysPossible /\ CertaintiesAreTrue /\ NextCardPossible
  BY DEF IInv
<1>1. StartElim /\ drawn \in Orders /\ drawn' = drawn + 1
  BY DEF Draw
<1>2. /\ SearchInv' /\ ~UpToDate' /\ view' # Us /\ candidates' = {} /\ entries' = {}
  BY <1>1, MoveSearch
<1>3. Drawn' = Drawn \cup {drawn} /\ drawn \notin Drawn
  <2>1. \A o \in Orders : o \in Nat
    BY OrdersFinite
  <2>2. drawn \in Nat
    BY <1>1, <2>1
  <2>3. \A o \in Orders : o < drawn + 1 <=> o < drawn \/ o = drawn
    BY <2>1, <2>2
  <2>4. Drawn' = {o \in Orders : o < drawn + 1}
    BY <1>1 DEF Drawn
  <2>5. drawn \notin Drawn
    BY <2>2 DEF Drawn
  <2> QED BY <1>1, <2>3, <2>4, <2>5 DEF Drawn
<1>4. /\ card' = card /\ certain' = certain /\ all_possible' = all_possible
      /\ dirty' = dirty \cup {drawn}
      /\ hands' = [hands EXCEPT ![p] = @ \cup {drawn}]
      /\ holder' = [holder EXCEPT ![drawn] = p]
      /\ deck' = [deck EXCEPT ![drawn] = IF p = Us THEN Unknown ELSE card[drawn]]
  BY DEF Draw
<1>5. \A v \in Views, o \in Orders :
        possible'[v][o] = IF o = drawn THEN all_possible[v] ELSE possible[v][o]
  BY <1>0 DEF Draw, TypeOK
<1>6. \A q \in Players : \A o \in hands[q] : o \in Orders /\ o # drawn /\ o < drawn
  BY <1>0, <1>1, OrdersFinite DEF TableInv, TypeOK
<1>7. TableInv'
  <2>1. DealtFrom'
    BY <1>0, <1>4 DEF TableInv, DealtFrom
  <2>2. ASSUME NEW q \in Players, NEW o \in hands'[q]
        PROVE  o < drawn' /\ holder'[o] = q
    <3>1. CASE o = drawn
      <4>1. q = p
        BY <1>0, <1>4, <1>6, <3>1 DEF TypeOK
      <4> QED BY <1>0, <1>1, <1>4, <3>1, <4>1, OrdersFinite DEF TypeOK
    <3>2. CASE o # drawn
      <4>1. o \in hands[q]
        BY <1>0, <1>4, <3>2 DEF TypeOK
      <4>2. o < drawn /\ holder[o] = q
        BY <1>0, <4>1 DEF TableInv
      <4>3. o \in Nat /\ drawn \in Nat
        BY <1>1, <1>6, <4>1, OrdersFinite
      <4> QED BY <1>0, <1>1, <1>4, <1>6, <3>2, <4>1, <4>2, <4>3 DEF TypeOK
    <3> QED BY <3>1, <3>2
  <2>3. \A o \in Orders : deck'[o] # Unknown => deck'[o] = card'[o]
    BY <1>0, <1>4 DEF TableInv, TypeOK
  <2>4. dirty' \subseteq Drawn'
    BY <1>0, <1>1, <1>3, <1>4 DEF TableInv
  <2> QED BY <1>2, <2>1, <2>2, <2>3, <2>4 DEF TableInv
<1>8. TruthStaysPossible'
  BY <1>0, <1>1, <1>3, <1>4, <1>5, Seats DEF TruthStaysPossible, NextCardPossible, Drawn, Good
<1>9. CertaintiesAreTrue'
  BY <1>0, <1>3, <1>4 DEF CertaintiesAreTrue
<1>10. NextCardPossible'
  BY <1>0, <1>3, <1>4 DEF NextCardPossible
<1>11. OwnInv'
  <2>1. OwnKnown' \subseteq OwnKnown
    BY <1>0, <1>1, <1>4, <1>6, Seats DEF OwnKnown, TypeOK
  <2>2. \A o \in OwnKnown : o \in Orders /\ o # drawn
    BY <1>6, Seats DEF OwnKnown
  <2> QED BY <1>0, <1>2, <1>4, <1>5, <2>1, <2>2, Seats DEF OwnInv
<1> QED BY <1>2, <1>7, <1>8, <1>9, <1>10, <1>11 DEF IInv

\* A clue says the truth of the cards it touches and of those it does not.
LEMMA OnClueInv ==
  ASSUME IInv, TypeOK', NEW p \in Players, NEW clue \in Clues, OnClue(p, clue)
  PROVE  IInv'
<1> DEFINE N == Narrowed(p, clue)
<1>0. /\ TypeOK /\ TableInv /\ OwnInv /\ SearchInv
      /\ TruthStaysPossible /\ CertaintiesAreTrue /\ NextCardPossible
  BY DEF IInv
<1>1. StartElim
  BY DEF OnClue
<1>2. /\ SearchInv' /\ ~UpToDate' /\ view' # Us /\ candidates' = {} /\ entries' = {}
  BY <1>1, MoveSearch
<1>3. /\ UNCHANGED <<card, drawn, holder, hands, certain, all_possible>>
      /\ dirty' = dirty \cup hands[p]
      /\ possible' = [possible EXCEPT ![Common] = N]
      /\ deck' = [o \in Orders |-> IF o \in hands[p] /\ card[o] \in clue /\ deck[o] = Unknown
                                        /\ Single(N[o]) THEN First(N[o]) ELSE deck[o]]
  BY DEF OnClue
<1>4. Drawn' = Drawn
  BY <1>3 DEF Drawn
<1>5. \A o \in Orders : N[o] \subseteq possible[Common][o]
  BY DEF Narrowed
<1>6. \A o \in Drawn : card[o] \in N[o]
  BY <1>0 DEF Narrowed, TruthStaysPossible, Drawn
<1>7. \A v \in Views, o \in Orders : possible'[v][o] = IF v = Common THEN N[o] ELSE possible[v][o]
  BY <1>0, <1>3 DEF TypeOK, Narrowed
<1>8. \A o \in hands[p] : o \in Drawn /\ o \in Orders
  BY <1>0, Held DEF InHand
<1>9. \A o \in hands[p] : Single(N[o]) => N[o] = {card[o]} /\ First(N[o]) = card[o]
  <2> SUFFICES ASSUME NEW o \in hands[p], Single(N[o])
               PROVE  N[o] = {card[o]} /\ First(N[o]) = card[o]
    OBVIOUS
  <2>1. N[o] \in SUBSET Ids
    BY <1>0, <1>5, <1>8, Seats DEF TypeOK
  <2>2. card[o] \in N[o]
    BY <1>6, <1>8
  <2> HIDE DEF N
  <2> QED BY <2>1, <2>2, SingleIs
<1> HIDE DEF N
<1>10. \A o \in Orders : \/ deck'[o] = deck[o]
                         \/ /\ o \in hands[p] /\ N[o] = {card[o]} /\ deck'[o] = card[o]
  BY <1>3, <1>9
<1>11. TableInv'
  <2>1. DealtFrom'
    BY <1>0, <1>3 DEF TableInv, DealtFrom
  <2>2. dirty' \subseteq Drawn
    BY <1>0, <1>3, <1>8 DEF TableInv
  <2>3. \A o \in Orders : deck'[o] # Unknown => deck'[o] = card[o]
    BY <1>0, <1>10 DEF TableInv
  <2> QED BY <1>0, <1>2, <1>3, <1>4, <2>1, <2>2, <2>3 DEF TableInv
<1>12. TruthStaysPossible'
  BY <1>0, <1>3, <1>4, <1>6, <1>7, Seats DEF TruthStaysPossible, Drawn
<1>13. CertaintiesAreTrue'
  BY <1>0, <1>3, <1>4 DEF CertaintiesAreTrue
<1>14. NextCardPossible'
  BY <1>0, <1>3, <1>4 DEF NextCardPossible
<1>15. OwnInv'
  <2>1. \A o \in OwnKnown' : /\ o \in Orders /\ o \in Drawn
                             /\ o \in OwnKnown \/ (o \in hands[p] /\ N[o] = {card[o]})
    <3> SUFFICES ASSUME NEW o \in OwnKnown'
                 PROVE  /\ o \in Orders /\ o \in Drawn
                        /\ o \in OwnKnown \/ (o \in hands[p] /\ N[o] = {card[o]})
      OBVIOUS
    <3>1. o \in hands[Us] /\ deck'[o] # Unknown
      BY <1>3 DEF OwnKnown
    <3>2. o \in Orders /\ o \in Drawn
      BY <1>0, <3>1, Held, Seats DEF InHand
    <3> QED BY <1>10, <3>1, <3>2 DEF OwnKnown
  <2>2. \A o \in OwnKnown' : possible'[Common][o] = {card[o]}
    <3> SUFFICES ASSUME NEW o \in OwnKnown' PROVE N[o] = {card[o]}
      BY <1>7, <2>1, Seats
    <3>1. CASE o \in OwnKnown
      <4>1. possible[Common][o] = {card[o]}
        BY <1>0, <3>1 DEF OwnInv
      <4> QED BY <1>5, <1>6, <2>1, <4>1
    <3> QED BY <2>1, <3>1
  <2>3. \A o \in OwnKnown' : o \in dirty' \/ possible'[Us][o] = {card[o]}
    BY <1>0, <1>3, <1>7, <2>1, Seats DEF OwnInv
  <2> QED BY <1>2, <1>3, <2>2, <2>3 DEF OwnInv
<1> QED BY <1>2, <1>11, <1>12, <1>13, <1>14, <1>15 DEF IInv

\* A card that is played or discarded is what is seen.
LEMMA RemoveInv ==
  ASSUME IInv, TypeOK', NEW p \in Players, NEW o \in hands[p], Remove(p, o)
  PROVE  IInv'
<1>0. /\ TypeOK /\ TableInv /\ OwnInv /\ SearchInv
      /\ TruthStaysPossible /\ CertaintiesAreTrue /\ NextCardPossible
  BY DEF IInv
<1>1. StartElim
  BY DEF Remove
<1>2. /\ SearchInv' /\ ~UpToDate' /\ view' # Us /\ candidates' = {} /\ entries' = {}
  BY <1>1, MoveSearch
<1>3. /\ UNCHANGED <<card, drawn, holder, certain, all_possible>>
      /\ dirty' = dirty \cup {o}
      /\ hands' = [hands EXCEPT ![p] = @ \ {o}]
      /\ possible' = [possible EXCEPT ![Common][o] = {card[o]}]
      /\ deck' = [deck EXCEPT ![o] = card[o]]
  BY DEF Remove
<1>4. Drawn' = Drawn
  BY <1>3 DEF Drawn
<1>5. o \in Drawn /\ o \in Orders /\ o < drawn /\ holder[o] = p
  BY <1>0, Held DEF InHand, TableInv
<1>6. \A v \in Views, q \in Orders :
        possible'[v][q] = IF v = Common /\ q = o THEN {card[o]} ELSE possible[v][q]
  BY <1>0, <1>3, <1>5 DEF TypeOK
<1>7. \A q \in Players : hands'[q] \subseteq hands[q] /\ o \notin hands'[q]
  BY <1>0, <1>3, <1>5 DEF TypeOK, TableInv
<1>8. TableInv'
  <2>1. DealtFrom'
    BY <1>0, <1>3 DEF TableInv, DealtFrom
  <2>2. dirty' \subseteq Drawn
    BY <1>0, <1>3, <1>5 DEF TableInv
  <2>3. \A q \in Orders : deck'[q] # Unknown => deck'[q] = card[q]
    BY <1>0, <1>3 DEF TableInv, TypeOK
  <2> QED BY <1>0, <1>2, <1>3, <1>4, <1>7, <2>1, <2>2, <2>3 DEF TableInv
<1>9. TruthStaysPossible'
  BY <1>0, <1>3, <1>4, <1>6, Seats DEF TruthStaysPossible, Drawn
<1>10. CertaintiesAreTrue'
  BY <1>0, <1>3, <1>4 DEF CertaintiesAreTrue
<1>11. NextCardPossible'
  BY <1>0, <1>3, <1>4 DEF NextCardPossible
<1>12. OwnInv'
  <2>1. \A q \in OwnKnown' : q \in OwnKnown /\ q \in Orders /\ q # o
    <3> SUFFICES ASSUME NEW q \in OwnKnown' PROVE q \in OwnKnown /\ q \in Orders /\ q # o
      OBVIOUS
    <3>1. q \in hands'[Us] /\ deck'[q] # Unknown
      BY DEF OwnKnown
    <3>2. q \in hands[Us] /\ q # o
      BY <1>7, <3>1, Seats
    <3>3. q \in Orders
      BY <1>0, <3>2, Seats DEF TypeOK
    <3> QED BY <1>0, <1>3, <3>1, <3>2, <3>3 DEF OwnKnown, TypeOK
  <2> QED BY <1>0, <1>2, <1>3, <1>6, <2>1, Seats DEF OwnInv
<1> QED BY <1>2, <1>8, <1>9, <1>10, <1>11, <1>12 DEF IInv

\* Taking over what the team knows, and counting what it names, is right.
LEMMA CertifyInv ==
  ASSUME IInv, TypeOK', Certify
  PROVE  IInv'
<1>0. /\ TypeOK /\ TableInv /\ OwnInv /\ SearchInv
      /\ TruthStaysPossible /\ CertaintiesAreTrue /\ NextCardPossible
  BY DEF IInv
<1>1. /\ phase = "certify" /\ phase' = "basic" /\ entries' = {} /\ candidates = {}
      /\ UNCHANGED <<card, drawn, holder, hands, deck, all_possible, dirty, view, candidates>>
  BY <1>0 DEF Certify, table, SearchInv
<1>2. Drawn' = Drawn /\ OwnKnown' = OwnKnown
  BY <1>1 DEF Drawn, OwnKnown
<1>3. \A v \in Views, o \in Orders :
        possible'[v][o] = IF v = view /\ view # Common /\ o \in dirty THEN possible[Common][o]
                          ELSE possible[v][o]
  <2>1. possible' = [possible EXCEPT ![view] = Synced]
    BY DEF Certify
  <2> QED BY <1>0, <2>1 DEF Synced, TypeOK
<1>4. \A o \in Orders : Synced[o] = possible'[view][o]
  <2>1. possible' = [possible EXCEPT ![view] = Synced]
    BY DEF Certify
  <2> QED BY <1>0, <2>1 DEF TypeOK
<1>5. TableInv'
  <2>1. DealtFrom'
    BY <1>0, <1>1 DEF TableInv, DealtFrom
  <2> QED BY <1>0, <1>1, <1>2, <2>1 DEF TableInv
<1>6. TruthStaysPossible'
  BY <1>0, <1>1, <1>2, <1>3, Seats DEF TruthStaysPossible, Drawn, Good
<1>7. CertaintiesAreTrue'
  <2> SUFFICES ASSUME NEW v \in Good, NEW i \in Ids, NEW e \in certain'[v][i]
               PROVE  /\ e.order \in Drawn /\ card[e.order] = i
                      /\ \A f \in certain'[v][i] : f.order = e.order => f = e
    BY <1>1, <1>2 DEF CertaintiesAreTrue, Good
  <2>0. /\ \A f \in certain[v][i] : f.order \in Drawn /\ card[f.order] = i
        /\ \A f, g \in certain[v][i] : f.order = g.order => f = g
    BY <1>0 DEF CertaintiesAreTrue, Good
  <2>1. certain' = [certain EXCEPT ![view] = [id \in Ids |-> Certified(id)]]
    BY DEF Certify
  <2>2. CASE v # view
    <3>1. certain'[v][i] = certain[v][i]
      BY <1>0, <2>1, <2>2, Seats DEF TypeOK
    <3> QED BY <2>0, <3>1
  <2>3. CASE v = view
    <3> DEFINE P == {o \in Named(i) : Single(Synced[o])}
               A == {o \in Named(i) : \A f \in certain[view][i] : f.order # o}
    <3>1. certain'[v][i] = Certified(i)
      BY <1>0, <2>1, <2>3, Seats DEF TypeOK
    <3>2. \A o \in Named(i) : o \in Drawn /\ card[o] = i
      <4> SUFFICES ASSUME NEW o \in Named(i) PROVE o \in Drawn /\ card[o] = i
        OBVIOUS
      <4>1. o \in Drawn /\ o \in Orders
        BY <1>0 DEF Named, TableInv, Drawn
      <4>2. card[o] \in Synced[o]
        BY <1>1, <1>2, <1>4, <1>6, <2>3, <4>1 DEF TruthStaysPossible, Good
      <4> QED BY <4>1, <4>2 DEF Named
    <3>3. Certified(i) = Pin(certain[view][i], P)
                           \cup {[order |-> o, unknown_to |-> holder[o]] : o \in A \ P}
      BY DEF Certified
    <3>4. P \subseteq Named(i) /\ A \subseteq Named(i)
          /\ \A o \in A : \A f \in certain[v][i] : f.order # o
      BY <2>3
    <3> HIDE DEF P, A
    <3>5. \A f \in certain'[v][i] :
            \/ f \in certain[v][i] /\ f.order \notin P
            \/ f.order \in P /\ f = [order |-> f.order, unknown_to |-> Nobody]
            \/ f.order \in A \ P /\ f = [order |-> f.order, unknown_to |-> holder[f.order]]
      BY <2>3, <3>1, <3>3 DEF Pin
    <3> QED BY <2>0, <3>2, <3>4, <3>5
  <2> QED BY <2>2, <2>3
<1>8. NextCardPossible'
  BY <1>0, <1>1, <1>2 DEF NextCardPossible
<1>9. \A o \in OwnKnown : o \in Orders
  BY <1>0, Seats DEF OwnKnown, TypeOK
<1>10. OwnInv'
  <2>1. \A o \in OwnKnown : possible'[Common][o] = {card[o]}
    BY <1>0, <1>3, <1>9, Seats DEF OwnInv
  <2>2. \A o \in OwnKnown : o \in dirty \/ possible'[Us][o] = {card[o]}
    BY <1>0, <1>3, <1>9, Seats DEF OwnInv
  <2>3. ASSUME UpToDate', NEW o \in OwnKnown
        PROVE  possible'[Us][o] = {card[o]}
    <3>1. CASE view = Us
      BY <1>0, <1>3, <1>9, <2>1, <3>1, Seats DEF OwnInv
    <3>2. CASE view # Us
      <4>1. UpToDate
        BY <1>1, <2>3, <3>2 DEF UpToDate
      <4> QED BY <1>0, <1>3, <1>9, <3>2, <4>1, Seats DEF OwnInv
    <3> QED BY <3>1, <3>2
  <2> QED BY <1>1, <1>2, <2>1, <2>2, <2>3 DEF OwnInv
<1>11. SearchInv'
  BY <1>1 DEF SearchInv, Covering
<1> QED BY <1>5, <1>6, <1>7, <1>8, <1>10, <1>11 DEF IInv

\* Counting, grouping and locking take identities only from other cards.
LEMMA PassesInv ==
  ASSUME IInv, TypeOK', BasicElim \/ GroupElim \/ LockElim
  PROVE  IInv'
<1>0. /\ TypeOK /\ TableInv /\ SearchInv /\ NextCardPossible /\ todo \subseteq Ids
  BY DEF IInv, TypeOK
<1> DEFINE id == First(todo)
<1>1. todo # {} /\ id \in todo /\ id \in Ids
  BY <1>0, FirstOfSome DEF BasicElim, GroupElim, LockElim
<1>2. CASE BasicElim
  <2> DEFINE lost == IF Counted(id) THEN Losers(id, {}, {}) ELSE {}
  <2>1. update_map(id, lost) /\ lost \in SUBSET InHand
    BY <1>2 DEF BasicElim, Losers
  <2>2. ASSUME view \in Good, Counted(id)
        PROVE  \A o \in Orders : card[o] = id =>
                 o \in Drawn /\ \E e \in certain[view][id] : e.order = o
    <3> HIDE DEF id
    <3> QED BY <1>1, <2>2, CountedRightly
  <2>3. view \in Good => \A o \in lost : card[o] # id
    <3> SUFFICES ASSUME view \in Good, NEW o \in lost, card[o] = id PROVE FALSE
      OBVIOUS
    <3>1. Counted(id) /\ o \in InHand /\ \A e \in certain[view][id] : e.order # o
      BY DEF Losers
    <3>2. o \in Orders
      BY <1>0, <3>1, Held
    <3> QED BY <2>2, <3>1, <3>2
  <2>4. \A v \in Good : \A o \in Orders \ Drawn : card[o] \in all_possible'[v]
    <3> SUFFICES ASSUME NEW v \in Good, NEW o \in Orders \ Drawn
                 PROVE  card[o] \in all_possible'[v]
      OBVIOUS
    <3>1. card[o] \in all_possible[v]
      BY <1>0 DEF NextCardPossible, Good
    <3>2. v = view /\ Counted(id) => card[o] # id
      BY <2>2
    <3>3. all_possible' = IF Counted(id) THEN [all_possible EXCEPT ![view] = @ \ {id}]
                          ELSE all_possible
      BY <1>2 DEF BasicElim
    <3> HIDE DEF id
    <3> QED BY <1>0, <3>1, <3>2, <3>3, Seats DEF TypeOK
  <2> HIDE DEF id, lost
  <2> QED BY <1>1, <2>1, <2>3, <2>4, SafePass
<1>3. ASSUME UNCHANGED all_possible
      PROVE  \A v \in Good : \A o \in Orders \ Drawn : card[o] \in all_possible'[v]
  BY <1>0, <1>3 DEF NextCardPossible, Good
<1>4. CASE GroupElim
  <2> DEFINE lost == IF GroupClosed(id) THEN Losers(id, {holder[o] : o \in Group(id)}, {}) ELSE {}
  <2>1. update_map(id, lost) /\ lost \in SUBSET InHand /\ phase = "group"
        /\ UNCHANGED all_possible
    BY <1>4 DEF GroupElim, Losers
  <2>2. view \in Good => \A o \in lost : card[o] # id
    <3> HIDE DEF id
    <3> QED BY <1>1, <2>1, GroupRightly
  <2> HIDE DEF id, lost
  <2> QED BY <1>1, <1>3, <2>1, <2>2, SafePass
<1>5. CASE LockElim
  <2> DEFINE own == IF view = Common THEN {} ELSE entries \cap hands[view]
             lost == Losers(id, {holder[o] : o \in entries}, own)
  <2>1. update_map(id, lost) /\ lost \in SUBSET InHand /\ phase = "lock"
        /\ UNCHANGED all_possible
    BY <1>5 DEF LockElim, Losers
  <2>2. id \in ids
    BY <1>0, <1>1, <2>1 DEF SearchInv
  <2>3. view \in Good => \A o \in lost : card[o] # id
    <3> HIDE DEF id
    <3> QED BY <2>1, <2>2, LockRightly
  <2> HIDE DEF id, lost
  <2> QED BY <1>1, <1>3, <2>1, <2>3, SafePass
<1> QED BY <1>2, <1>4, <1>5

\* Steps of the search that touch nothing that is known.
LEMMA SearchStep ==
  ASSUME IInv, TypeOK', UNCHANGED <<table, possible, certain, all_possible>>,
         dirty' = dirty \/ (dirty' = {} /\ \A o \in OwnKnown : possible[Us][o] = {card[o]}),
         candidates' \subseteq Drawn, entries' \subseteq Drawn,
         UpToDate' => \A o \in OwnKnown : possible[Us][o] = {card[o]},
         view' = Us => \A o \in candidates' \cup entries' : o \notin OwnKnown,
         SearchInv'
  PROVE  IInv'
<1>0. /\ TypeOK /\ TableInv /\ OwnInv
      /\ TruthStaysPossible /\ CertaintiesAreTrue /\ NextCardPossible
  BY DEF IInv
<1>1. UNCHANGED <<card, drawn, holder, hands, deck, possible, certain, all_possible>>
  BY DEF table
<1>2. Drawn' = Drawn /\ OwnKnown' = OwnKnown
  BY <1>1 DEF Drawn, OwnKnown
<1>3. TableInv'
  <2>1. DealtFrom'
    BY <1>0, <1>1 DEF TableInv, DealtFrom
  <2> QED BY <1>0, <1>1, <1>2, <2>1 DEF TableInv
<1>4. OwnInv'
  BY <1>0, <1>1, <1>2 DEF OwnInv
<1>5. TruthStaysPossible' /\ CertaintiesAreTrue' /\ NextCardPossible'
  BY <1>0, <1>1, <1>2 DEF TruthStaysPossible, CertaintiesAreTrue, NextCardPossible
<1> QED BY <1>3, <1>4, <1>5 DEF IInv

\* Every step keeps the invariant.
LEMMA NextInv == IInv /\ [Next]_vars => IInv'
<1> SUFFICES ASSUME IInv, [Next]_vars PROVE IInv'
  OBVIOUS
<1>0. /\ TypeOK /\ TableInv /\ OwnInv /\ SearchInv
  BY DEF IInv
<1>t. TypeOK'
  BY <1>0, NextTypes
<1>1. ASSUME NEW p \in Players, Draw(p) PROVE IInv'
  BY <1>t, <1>1, DrawInv
<1>2. ASSUME NEW p \in Players, NEW clue \in Clues, OnClue(p, clue) PROVE IInv'
  BY <1>t, <1>2, OnClueInv
<1>3. ASSUME NEW p \in Players, NEW o \in hands[p], Remove(p, o) PROVE IInv'
  BY <1>t, <1>3, RemoveInv
<1>4. CASE Certify
  BY <1>t, <1>4, CertifyInv
<1>5. CASE BasicElim \/ GroupElim \/ LockElim
  BY <1>t, <1>5, PassesInv
<1>6. CASE BasicRecursion
  <2>1. /\ UNCHANGED <<table, possible, certain, all_possible, dirty>>
        /\ UNCHANGED <<phase, view, entries, ids, candidates>> /\ phase = "basic"
    BY <1>6 DEF BasicRecursion, known, search
  <2>2. SearchInv'
    BY <1>0, <2>1 DEF SearchInv, Covering
  <2>3. UpToDate' = UpToDate
    BY <2>1 DEF UpToDate
  <2> QED BY <1>0, <1>t, <2>1, <2>2, <2>3, SearchStep DEF OwnInv, TableInv
<1>7. CASE CollectCandidates
  <2>1. /\ UNCHANGED <<table, possible, certain, all_possible, dirty, view, entries>>
        /\ phase = "basic" /\ phase' = "cross" /\ entries = {}
        /\ candidates' \subseteq {o \in InHand : Cardinality(possible[view][o]) > 1}
    BY <1>7 DEF CollectCandidates, known
  <2>2. SearchInv'
    BY <2>1 DEF SearchInv, Covering
  <2>3. UpToDate' => UpToDate
    BY <2>1 DEF UpToDate
  <2>4. candidates' \subseteq Drawn
    BY <1>0, <2>1, Held
  <2>5. ASSUME view = Us, NEW o \in candidates', o \in OwnKnown PROVE FALSE
    <3>1. possible[Us][o] = {card[o]}
      BY <1>0, <2>1, <2>5 DEF OwnInv, UpToDate
    <3>2. Cardinality(possible[Us][o]) = 1
      BY <3>1, FS_Singleton, Zenon
    <3> QED BY <2>1, <2>5, <3>2
  <2>6. view' = Us => \A o \in candidates' \cup entries' : o \notin OwnKnown
    BY <1>0, <2>1, <2>5 DEF OwnInv
  <2> QED BY <1>0, <1>t, <2>1, <2>2, <2>3, <2>4, <2>6, SearchStep DEF OwnInv, TableInv
<1>8. ASSUME NEW S \in SUBSET candidates, CrossElim(S) PROVE IInv'
  <2>1. /\ UNCHANGED <<table, possible, certain, all_possible, dirty, view, candidates>>
        /\ phase = "cross" /\ phase' = "group" /\ entries' = S /\ ids' = MayBe(S)
        /\ Locked(S)
    BY <1>8 DEF CrossElim, known, Untried
  <2>2. Covering'
    <3> SUFFICES ASSUME view \in Good, NEW o \in Orders, card[o] \in MayBe(S)
                 PROVE  o \in S \/ \E e \in certain[view][card[o]] : e.order = o
      BY <2>1 DEF Covering, table
    <3> QED BY <2>1, LockedCovers
  <2>3. SearchInv'
    BY <2>1, <2>2 DEF SearchInv
  <2>4. UpToDate' => UpToDate
    BY <2>1 DEF UpToDate
  <2>5. candidates' \subseteq Drawn /\ entries' \subseteq Drawn
    BY <1>0, <2>1 DEF TableInv
  <2>6. view' = Us => \A o \in candidates' \cup entries' : o \notin OwnKnown
    BY <1>0, <2>1 DEF OwnInv
  <2> QED BY <1>0, <1>t, <2>1, <2>3, <2>4, <2>5, <2>6, SearchStep DEF OwnInv
<1>9. CASE NextLoop
  <2>1. /\ UNCHANGED <<table, possible, certain, all_possible, dirty, view, candidates, entries, ids>>
        /\ phase \in {"group", "lock"} /\ phase' \in {"lock", "basic"} /\ todo' = ids
    BY <1>9 DEF NextLoop, known, search
  <2>2. SearchInv'
    BY <1>0, <2>1 DEF SearchInv, Covering, table
  <2>3. UpToDate' => UpToDate
    BY <2>1 DEF UpToDate
  <2> QED BY <1>0, <1>t, <2>1, <2>2, <2>3, SearchStep DEF OwnInv, TableInv
<1>10. CASE CrossElimDone
  <2>1. /\ UNCHANGED <<table, possible, certain, all_possible, dirty, view>>
        /\ phase = "basic" /\ phase' = "cross" /\ entries' = {} /\ candidates' \subseteq candidates
    BY <1>10 DEF CrossElimDone, known
  <2>2. SearchInv'
    BY <2>1 DEF SearchInv, Covering
  <2>3. UpToDate' => UpToDate
    BY <2>1 DEF UpToDate
  <2>4. candidates' \subseteq Drawn /\ entries' \subseteq Drawn
    BY <1>0, <2>1 DEF TableInv
  <2>5. view' = Us => \A o \in candidates' \cup entries' : o \notin OwnKnown
    BY <1>0, <2>1 DEF OwnInv
  <2> QED BY <1>0, <1>t, <2>1, <2>2, <2>3, <2>4, <2>5, SearchStep DEF OwnInv
<1>11. CASE NextView
  <2>1. /\ UNCHANGED <<table, possible, certain, all_possible, entries>>
        /\ phase = "cross" /\ candidates' = {}
        /\ \/ view + 1 \in Players /\ view' = view + 1 /\ phase' = "certify" /\ dirty' = dirty
           \/ view + 1 \notin Players /\ view' = Common /\ phase' = "idle" /\ dirty' = {}
    BY <1>11 DEF NextView
  <2>2. entries = {}
    BY <1>0, <2>1 DEF SearchInv
  <2>3. SearchInv'
    BY <2>1, <2>2 DEF SearchInv, Covering
  <2>4. view \in Int /\ (view + 1 \notin Players => view >= Us)
    BY <1>0, Seats DEF TypeOK
  <2>5. view >= Us => UpToDate
    BY <2>1, <2>4, Seats DEF UpToDate
  <2>6. UpToDate' => UpToDate
    BY <2>1, <2>4, <2>5, Seats DEF UpToDate
  <2>7. dirty' = dirty \/ (dirty' = {} /\ \A o \in OwnKnown : possible[Us][o] = {card[o]})
    BY <1>0, <2>1, <2>4, <2>5 DEF OwnInv
  <2> QED BY <1>0, <1>t, <2>1, <2>2, <2>3, <2>6, <2>7, SearchStep DEF OwnInv
<1>12. CASE UNCHANGED vars
  <2>1. /\ UNCHANGED <<table, possible, certain, all_possible, dirty>>
        /\ UNCHANGED <<phase, view, todo, entries, ids, candidates>>
    BY <1>12 DEF vars, known, search
  <2>2. SearchInv'
    BY <1>0, <2>1 DEF SearchInv, Covering, table
  <2>3. UpToDate' => UpToDate
    BY <2>1 DEF UpToDate
  <2> QED BY <1>0, <1>t, <2>1, <2>2, <2>3, SearchStep DEF OwnInv, TableInv
<1> QED BY <1>1, <1>2, <1>3, <1>4, <1>5, <1>6, <1>7, <1>8, <1>9, <1>10, <1>11, <1>12
        DEF Next, ElimStep

-----------------------------------------------------------------------------
\* The invariant holds in every reachable state.
THEOREM Invariance == Spec => []IInv
BY InitInv, NextInv, PTL DEF Spec

\* Soundness of the elimination: the team's view and our own view never rule
\* out what a card is.
THEOREM TruthIsNeverRuledOut == Spec => []TruthStaysPossible
<1>1. IInv => TruthStaysPossible
  BY DEF IInv
<1> QED BY <1>1, Invariance, PTL

\* What the views count as known copies are copies, each counted once.
THEOREM CountedCopiesAreCopies == Spec => []CertaintiesAreTrue
<1>1. IInv => CertaintiesAreTrue
  BY DEF IInv
<1> QED BY <1>1, Invariance, PTL

\* A card about to be drawn is always among the identities a new card is given.
THEOREM DeckIsNeverRuledOut == Spec => []NextCardPossible
<1>1. IInv => NextCardPossible
  BY DEF IInv
<1> QED BY <1>1, Invariance, PTL

-----------------------------------------------------------------------------
(* The players keep up with the team. *)

\* In this elimination the view of p has taken over what the team knows.
TakenOver(p) == view > p \/ (view = p /\ phase \notin {"idle", "certify"})

\* Where a player's view may be wider than the team's, the card is marked for
\* the player's turn in this elimination, and the turn is still to come.
KeepsUp ==
  /\ phase = "idle" => dirty = {}
  /\ \A p \in Players, o \in Orders :
        o \notin dirty \/ TakenOver(p) => possible[p][o] \subseteq possible[Common][o]

\* A pass strikes from the team's view only what it marks, before any player's
\* turn, and otherwise narrows the view at work.
LEMMA PassKeepsUp ==
  ASSUME TypeOK, KeepsUp, NEW id, NEW lost \in SUBSET InHand, update_map(id, lost),
         phase \notin {"idle", "certify"}
  PROVE  KeepsUp'
<1>1. /\ possible' = [possible EXCEPT ![view] =
                        [o \in Orders |-> IF o \in lost THEN possible[view][o] \ {id}
                                          ELSE possible[view][o]]]
      /\ dirty' = IF view = Common THEN dirty \cup lost ELSE dirty
      /\ UNCHANGED <<view, phase>>
  BY DEF update_map
<1>2. /\ possible \in [Views -> [Orders -> SUBSET Ids]] /\ view \in Views
      /\ Common \in Views /\ Players \subseteq Views
  BY DEF TypeOK, Views
<1>3. \A p \in Players : p # Common /\ p \in Int /\ p >= 0
  BY Seats DEF Players, Common
<1>. SUFFICES ASSUME NEW p \in Players, NEW o \in Orders, o \notin dirty' \/ TakenOver(p)'
              PROVE  possible'[p][o] \subseteq possible'[Common][o]
  BY <1>1 DEF KeepsUp
<1>4. TakenOver(p) <=> TakenOver(p)'
  BY <1>1 DEF TakenOver
<1>5. CASE view = Common
  <2>1. ~TakenOver(p)
    BY <1>3, <1>5 DEF TakenOver, Common
  <2>2. o \notin dirty /\ o \notin lost
    BY <1>1, <1>4, <1>5, <2>1
  <2>3. possible'[p][o] = possible[p][o] /\ possible'[Common][o] = possible[Common][o]
    BY <1>1, <1>2, <1>3, <1>5, <2>2
  <2>. QED
    BY <2>2, <2>3 DEF KeepsUp
<1>6. CASE view # Common
  <2>1. possible'[Common][o] = possible[Common][o]
    BY <1>1, <1>2, <1>6
  <2>2. possible'[p][o] \subseteq possible[p][o]
    BY <1>1, <1>2
  <2>3. possible[p][o] \subseteq possible[Common][o]
    BY <1>1, <1>4, <1>6 DEF KeepsUp
  <2>. QED
    BY <2>1, <2>2, <2>3
<1>. QED
  BY <1>5, <1>6

\* A move narrows the team's view of the cards it marks, and starts an
\* elimination in which every player's turn is still to come.
LEMMA MoveKeepsUp ==
  ASSUME IInv, KeepsUp, StartElim, NEW marked,
         dirty' = dirty \cup marked,
         \A v \in Views, o \in Orders : o \notin marked => possible'[v][o] = possible[v][o]
  PROVE  KeepsUp'
<1>1. view' = Common /\ phase' = "certify"
  BY DEF StartElim, IInv, SearchInv
<1>2. \A p \in Players : ~TakenOver(p)'
  BY <1>1, Seats DEF TakenOver, Players, Common
<1>. QED
  BY <1>1, <1>2 DEF KeepsUp, Views

\* Every step keeps the players up with the team.
LEMMA KeepsUpStep ==
  ASSUME IInv, KeepsUp, [Next]_vars
  PROVE  KeepsUp'
<1>1. /\ TypeOK
      /\ possible \in [Views -> [Orders -> SUBSET Ids]] /\ view \in Views /\ Common \in Views
      /\ hands \in [Players -> SUBSET Orders]
  BY DEF IInv, SearchInv, TypeOK, Views
<1>2. ASSUME NEW p \in Players, Draw(p) PROVE KeepsUp'
  <2>1. \A v \in Views, o \in Orders : o \notin {drawn} => possible'[v][o] = possible[v][o]
    BY <1>1, <1>2 DEF Draw
  <2>2. StartElim /\ dirty' = dirty \cup {drawn}
    BY <1>2 DEF Draw
  <2>. QED
    BY <2>1, <2>2, MoveKeepsUp
<1>3. ASSUME NEW p \in Players, NEW clue \in Clues, OnClue(p, clue) PROVE KeepsUp'
  <2>1. \A v \in Views, o \in Orders : o \notin hands[p] => possible'[v][o] = possible[v][o]
    BY <1>1, <1>3 DEF OnClue, Narrowed
  <2>. QED
    BY <1>3, <2>1, MoveKeepsUp DEF OnClue
<1>4. ASSUME NEW p \in Players, NEW o \in hands[p], Remove(p, o) PROVE KeepsUp'
  <2>1. \A v \in Views, q \in Orders : q \notin {o} => possible'[v][q] = possible[v][q]
    BY <1>1, <1>4 DEF Remove
  <2>. QED
    BY <1>4, <2>1, MoveKeepsUp DEF Remove
<1>5. CASE Certify
  <2>1. /\ possible' = [possible EXCEPT ![view] = Synced] /\ phase = "certify" /\ phase' = "basic"
        /\ UNCHANGED <<dirty, view>>
    BY <1>5 DEF Certify
  <2>. SUFFICES ASSUME NEW p \in Players, NEW o \in Orders, o \notin dirty \/ TakenOver(p)'
                PROVE  possible'[p][o] \subseteq possible'[Common][o]
    BY <2>1 DEF KeepsUp
  <2>2. p # Common /\ p \in Views
    BY Seats DEF Views
  <2>3. possible'[Common][o] = possible[Common][o]
    BY <1>1, <2>1 DEF Synced
  <2>4. CASE p = view
    <3>1. possible'[p][o] = IF o \in dirty THEN possible[Common][o] ELSE possible[p][o]
      BY <1>1, <2>1, <2>2, <2>4 DEF Synced
    <3>. QED
      BY <2>3, <3>1 DEF KeepsUp
  <2>5. CASE p # view
    <3>1. possible'[p][o] = possible[p][o]
      BY <1>1, <2>1, <2>2, <2>5
    <3>2. TakenOver(p)' => TakenOver(p)
      BY <2>1, <2>5 DEF TakenOver
    <3>. QED
      BY <2>3, <3>1, <3>2 DEF KeepsUp
  <2>. QED
    BY <2>4, <2>5
<1>6. CASE BasicElim \/ GroupElim \/ LockElim
  <2>1. phase \notin {"idle", "certify"}
    BY <1>6 DEF BasicElim, GroupElim, LockElim
  <2>2. PICK id, lost : lost \in SUBSET InHand /\ update_map(id, lost)
    BY <1>6 DEF BasicElim, GroupElim, LockElim, Losers
  <2>. QED
    BY <1>1, <2>1, <2>2, PassKeepsUp
<1>7. CASE \/ BasicRecursion \/ CollectCandidates \/ NextLoop \/ CrossElimDone \/ UNCHANGED vars
           \/ \E S \in SUBSET candidates : CrossElim(S)
  <2>1. /\ UNCHANGED <<possible, dirty, view>>
        /\ (phase' = "idle") <=> (phase = "idle")
        /\ (phase' = "certify") <=> (phase = "certify")
    BY <1>7 DEF BasicRecursion, CollectCandidates, NextLoop, CrossElimDone, CrossElim, vars, known
  <2>. QED
    BY <2>1 DEF KeepsUp, TakenOver
<1>8. CASE NextView
  <2>1. /\ UNCHANGED possible /\ phase = "cross"
        /\ \/ view + 1 \in Players /\ view' = view + 1 /\ phase' = "certify" /\ dirty' = dirty
           \/ view + 1 \notin Players /\ view' = Common /\ phase' = "idle" /\ dirty' = {}
    BY <1>8 DEF NextView
  <2>2. view \in Int /\ NumPlayers \in Nat /\ view >= -1 /\ view < NumPlayers
    BY <1>1, Seats DEF Views, Players, Common
  <2>3. CASE dirty' = dirty /\ view' = view + 1 /\ phase' = "certify"
    <3>1. \A p \in Players : TakenOver(p)' => TakenOver(p)
      BY <2>1, <2>2, <2>3 DEF TakenOver, Players
    <3>. QED
      BY <2>1, <2>3, <3>1 DEF KeepsUp
  <2>4. CASE view + 1 \notin Players
    <3>1. \A p \in Players : TakenOver(p)
      BY <2>1, <2>2, <2>4 DEF TakenOver, Players
    <3>. QED
      BY <2>1, <3>1 DEF KeepsUp
  <2>. QED
    BY <2>1, <2>3, <2>4
<1>. QED
  BY <1>2, <1>3, <1>4, <1>5, <1>6, <1>7, <1>8 DEF Next, ElimStep

\* After an elimination a player's view is never wider than the team's.
THEOREM PlayersKeepUp == Spec => []PlayersKnowWhatAllKnow
<1>1. Init => KeepsUp
  BY DEF Init, KeepsUp, Views
<1>2. IInv /\ KeepsUp /\ [Next]_vars => KeepsUp'
  BY KeepsUpStep
<1>3. IInv /\ KeepsUp => PlayersKnowWhatAllKnow
  <2>. SUFFICES ASSUME IInv, KeepsUp, phase = "idle", NEW p \in Players, NEW o \in Drawn
                PROVE  possible[p][o] \subseteq possible[Common][o]
    BY DEF PlayersKnowWhatAllKnow
  <2>. QED
    BY DEF KeepsUp, Drawn
<1>. QED
  BY <1>1, <1>2, <1>3, Invariance, PTL DEF Spec

-----------------------------------------------------------------------------
(* What basic_elim leaves behind: between two of its passes everything it  *)
(* was asked to count and has not put off is counted out.                  *)

Asked == IF entries = {} THEN Ids ELSE ids

\* If all copies of id are accounted for, no other card in a hand can be id.
Struck(id) ==
  Cardinality(certain[view][id]) = CardCount[id] =>
    \A o \in InHand : id \in possible[view][o] =>
      \E e \in certain[view][id] : e.order = o \/ e.unknown_to = holder[o]

StruckInv ==
  /\ phase \in {"group", "lock"} => entries # {}
  /\ phase = "basic" => \A id \in Asked \ (todo \cup rec) : Struck(id)

\* A pass strikes its identity wherever nothing accounts for it, and puts off every
\* identity that it pins a card to.
LEMMA PassStrikes ==
  ASSUME TypeOK, StruckInv, phase = "basic", BasicElim
  PROVE  StruckInv'
<1>. DEFINE id == First(todo)
            lost == IF Counted(id) THEN Losers(id, {}, {}) ELSE {}
            left(o) == possible[view][o] \ {id}
            pinned(i) == {o \in lost : left(o) = {i}}
            newly == {o \in lost : Single(left(o))}
<1>1. /\ update_map(id, lost) /\ todo # {}
      /\ todo \subseteq Ids /\ view \in Views
      /\ possible \in [Views -> [Orders -> SUBSET Ids]] /\ certain \in [Views -> [Ids -> SUBSET Entry]]
      /\ hands \in [Players -> SUBSET Orders]
  BY DEF BasicElim, TypeOK
<1>2. id \in todo /\ id \in Ids
  BY <1>1, FirstOfSome, EmpathyAssumption
<1>3. /\ possible' = [possible EXCEPT ![view] =
                        [o \in Orders |-> IF o \in lost THEN left(o) ELSE possible[view][o]]]
      /\ certain' = [certain EXCEPT ![view] = [i \in Ids |-> Pin(certain[view][i], pinned(i))]]
      /\ rec' = rec \cup UNION {left(o) : o \in newly}
      /\ todo' = todo \ {id}
      /\ UNCHANGED <<table, phase, view, search>>
  BY <1>1 DEF update_map
<1>4. /\ hands' = hands /\ holder' = holder /\ view' = view /\ phase' = phase
      /\ entries' = entries /\ ids' = ids /\ InHand' = InHand /\ Asked' = Asked
  BY <1>3 DEF table, search, InHand, Asked
<1>. HIDE DEF id, lost
<1>5. ASSUME NEW x \in Asked, x \notin todo', x \notin rec'
      PROVE  Struck(x)'
  <2>1. x \in Ids
    BY <1>5 DEF Asked, TypeOK
  <2>2. pinned(x) = {}
    <3>1. Single({x})
      BY FS_Singleton DEF Single
    <3>2. \A o \in pinned(x) : o \in newly /\ x \in left(o)
      BY <3>1
    <3>. QED
      BY <1>3, <1>5, <3>2
  <2>3. certain'[view'][x] = certain[view][x]
    <3>1. certain'[view'][x] = Pin(certain[view][x], pinned(x))
      BY <1>1, <1>3, <1>4, <2>1
    <3>. QED
      BY <2>2, <3>1 DEF Pin
  <2>4. ASSUME NEW o \in InHand, x \in possible'[view'][o]
        PROVE  x \in possible[view][o] /\ (o \in lost => x # id)
    <3>1. o \in Orders
      BY <1>1 DEF InHand
    <3>2. possible'[view'][o] = IF o \in lost THEN possible[view][o] \ {id} ELSE possible[view][o]
      BY <1>1, <1>3, <1>4, <3>1
    <3>. QED
      BY <2>4, <3>2
  <2>. SUFFICES ASSUME Cardinality(certain[view][x]) = CardCount[x],
                       NEW o \in InHand, x \in possible'[view'][o]
                PROVE  \E e \in certain[view][x] : e.order = o \/ e.unknown_to = holder[o]
    BY <1>4, <2>3 DEF Struck
  <2>5. CASE x = id
    <3>1. lost = Losers(id, {}, {})
      BY <2>5 DEF lost, Counted
    <3>2. o \notin lost /\ id \in possible[view][o]
      BY <2>4, <2>5
    <3>. QED
      BY <2>5, <3>1, <3>2 DEF Losers
  <2>6. CASE x # id
    <3>1. Struck(x)
      BY <1>3, <1>5, <2>6 DEF StruckInv
    <3>. QED
      BY <2>4, <3>1 DEF Struck
  <2>. QED
    BY <2>5, <2>6
<1>. QED
  BY <1>4, <1>5 DEF StruckInv

LEMMA StruckStep ==
  ASSUME TypeOK, StruckInv, [Next]_vars
  PROVE  StruckInv'
<1>1. CASE BasicElim
  BY <1>1, PassStrikes DEF BasicElim
<1>2. CASE Certify
  BY <1>2 DEF Certify, StruckInv, Asked
<1>3. CASE BasicRecursion
  <2>1. /\ todo' = rec /\ rec' = {} /\ todo = {}
        /\ UNCHANGED <<hands, holder, possible, certain, phase, view, entries, ids>>
    BY <1>3 DEF BasicRecursion, table, known, search
  <2>. QED
    BY <2>1 DEF StruckInv, Asked, Struck, InHand
<1>4. CASE NextLoop
  <2>1. /\ entries' = entries /\ ids' = ids /\ todo' = ids /\ entries # {}
        /\ phase' \in {"lock", "basic"}
    BY <1>4 DEF NextLoop, StruckInv, search
  <2>. QED
    BY <2>1 DEF StruckInv, Asked
<1>5. CASE GroupElim \/ LockElim
  <2>1. phase' = phase /\ phase \in {"group", "lock"} /\ entries' = entries
    BY <1>5 DEF GroupElim, LockElim, update_map, search
  <2>. QED
    BY <2>1 DEF StruckInv
<1>6. ASSUME NEW S \in SUBSET candidates, CrossElim(S) PROVE StruckInv'
  <2>1. entries' = S /\ phase' = "group" /\ Cardinality(S) > 1
    BY <1>6 DEF CrossElim, Untried, Locked
  <2>2. S # {}
    BY <2>1, FS_EmptySet
  <2>. QED
    BY <2>1, <2>2 DEF StruckInv
<1>7. CASE CollectCandidates \/ CrossElimDone \/ NextView
  <2>1. phase' \in {"cross", "certify", "idle"}
    BY <1>7 DEF CollectCandidates, CrossElimDone, NextView
  <2>. QED
    BY <2>1 DEF StruckInv
<1>8. CASE \E p \in Players : \/ Draw(p) \/ \E clue \in Clues : OnClue(p, clue)
                              \/ \E o \in hands[p] : Remove(p, o)
  <2>1. phase' = "certify"
    BY <1>8 DEF Draw, OnClue, Remove, StartElim
  <2>. QED
    BY <2>1 DEF StruckInv
<1>9. CASE UNCHANGED vars
  <2>1. UNCHANGED <<hands, holder, possible, certain, phase, view, entries, ids, todo, rec>>
    BY <1>9 DEF vars, table, known, search
  <2>. QED
    BY <2>1 DEF StruckInv, Asked, Struck, InHand
<1>. QED
  BY <1>1, <1>2, <1>3, <1>4, <1>5, <1>6, <1>7, <1>8, <1>9 DEF Next, ElimStep

\* When basic_elim returns, every identity it was asked to count whose copies are all
\* accounted for is struck from every other card, whatever the deal and the clues.
THEOREM CountingIsComplete == Spec => []CountedIsStruck
<1>1. Init => StruckInv
  BY DEF Init, StruckInv
<1>2. TypeOK /\ StruckInv /\ [Next]_vars => StruckInv'
  BY StruckStep
<1>3. StruckInv => CountedIsStruck
  BY DEF StruckInv, CountedIsStruck, Struck, Asked
<1>. QED
  BY <1>1, <1>2, <1>3, TypeCorrect, PTL DEF Spec
=============================================================================
