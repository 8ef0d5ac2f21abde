------------------------- MODULE IndexerManagerProofs -------------------------
(***************************************************************************)
(* Proofs about IndexerManager: for every history of projects, any files,  *)
(* every block and any number of dynamic data sources.                     *)
(***************************************************************************)
EXTENDS IndexerManager, ListTheorems

-------------------------------------------------------------------------------
(* The parts of a block, and that IndexBlockData is all of them in order *)

InstructionParts(t) ==
  { InstructionItem(<<t, 1, i>>, Block[t].instructions[i]) : i \in DOMAIN Block[t].instructions }

InnerParts(t) ==
  UNION { Range(GroupItems(t, g, Block[t].innerInstructions[g])) :
            g \in DOMAIN Block[t].innerInstructions }

TxParts(t) ==
  {TxItem(t)} \cup InstructionParts(t) \cup InnerParts(t) \cup Range(LogItems(t, Block[t]))

Parts == {BlockItem} \cup UNION { TxParts(t) : t \in DOMAIN Block }

ChainOrder == { p \in Parts \X Parts : Precedes(p[1].where, p[2].where) }

\* The lists a block consists of.
LEMMA BlockLists ==
  /\ Len(Block) \in Nat /\ DOMAIN Block = 1..Len(Block)
  /\ \A t \in DOMAIN Block :
       LET tx == Block[t] IN
       /\ Len(tx.instructions) \in Nat /\ DOMAIN tx.instructions = 1..Len(tx.instructions)
       /\ Len(tx.innerInstructions) \in Nat
       /\ DOMAIN tx.innerInstructions = 1..Len(tx.innerInstructions)
       /\ Len(tx.logs) \in Nat /\ DOMAIN tx.logs = 1..Len(tx.logs)
       /\ \A g \in DOMAIN tx.innerInstructions :
            /\ tx.innerInstructions[g].index \in DOMAIN tx.instructions
            /\ Len(tx.innerInstructions[g].instructions) \in Nat
            /\ DOMAIN tx.innerInstructions[g].instructions
                 = 1..Len(tx.innerInstructions[g].instructions)
<1>1. Block \in Seq(Range(Block))
  BY BlockShape
<1>2. ASSUME NEW t \in DOMAIN Block
      PROVE  LET tx == Block[t] IN
             /\ tx.instructions \in Seq(Range(tx.instructions))
             /\ tx.innerInstructions \in Seq(Range(tx.innerInstructions))
             /\ tx.logs \in Seq(Range(tx.logs))
             /\ \A g \in DOMAIN tx.innerInstructions :
                  /\ tx.innerInstructions[g].index \in DOMAIN tx.instructions
                  /\ tx.innerInstructions[g].instructions
                       \in Seq(Range(tx.innerInstructions[g].instructions))
  <2>1. Block[t] \in Range(Block)
    BY DEF Range
  <2>2. \A g \in DOMAIN Block[t].innerInstructions :
          Block[t].innerInstructions[g] \in Range(Block[t].innerInstructions)
    BY DEF Range
  <2>. QED BY <2>1, <2>2, BlockShape
<1>. QED BY <1>1, <1>2, LenProperties

\* Every part of the block is one of Parts.
LEMMA PartsMembers ==
  ASSUME NEW t \in DOMAIN Block
  PROVE  /\ TxItem(t) \in Parts /\ BlockItem \in Parts
         /\ \A i \in DOMAIN Block[t].instructions :
              InstructionItem(<<t, 1, i>>, Block[t].instructions[i]) \in Parts
         /\ \A g \in DOMAIN Block[t].innerInstructions :
              Range(GroupItems(t, g, Block[t].innerInstructions[g])) \subseteq Parts
         /\ Range(LogItems(t, Block[t])) \subseteq Parts
<1>1. TxParts(t) \subseteq Parts /\ BlockItem \in Parts
  BY DEF Parts
<1>2. \A g \in DOMAIN Block[t].innerInstructions :
        Range(GroupItems(t, g, Block[t].innerInstructions[g])) \subseteq TxParts(t)
  BY DEF TxParts, InnerParts
<1>3. \A i \in DOMAIN Block[t].instructions :
        InstructionItem(<<t, 1, i>>, Block[t].instructions[i]) \in TxParts(t)
  BY DEF TxParts, InstructionParts
<1>. QED BY <1>1, <1>2, <1>3 DEF TxParts

\* Where the parts are.
LEMMA Places ==
  ASSUME NEW t
  PROVE  /\ BlockItem.where = <<>> /\ TxItem(t).where = <<t>>
         /\ \A i \in DOMAIN Block[t].instructions :
              InstructionItem(<<t, 1, i>>, Block[t].instructions[i]).where = <<t, 1, i>>
         /\ \A g, group : \A x \in Range(GroupItems(t, g, group)) :
              \E j \in DOMAIN group.instructions : x.where = <<t, 1, group.index, g, j>>
         /\ \A x \in Range(LogItems(t, Block[t])) :
              \E l \in DOMAIN Block[t].logs : x.where = <<t, 2, l>>
<1>1. BlockItem.where = <<>> /\ TxItem(t).where = <<t>>
  BY DEF BlockItem, TxItem
<1>2. \A i \in DOMAIN Block[t].instructions :
        InstructionItem(<<t, 1, i>>, Block[t].instructions[i]).where = <<t, 1, i>>
  BY DEF InstructionItem
<1>3. ASSUME NEW g, NEW group, NEW x \in Range(GroupItems(t, g, group))
      PROVE  \E j \in DOMAIN group.instructions : x.where = <<t, 1, group.index, g, j>>
  <2>1. PICK j \in DOMAIN group.instructions : x = GroupItems(t, g, group)[j]
    BY DEF GroupItems, Range
  <2>2. x = InstructionItem(<<t, 1, group.index, g, j>>, group.instructions[j])
    BY <2>1 DEF GroupItems
  <2>. QED BY <2>2 DEF InstructionItem
<1>4. ASSUME NEW x \in Range(LogItems(t, Block[t]))
      PROVE  \E l \in DOMAIN Block[t].logs : x.where = <<t, 2, l>>
  <2>1. PICK l \in DOMAIN Block[t].logs : x = LogItems(t, Block[t])[l]
    BY DEF LogItems, Range
  <2>2. x = LogItem(<<t, 2, l>>, Block[t].logs[l])
    BY <2>1 DEF LogItems
  <2>. QED BY <2>2 DEF LogItem
<1>. QED BY <1>1, <1>2, <1>3, <1>4

(* Where two places part *)

LEMMA BlockFirst == \A w : 1 \in DOMAIN w => Precedes(<<>>, w)
BY DEF Precedes

LEMMA TxFirst ==
  \A t \in Nat : \A w : {1, 2} \subseteq DOMAIN w /\ w[1] = t => Precedes(<<t>>, w)
BY DEF Precedes

LEMMA TxsPart ==
  \A t, u \in Nat : \A v, w :
    /\ t < u /\ 1 \in DOMAIN v /\ v[1] = t /\ 1 \in DOMAIN w /\ w[1] = u => Precedes(v, w)
BY DEF Precedes

LEMMA InstructionsAndLogsPart ==
  \A t \in Nat : \A v, w :
    /\ {1, 2} \subseteq DOMAIN v /\ v[1] = t /\ v[2] = 1
    /\ {1, 2} \subseteq DOMAIN w /\ w[1] = t /\ w[2] = 2
    => Precedes(v, w)
BY DEF Precedes

LEMMA InstructionsPart ==
  \A t, a, i, k \in Nat : \A v, w :
    /\ i < k /\ {1, 2, 3} \subseteq DOMAIN v /\ v[1] = t /\ v[2] = a /\ v[3] = i
    /\ {1, 2, 3} \subseteq DOMAIN w /\ w[1] = t /\ w[2] = a /\ w[3] = k
    => Precedes(v, w)
BY DEF Precedes

LEMMA CallerFirst == \A t, i, g, j \in Nat : Precedes(<<t, 1, i>>, <<t, 1, i, g, j>>)
BY DEF Precedes

LEMMA GroupsPart ==
  \A t, i, g, h, j, k \in Nat : g < h => Precedes(<<t, 1, i, g, j>>, <<t, 1, i, h, k>>)
BY DEF Precedes

LEMMA CallsPart ==
  \A t, i, g, j, k \in Nat : j < k => Precedes(<<t, 1, i, g, j>>, <<t, 1, i, g, k>>)
BY DEF Precedes

-------------------------------------------------------------------------------
(* The lists of parts *)

LEMMA GroupFacts ==
  ASSUME NEW t \in DOMAIN Block, NEW g \in DOMAIN Block[t].innerInstructions
  PROVE  /\ GroupItems(t, g, Block[t].innerInstructions[g]) \in Seq(Parts)
         /\ Ordered(GroupItems(t, g, Block[t].innerInstructions[g]), ChainOrder)
<1>. DEFINE group == Block[t].innerInstructions[g]
            items == GroupItems(t, g, group)
<1>1. /\ t \in Nat /\ g \in Nat /\ group.index \in Nat
      /\ Len(group.instructions) \in Nat
      /\ DOMAIN group.instructions = 1..Len(group.instructions)
  BY BlockLists
<1>2. DOMAIN items = 1..Len(group.instructions)
  BY <1>1 DEF GroupItems
<1>3. ASSUME NEW j \in DOMAIN items
      PROVE  items[j] \in Parts /\ items[j].where = <<t, 1, group.index, g, j>>
  <2>1. items[j] \in Range(items)
    BY DEF Range
  <2>2. items[j] = InstructionItem(<<t, 1, group.index, g, j>>, group.instructions[j])
    BY <1>1, <1>2 DEF GroupItems
  <2>. QED BY <2>1, <2>2, PartsMembers DEF InstructionItem
<1>4. items \in Seq(Parts)
  <2>1. items = [ j \in 1..Len(group.instructions) |-> items[j] ]
    BY <1>1 DEF GroupItems
  <2>. HIDE DEF items
  <2>2. items \in [ 1..Len(group.instructions) -> Parts ]
    BY <1>2, <1>3, <2>1
  <2>. QED BY <1>1, <2>2
<1>5. Ordered(items, ChainOrder)
  <2>. SUFFICES ASSUME NEW j \in DOMAIN items, NEW k \in DOMAIN items, j < k
                PROVE  <<items[j], items[k]>> \in ChainOrder
    BY DEF Ordered
  <2>1. Precedes(items[j].where, items[k].where)
    <3>1. /\ j \in Nat /\ k \in Nat
          /\ items[j].where = <<t, 1, group.index, g, j>>
          /\ items[k].where = <<t, 1, group.index, g, k>>
      BY <1>2, <1>3
    <3>2. Precedes(<<t, 1, group.index, g, j>>, <<t, 1, group.index, g, k>>)
      <4>. HIDE DEF items, group
      <4>. QED BY <1>1, <3>1, CallsPart
    <3>. QED BY <3>1, <3>2, Zenon
  <2>. QED BY <1>3, <2>1 DEF ChainOrder
<1>. QED BY <1>4, <1>5

\* The instructions that instruction i called.
LEMMA InnerFacts ==
  ASSUME NEW t \in DOMAIN Block, NEW i
  PROVE  LET items == InnerItems(t, Block[t], i) IN
         /\ items \in Seq(Parts) /\ Ordered(items, ChainOrder)
         /\ \A x : x \in Range(items) <=>
              \E g \in DOMAIN Block[t].innerInstructions :
                /\ Block[t].innerInstructions[g].index = i
                /\ x \in Range(GroupItems(t, g, Block[t].innerInstructions[g]))
<1>. DEFINE inner == Block[t].innerInstructions
            Of(g) == IF inner[g].index = i THEN GroupItems(t, g, inner[g]) ELSE <<>>
            lists == [ g \in DOMAIN inner |-> Of(g) ]
<1>1. t \in Nat /\ Len(inner) \in Nat /\ DOMAIN inner = 1..Len(inner)
  BY BlockLists
<1>2. ASSUME NEW g \in DOMAIN inner
      PROVE  Of(g) \in Seq(Parts) /\ Ordered(Of(g), ChainOrder)
  BY GroupFacts DEF Ordered
<1>3. lists \in Seq(Seq(Parts)) /\ DOMAIN lists = DOMAIN inner
      /\ \A g \in DOMAIN lists : lists[g] = Of(g)
  <2>. HIDE DEF Of
  <2>. QED BY <1>1, <1>2
<1>4. \A x : \A g \in DOMAIN lists :
        x \in Range(lists[g]) <=> inner[g].index = i /\ x \in Range(GroupItems(t, g, inner[g]))
  BY <1>3 DEF Range
<1>5. ASSUME NEW g \in DOMAIN lists, NEW h \in DOMAIN lists, g < h,
             NEW x \in Range(lists[g]), NEW y \in Range(lists[h])
      PROVE  <<x, y>> \in ChainOrder
  <2>1. /\ inner[g].index = i /\ x \in Range(GroupItems(t, g, inner[g]))
        /\ inner[h].index = i /\ y \in Range(GroupItems(t, h, inner[h]))
    BY <1>4
  <2>2. PICK j \in DOMAIN inner[g].instructions : x.where = <<t, 1, i, g, j>>
    BY <2>1, Places
  <2>3. PICK k \in DOMAIN inner[h].instructions : y.where = <<t, 1, i, h, k>>
    BY <2>1, Places
  <2>4. i \in Nat /\ g \in Nat /\ h \in Nat /\ j \in Nat /\ k \in Nat
    <3>1. g \in DOMAIN inner /\ h \in DOMAIN inner
      BY <1>3, Zenon
    <3>2. inner[g].index \in Nat
      BY <3>1, BlockLists
    <3>3. j \in Nat /\ k \in Nat
      BY <3>1, BlockLists
    <3>. QED BY <1>1, <2>1, <3>1, <3>2, <3>3
  <2>5. Precedes(<<t, 1, i, g, j>>, <<t, 1, i, h, k>>)
    BY <1>1, <1>5, <2>4, GroupsPart
  <2>6. x \in Parts /\ y \in Parts
    BY <1>3, <2>1, PartsMembers
  <2>. QED BY <2>2, <2>3, <2>5, <2>6 DEF ChainOrder
<1>6. InnerItems(t, Block[t], i) = FlattenSeq(lists)
  BY DEF InnerItems
<1>7. /\ \A g \in DOMAIN lists : Ordered(lists[g], ChainOrder)
      /\ \A g, h \in DOMAIN lists : g < h => Range(lists[g]) \X Range(lists[h]) \subseteq ChainOrder
  <2>1. \A g \in DOMAIN lists : Ordered(lists[g], ChainOrder)
    <3>. HIDE DEF Of
    <3>. QED BY <1>2, <1>3
  <2>. HIDE DEF lists
  <2>. QED BY <1>5, <2>1
<1>8. /\ FlattenSeq(lists) \in Seq(Parts) /\ Ordered(FlattenSeq(lists), ChainOrder)
      /\ \A x : x \in Range(FlattenSeq(lists)) <=> \E g \in DOMAIN lists : x \in Range(lists[g])
  <2>. HIDE DEF lists
  <2>. QED BY <1>3, <1>7, FlattenFacts
<1>. QED BY <1>3, <1>4, <1>6, <1>8

LEMMA SingletonFacts ==
  ASSUME NEW X, NEW x \in X, NEW R
  PROVE  <<x>> \in Seq(X) /\ Ordered(<<x>>, R) /\ Range(<<x>>) = {x}
BY DEF Ordered, Range

\* An instruction and the ones it called.
LEMMA InstructionFacts ==
  ASSUME NEW t \in DOMAIN Block, NEW i \in DOMAIN Block[t].instructions
  PROVE  LET items == InstructionItems(t, Block[t], i) IN
         /\ items \in Seq(Parts) /\ Ordered(items, ChainOrder)
         /\ \A x : x \in Range(items) <=>
              \/ x = InstructionItem(<<t, 1, i>>, Block[t].instructions[i])
              \/ \E g \in DOMAIN Block[t].innerInstructions :
                   /\ Block[t].innerInstructions[g].index = i
                   /\ x \in Range(GroupItems(t, g, Block[t].innerInstructions[g]))
         /\ \A x \in Range(items) :
              /\ {1, 2, 3} \subseteq DOMAIN x.where
              /\ x.where[1] = t /\ x.where[2] = 1 /\ x.where[3] = i
<1>. DEFINE own == InstructionItem(<<t, 1, i>>, Block[t].instructions[i])
            inner == InnerItems(t, Block[t], i)
<1>1. t \in Nat /\ i \in Nat
  BY BlockLists
<1>2. /\ own \in Parts /\ own.where = <<t, 1, i>>
      /\ <<own>> \in Seq(Parts) /\ Ordered(<<own>>, ChainOrder) /\ Range(<<own>>) = {own}
  BY PartsMembers, Places, SingletonFacts
<1>3. /\ inner \in Seq(Parts) /\ Ordered(inner, ChainOrder)
      /\ \A x : x \in Range(inner) <=>
           \E g \in DOMAIN Block[t].innerInstructions :
             /\ Block[t].innerInstructions[g].index = i
             /\ x \in Range(GroupItems(t, g, Block[t].innerInstructions[g]))
  BY InnerFacts
<1>4. ASSUME NEW x \in Range(inner)
      PROVE  x \in Parts /\ \E g, j \in Nat : x.where = <<t, 1, i, g, j>>
  <2>1. PICK g \in DOMAIN Block[t].innerInstructions :
          /\ Block[t].innerInstructions[g].index = i
          /\ x \in Range(GroupItems(t, g, Block[t].innerInstructions[g]))
    BY <1>3
  <2>2. PICK j \in DOMAIN Block[t].innerInstructions[g].instructions :
          x.where = <<t, 1, i, g, j>>
    BY <2>1, Places
  <2>3. g \in Nat /\ j \in Nat
    BY BlockLists
  <2>. QED BY <2>1, <2>2, <2>3, PartsMembers
<1>5. Range(<<own>>) \X Range(inner) \subseteq ChainOrder
  <2>. SUFFICES ASSUME NEW x \in Range(inner) PROVE <<own, x>> \in ChainOrder
    BY <1>2
  <2>1. PICK g, j \in Nat : x.where = <<t, 1, i, g, j>>
    BY <1>4
  <2>2. Precedes(<<t, 1, i>>, <<t, 1, i, g, j>>)
    BY <1>1, CallerFirst
  <2>. QED BY <1>2, <1>4, <2>1, <2>2 DEF ChainOrder
<1>6. /\ <<own>> \o inner \in Seq(Parts)
      /\ Range(<<own>> \o inner) = {own} \cup Range(inner)
      /\ Ordered(<<own>> \o inner, ChainOrder)
  <2>. DEFINE first == <<own>>
  <2>1. Range(first \o inner) = Range(first) \cup Range(inner)
    <3>1. first \in Seq(Parts)
      BY <1>2
    <3>. HIDE DEF first, inner
    <3>. QED BY <1>3, <3>1, RangeConcatenation
  <2>. HIDE DEF own, inner
  <2>2. Ordered(<<own>> \o inner, ChainOrder)
    BY <1>2, <1>3, <1>5, OrderedConcat
  <2>. QED BY <1>2, <1>3, <2>1, <2>2, ConcatProperties
<1>7. InstructionItems(t, Block[t], i) = <<own>> \o inner
  BY DEF InstructionItems
<1>8. ASSUME NEW x \in Range(<<own>> \o inner)
      PROVE  /\ {1, 2, 3} \subseteq DOMAIN x.where
             /\ x.where[1] = t /\ x.where[2] = 1 /\ x.where[3] = i
  <2>1. CASE x = own
    BY <1>2, <2>1
  <2>2. CASE x \in Range(inner)
    <3>1. PICK g, j \in Nat : x.where = <<t, 1, i, g, j>>
      BY <1>4, <2>2
    <3>. QED BY <3>1
  <2>. QED BY <1>6, <2>1, <2>2
<1>. HIDE DEF own, inner
<1>9. \A x : x \in Range(<<own>> \o inner) <=> x = own \/ x \in Range(inner)
  BY <1>6
<1>. QED BY <1>3, <1>6, <1>7, <1>8, <1>9 DEF own

LEMMA LogFacts ==
  ASSUME NEW t \in DOMAIN Block
  PROVE  LET items == LogItems(t, Block[t]) IN
         /\ items \in Seq(Parts) /\ Ordered(items, ChainOrder)
         /\ \A x \in Range(items) :
              {1, 2} \subseteq DOMAIN x.where /\ x.where[1] = t /\ x.where[2] = 2
<1>. DEFINE logs == Block[t].logs
            items == LogItems(t, Block[t])
<1>1. t \in Nat /\ Len(logs) \in Nat /\ DOMAIN logs = 1..Len(logs)
  BY BlockLists
<1>2. DOMAIN items = 1..Len(logs) /\ items = [ l \in 1..Len(logs) |-> items[l] ]
  BY <1>1 DEF LogItems
<1>3. ASSUME NEW l \in DOMAIN items PROVE items[l] \in Parts /\ items[l].where = <<t, 2, l>>
  <2>1. items[l] \in Range(items)
    BY DEF Range
  <2>2. items[l] = LogItem(<<t, 2, l>>, logs[l])
    BY <1>1, <1>2 DEF LogItems
  <2>. QED BY <2>1, <2>2, PartsMembers DEF LogItem
<1>. HIDE DEF items
<1>4. items \in Seq(Parts)
  <2>1. items \in [ 1..Len(logs) -> Parts ]
    BY <1>2, <1>3
  <2>. QED BY <1>1, <2>1
<1>5. Ordered(items, ChainOrder)
  <2>. SUFFICES ASSUME NEW l \in DOMAIN items, NEW m \in DOMAIN items, l < m
                PROVE  <<items[l], items[m]>> \in ChainOrder
    BY DEF Ordered
  <2>1. Precedes(<<t, 2, l>>, <<t, 2, m>>)
    BY <1>1, <1>2, InstructionsPart
  <2>. QED BY <1>3, <2>1 DEF ChainOrder
<1>6. ASSUME NEW x \in Range(items)
      PROVE  {1, 2} \subseteq DOMAIN x.where /\ x.where[1] = t /\ x.where[2] = 2
  <2>1. PICK l \in DOMAIN items : x = items[l]
    BY DEF Range
  <2>2. x.where = <<t, 2, l>>
    BY <1>3, <2>1
  <2>. QED BY <2>2
<1>. QED BY <1>4, <1>5, <1>6 DEF items

\* All instructions of a transaction, each followed by the ones it called.
LEMMA InstructionListFacts ==
  ASSUME NEW t \in DOMAIN Block
  PROVE  LET items == FlattenSeq([ i \in DOMAIN Block[t].instructions |->
                                     InstructionItems(t, Block[t], i) ]) IN
         /\ items \in Seq(Parts) /\ Ordered(items, ChainOrder)
         /\ \A x : x \in Range(items) <=> x \in InstructionParts(t) \cup InnerParts(t)
         /\ \A x \in Range(items) :
              {1, 2} \subseteq DOMAIN x.where /\ x.where[1] = t /\ x.where[2] = 1
<1>. DEFINE D == DOMAIN Block[t].instructions
            inner == Block[t].innerInstructions
            lists == [ i \in D |-> InstructionItems(t, Block[t], i) ]
<1>1. t \in Nat /\ Len(Block[t].instructions) \in Nat /\ D = 1..Len(Block[t].instructions)
  BY BlockLists
<1>2. ASSUME NEW i \in D PROVE lists[i] \in Seq(Parts) /\ Ordered(lists[i], ChainOrder)
  BY InstructionFacts
<1>3. ASSUME NEW i \in D, NEW x
       PROVE  x \in Range(lists[i]) <=>
                \/ x = InstructionItem(<<t, 1, i>>, Block[t].instructions[i])
                \/ \E g \in DOMAIN inner : /\ inner[g].index = i
                                           /\ x \in Range(GroupItems(t, g, inner[g]))
  BY InstructionFacts
<1>4. ASSUME NEW i \in D, NEW x \in Range(lists[i])
       PROVE  /\ {1, 2, 3} \subseteq DOMAIN x.where
              /\ x.where[1] = t /\ x.where[2] = 1 /\ x.where[3] = i
  <2>1. x \in Range(InstructionItems(t, Block[t], i))
    OBVIOUS
  <2>. HIDE DEF lists
  <2>2. \A y \in Range(InstructionItems(t, Block[t], i)) :
          /\ {1, 2, 3} \subseteq DOMAIN y.where
          /\ y.where[1] = t /\ y.where[2] = 1 /\ y.where[3] = i
    BY InstructionFacts
  <2>. QED BY <2>1, <2>2
<1>5. DOMAIN lists = D /\ lists = [ i \in D |-> lists[i] ]
  OBVIOUS
<1>. HIDE DEF lists
<1>6. lists \in Seq(Seq(Parts))
  <2>1. lists \in [ 1..Len(Block[t].instructions) -> Seq(Parts) ]
    BY <1>1, <1>2, <1>5
  <2>. QED BY <1>1, <2>1
<1>7. ASSUME NEW i \in D, NEW k \in D, i < k, NEW x \in Range(lists[i]), NEW y \in Range(lists[k])
      PROVE  <<x, y>> \in ChainOrder
  <2>1. x \in Parts /\ y \in Parts
    BY <1>2, RangeOfSeq
  <2>2. /\ {1, 2, 3} \subseteq DOMAIN x.where
        /\ x.where[1] = t /\ x.where[2] = 1 /\ x.where[3] = i
        /\ {1, 2, 3} \subseteq DOMAIN y.where
        /\ y.where[1] = t /\ y.where[2] = 1 /\ y.where[3] = k
    BY <1>4
  <2>3. Precedes(x.where, y.where)
    BY <1>1, <1>7, <2>2, InstructionsPart
  <2>. QED BY <2>1, <2>3 DEF ChainOrder
<1>8. /\ \A i \in DOMAIN lists : Ordered(lists[i], ChainOrder)
      /\ \A i, k \in DOMAIN lists : i < k => Range(lists[i]) \X Range(lists[k]) \subseteq ChainOrder
  <2>1. \A i \in DOMAIN lists : Ordered(lists[i], ChainOrder)
    BY <1>2, <1>5
  <2>. QED BY <1>5, <1>7, <2>1
<1>9. /\ FlattenSeq(lists) \in Seq(Parts) /\ Ordered(FlattenSeq(lists), ChainOrder)
      /\ \A x : x \in Range(FlattenSeq(lists)) <=> \E i \in D : x \in Range(lists[i])
  BY <1>5, <1>6, <1>8, FlattenFacts
<1>10. ASSUME NEW x
      PROVE  x \in InstructionParts(t) \cup InnerParts(t) <=> \E i \in D : x \in Range(lists[i])
  <2>1. ASSUME NEW i \in D, x \in Range(lists[i]) PROVE x \in InstructionParts(t) \cup InnerParts(t)
    BY <1>3, <2>1 DEF InstructionParts, InnerParts
  <2>2. ASSUME x \in InstructionParts(t) PROVE \E i \in D : x \in Range(lists[i])
    <3>1. PICK i \in D : x = InstructionItem(<<t, 1, i>>, Block[t].instructions[i])
      BY <2>2 DEF InstructionParts
    <3>. QED BY <1>3, <3>1
  <2>3. ASSUME x \in InnerParts(t) PROVE \E i \in D : x \in Range(lists[i])
    <3>1. PICK g \in DOMAIN inner : x \in Range(GroupItems(t, g, inner[g]))
      BY <2>3 DEF InnerParts
    <3>2. inner[g].index \in D
      BY BlockLists
    <3>. QED BY <1>3, <3>1, <3>2
  <2>. QED BY <2>1, <2>2, <2>3
<1>11. \A x \in Range(FlattenSeq(lists)) :
        {1, 2} \subseteq DOMAIN x.where /\ x.where[1] = t /\ x.where[2] = 1
  <2>. SUFFICES ASSUME NEW x \in Range(FlattenSeq(lists))
                PROVE  {1, 2} \subseteq DOMAIN x.where /\ x.where[1] = t /\ x.where[2] = 1
    OBVIOUS
  <2>1. PICK i \in D : x \in Range(lists[i])
    BY <1>9
  <2>. QED BY <1>4, <2>1
<1>. QED BY <1>9, <1>10, <1>11 DEF lists

\* A transaction.
LEMMA TransactionFacts ==
  ASSUME NEW t \in DOMAIN Block
  PROVE  LET items == TransactionItems(t, Block[t]) IN
         /\ items \in Seq(Parts) /\ Ordered(items, ChainOrder)
         /\ \A x : x \in Range(items) <=> x \in TxParts(t)
         /\ \A x \in Range(items) : 1 \in DOMAIN x.where /\ x.where[1] = t
<1>. DEFINE first == <<TxItem(t)>>
            body  == FlattenSeq([ i \in DOMAIN Block[t].instructions |->
                                    InstructionItems(t, Block[t], i) ])
            logs  == LogItems(t, Block[t])
<1>1. t \in Nat
  BY BlockLists
<1>2. /\ TxItem(t) \in Parts /\ TxItem(t).where = <<t>>
      /\ first \in Seq(Parts) /\ Ordered(first, ChainOrder) /\ Range(first) = {TxItem(t)}
  BY PartsMembers, Places, SingletonFacts
<1>3. /\ body \in Seq(Parts) /\ Ordered(body, ChainOrder)
      /\ \A x : x \in Range(body) <=> x \in InstructionParts(t) \cup InnerParts(t)
      /\ \A x \in Range(body) :
           {1, 2} \subseteq DOMAIN x.where /\ x.where[1] = t /\ x.where[2] = 1
  BY InstructionListFacts
<1>4. /\ logs \in Seq(Parts) /\ Ordered(logs, ChainOrder)
      /\ \A x \in Range(logs) :
           {1, 2} \subseteq DOMAIN x.where /\ x.where[1] = t /\ x.where[2] = 2
  BY LogFacts
<1>5. TransactionItems(t, Block[t]) = first \o body \o logs
  BY DEF TransactionItems
<1>. HIDE DEF first, body, logs
<1>6. Range(body) \subseteq Parts /\ Range(logs) \subseteq Parts
  BY <1>3, <1>4, RangeOfSeq
<1>7. Range(first) \X Range(body) \subseteq ChainOrder
  <2>. SUFFICES ASSUME NEW x \in Range(body) PROVE <<TxItem(t), x>> \in ChainOrder
    BY <1>2
  <2>1. Precedes(<<t>>, x.where)
    BY <1>1, <1>3, TxFirst
  <2>. QED BY <1>2, <1>6, <2>1 DEF ChainOrder
<1>8. /\ first \o body \in Seq(Parts) /\ Ordered(first \o body, ChainOrder)
      /\ Range(first \o body) = {TxItem(t)} \cup Range(body)
  BY <1>2, <1>3, <1>7, OrderedConcat, ConcatProperties, RangeConcatenation
<1>9. Range(first \o body) \X Range(logs) \subseteq ChainOrder
  <2>. SUFFICES ASSUME NEW x \in {TxItem(t)} \cup Range(body), NEW y \in Range(logs)
                PROVE  <<x, y>> \in ChainOrder
    BY <1>8
  <2>1. Precedes(x.where, y.where)
    <3>1. CASE x = TxItem(t)
      <4>1. Precedes(<<t>>, y.where)
        BY <1>1, <1>4, TxFirst
      <4>. QED BY <1>2, <3>1, <4>1
    <3>2. CASE x \in Range(body)
      BY <1>1, <1>3, <1>4, <3>2, InstructionsAndLogsPart
    <3>. QED BY <3>1, <3>2
  <2>. QED BY <1>2, <1>6, <2>1 DEF ChainOrder
<1>10. /\ (first \o body) \o logs \in Seq(Parts) /\ Ordered((first \o body) \o logs, ChainOrder)
       /\ Range((first \o body) \o logs) = {TxItem(t)} \cup Range(body) \cup Range(logs)
  <2>. DEFINE front == first \o body
  <2>1. /\ front \in Seq(Parts) /\ Ordered(front, ChainOrder)
        /\ Range(front) = {TxItem(t)} \cup Range(body)
        /\ Range(front) \X Range(logs) \subseteq ChainOrder
    BY <1>8, <1>9
  <2>. HIDE DEF front
  <2>2. /\ front \o logs \in Seq(Parts) /\ Ordered(front \o logs, ChainOrder)
        /\ Range(front \o logs) = Range(front) \cup Range(logs)
    BY <1>4, <2>1, OrderedConcat, ConcatProperties, RangeConcatenation
  <2>. QED BY <2>1, <2>2 DEF front
<1>11. \A x : x \in Range((first \o body) \o logs) <=> x \in TxParts(t)
  BY <1>3, <1>10 DEF TxParts, logs
<1>12. \A x \in Range((first \o body) \o logs) : 1 \in DOMAIN x.where /\ x.where[1] = t
  BY <1>2, <1>3, <1>4, <1>10
<1>. QED BY <1>5, <1>10, <1>11, <1>12

\* The block: a list of its parts, all of them, in the order of the chain.
LEMMA BlockFacts ==
  /\ IndexBlockData \in Seq(Parts) /\ Ordered(IndexBlockData, ChainOrder)
  /\ \A x : x \in Range(IndexBlockData) <=> x \in Parts
<1>. DEFINE first == <<BlockItem>>
            lists == [ t \in DOMAIN Block |-> TransactionItems(t, Block[t]) ]
            body  == FlattenSeq(lists)
<1>1. Len(Block) \in Nat /\ DOMAIN Block = 1..Len(Block)
  BY BlockLists
<1>2. ASSUME NEW t \in DOMAIN Block
      PROVE  /\ lists[t] \in Seq(Parts) /\ Ordered(lists[t], ChainOrder)
             /\ \A x : x \in Range(lists[t]) <=> x \in TxParts(t)
             /\ \A x \in Range(lists[t]) : x \in Parts /\ 1 \in DOMAIN x.where /\ x.where[1] = t
  <2>1. lists[t] = TransactionItems(t, Block[t])
    OBVIOUS
  <2>. HIDE DEF lists
  <2>. QED BY <2>1, TransactionFacts, RangeOfSeq
<1>3. DOMAIN lists = DOMAIN Block /\ lists = [ t \in DOMAIN Block |-> lists[t] ]
  OBVIOUS
<1>4. IndexBlockData = first \o body
  BY DEF IndexBlockData
<1>5. BlockItem \in Parts /\ BlockItem.where = <<>>
  BY Places DEF Parts
<1>6. first \in Seq(Parts) /\ Ordered(first, ChainOrder) /\ Range(first) = {BlockItem}
  BY <1>5, SingletonFacts
<1>. HIDE DEF lists, first
<1>7. lists \in Seq(Seq(Parts))
  BY <1>1, <1>2, <1>3
<1>8. ASSUME NEW t \in DOMAIN lists, NEW u \in DOMAIN lists, t < u,
             NEW x \in Range(lists[t]), NEW y \in Range(lists[u])
      PROVE  <<x, y>> \in ChainOrder
  <2>1. Precedes(x.where, y.where)
    BY <1>1, <1>2, <1>3, <1>8, TxsPart
  <2>. QED BY <1>2, <1>3, <2>1 DEF ChainOrder
<1>9. /\ \A t \in DOMAIN lists : Ordered(lists[t], ChainOrder)
      /\ \A t, u \in DOMAIN lists : t < u => Range(lists[t]) \X Range(lists[u]) \subseteq ChainOrder
  BY <1>2, <1>3, <1>8
<1>10. /\ body \in Seq(Parts) /\ Ordered(body, ChainOrder)
       /\ \A x : x \in Range(body) <=> \E t \in DOMAIN lists : x \in Range(lists[t])
  BY <1>7, <1>9, FlattenFacts
<1>. HIDE DEF body
<1>11. Range(first) \X Range(body) \subseteq ChainOrder
  <2>. SUFFICES ASSUME NEW x \in Range(body) PROVE <<BlockItem, x>> \in ChainOrder
    BY <1>6
  <2>1. x \in Parts /\ 1 \in DOMAIN x.where
    BY <1>2, <1>3, <1>10
  <2>2. Precedes(<<>>, x.where)
    BY <2>1, BlockFirst
  <2>. QED BY <1>5, <2>1, <2>2 DEF ChainOrder
<1>12. /\ first \o body \in Seq(Parts) /\ Ordered(first \o body, ChainOrder)
       /\ Range(first \o body) = {BlockItem} \cup Range(body)
  BY <1>6, <1>10, <1>11, OrderedConcat, ConcatProperties, RangeConcatenation
<1>13. \A x : x \in Range(body) <=> x \in UNION { TxParts(t) : t \in DOMAIN Block }
  BY <1>2, <1>3, <1>10
<1>. QED BY <1>4, <1>12, <1>13 DEF Parts

-------------------------------------------------------------------------------
(* Projects *)

AllSources == Range(Project.dataSources) \cup Range(Project.templates)

LEMMA ProjectFacts ==
  ASSUME NEW h \in Histories, NEW n \in DOMAIN h
  PROVE  /\ Len(h) \in Nat \ {0} /\ DOMAIN h = 1..Len(h)
         /\ h[n].dataSources \in Seq(Range(h[n].dataSources))
         /\ Len(h[n].dataSources) \in Nat \ {0}
         /\ DOMAIN h[n].dataSources = 1..Len(h[n].dataSources)
         /\ h[n].templates \in Seq(Range(h[n].templates))
         /\ Len(h[n].templates) \in Nat /\ DOMAIN h[n].templates = 1..Len(h[n].templates)
         /\ \A m \in DOMAIN h : Len(h[m].templates) = Len(h[n].templates)
         /\ \A source \in Range(h[n].dataSources) \cup Range(h[n].templates) :
              /\ source.assets \in Seq(Range(source.assets))
              /\ \A a \in Range(source.assets) : a.program \in Programs
              /\ source.discriminator \in Inputs \cup {Undefined}
<1>1. h \in Seq(Range(h)) /\ h # <<>>
  BY ProjectShape
<1>2. \A m \in DOMAIN h : h[m] \in Range(h)
  BY DEF Range
<1>3. /\ h[n].dataSources \in Seq(Range(h[n].dataSources)) /\ h[n].dataSources # <<>>
      /\ h[n].templates \in Seq(Range(h[n].templates))
      /\ \A m \in DOMAIN h : Len(h[m].templates) = Len(h[n].templates)
  BY <1>2, ProjectShape
<1>4. \A source \in Range(h[n].dataSources) \cup Range(h[n].templates) :
        /\ source.assets \in Seq(Range(source.assets))
        /\ \A a \in Range(source.assets) : a.program \in Programs
        /\ source.discriminator \in Inputs \cup {Undefined}
  BY <1>2, ProjectShape
<1>. QED BY <1>1, <1>3, <1>4, LenProperties, EmptySeq

\* The manifest in force and the dynamic data sources.
ManifestOK ==
  /\ history \in Histories /\ project \in DOMAIN history
  /\ dynamic \in Seq(DOMAIN Project.templates)

LEMMA SourcesFacts ==
  ASSUME ManifestOK
  PROVE  /\ DataSources \in Seq(AllSources)
         /\ Len(DataSources) = Len(Project.dataSources) + Len(dynamic)
         /\ Len(DataSources) \in Nat \ {0} /\ DOMAIN DataSources = 1..Len(DataSources)
         /\ \A i \in DOMAIN Project.dataSources :
              i \in DOMAIN DataSources /\ DataSources[i] = Project.dataSources[i]
<1>. DEFINE created == [ i \in DOMAIN dynamic |-> Project.templates[dynamic[i]] ]
<1>1. /\ Project.dataSources \in Seq(Range(Project.dataSources))
      /\ Len(Project.dataSources) \in Nat \ {0}
      /\ DOMAIN Project.dataSources = 1..Len(Project.dataSources)
  BY ProjectFacts DEF ManifestOK, Project
<1>2. Len(dynamic) \in Nat /\ DOMAIN dynamic = 1..Len(dynamic)
      /\ \A i \in DOMAIN dynamic : dynamic[i] \in DOMAIN Project.templates
  BY LenProperties DEF ManifestOK
<1>3. \A i \in DOMAIN dynamic : Project.templates[dynamic[i]] \in AllSources
  BY <1>2 DEF AllSources, Range
<1>4. created \in Seq(AllSources) /\ Len(created) = Len(dynamic)
  <2>1. created \in [ 1..Len(dynamic) -> AllSources ]
    BY <1>2, <1>3
  <2>. HIDE DEF created
  <2>. QED BY <1>2, <2>1
<1>5. Project.dataSources \in Seq(AllSources)
  BY <1>1, SeqMonotonic DEF AllSources
<1>6. DataSources = Project.dataSources \o created
  BY DEF DataSources
<1>. HIDE DEF created
<1>7. /\ DataSources \in Seq(AllSources)
      /\ Len(DataSources) = Len(Project.dataSources) + Len(created)
      /\ \A i \in 1..(Len(Project.dataSources) + Len(created)) :
           i <= Len(Project.dataSources) => DataSources[i] = Project.dataSources[i]
  BY <1>4, <1>5, <1>6, ConcatProperties
<1>8. DOMAIN DataSources = 1..Len(DataSources)
  BY <1>7, LenProperties
<1>. QED BY <1>1, <1>2, <1>4, <1>7, <1>8

-------------------------------------------------------------------------------
(* Types *)

Call == [item : DOMAIN IndexBlockData, ds : Nat]

Types ==
  /\ ManifestOK
  /\ phase \in {"dataSources", "templates", "indexing", "failed"}
  /\ phase = "failed" <=> error # Undefined
  /\ item \in 1..(Len(IndexBlockData) + 1) /\ ds \in DOMAIN DataSources
  /\ preparing \in BOOLEAN
  /\ DOMAIN idls = Programs /\ DOMAIN memo = Inputs \X Programs
  /\ DOMAIN decoded = DOMAIN IndexBlockData
  /\ calls \in Seq(Call)

LEMMA Walk == Len(IndexBlockData) \in Nat /\ DOMAIN IndexBlockData = 1..Len(IndexBlockData)
BY BlockFacts, LenProperties

\* The loops stay within their lists.
LEMMA AdvanceFacts ==
  ASSUME NEW sources, Len(sources) \in Nat, ds \in 1..Len(sources), AtItem, item \in Nat \ {0},
         Advance(sources)
  PROVE  /\ item' \in 1..(Len(IndexBlockData) + 1) /\ ds' \in 1..Len(sources)
         /\ \/ item' = item /\ ds' = ds + 1
            \/ item' = item + 1 /\ ds' = 1 /\ ds = Len(sources)
BY Walk DEF Advance, AtItem

\* SourcesFacts after a step.
LEMMA NextSources ==
  ManifestOK' => (/\ Len(DataSources) = Len(Project.dataSources) + Len(dynamic)
                  /\ Len(DataSources) \in Nat \ {0}
                  /\ DOMAIN DataSources = 1..Len(DataSources))'
<1>1. ManifestOK => /\ Len(DataSources) = Len(Project.dataSources) + Len(dynamic)
                    /\ Len(DataSources) \in Nat \ {0}
                    /\ DOMAIN DataSources = 1..Len(DataSources)
  BY SourcesFacts
<1>. QED BY <1>1, PTL

LEMMA StartFacts ==
  ASSUME ManifestOK', StartBlock
  PROVE  /\ item' \in 1..(Len(IndexBlockData) + 1) /\ (ds \in DOMAIN DataSources)'
         /\ preparing' = FALSE /\ DOMAIN decoded' = DOMAIN IndexBlockData
         /\ calls' \in Seq(Call)
<1>1. Len(DataSources') \in Nat \ {0} /\ DOMAIN DataSources' = 1..Len(DataSources')
  BY NextSources
<1>. QED BY <1>1, Walk DEF StartBlock

LEMMA TypesInit == Init => Types
<1>. SUFFICES ASSUME Init PROVE Types
  OBVIOUS
<1>1. ManifestOK
  <2>1. 1 \in DOMAIN history
    BY ProjectFacts, ProjectShape DEF Init
  <2>. QED BY <2>1 DEF Init, ManifestOK
<1>2. ds \in DOMAIN DataSources
  BY <1>1, SourcesFacts DEF Init
<1>3. item \in 1..(Len(IndexBlockData) + 1) /\ preparing \in BOOLEAN
  <2>1. item = 1
    BY DEF Init
  <2>2. preparing \in BOOLEAN
    BY DEF Init
  <2>3. 1 \in 1..(Len(IndexBlockData) + 1)
    BY Walk
  <2>. QED BY <2>1, <2>2, <2>3
<1>4. DOMAIN idls = Programs /\ DOMAIN memo = Inputs \X Programs
      /\ DOMAIN decoded = DOMAIN IndexBlockData
  BY DEF Init
<1>5. calls \in Seq(Call)
  <2>1. <<>> \in Seq(Call)
    OBVIOUS
  <2>. QED BY <2>1 DEF Init
<1>6. phase = "dataSources" /\ error = Undefined
  BY DEF Init
<1>. QED BY <1>1, <1>2, <1>3, <1>4, <1>5, <1>6 DEF Types

LEMMA TypesStep == Types /\ [Next]_vars => Types'
<1>. SUFFICES ASSUME Types, [Next]_vars PROVE Types'
  OBVIOUS
<1>. USE DEF Types
<1>1. ASSUME UNCHANGED manifest PROVE ManifestOK' /\ UNCHANGED DataSources
  BY <1>1 DEF manifest, ManifestOK, DataSources, Project
<1>2. Len(DataSources) \in Nat \ {0} /\ DOMAIN DataSources = 1..Len(DataSources)
  BY SourcesFacts
<1>3. CASE LoadTemplates \/ ProjectLoaded \/ FileRead \/ FilterThrows
  <2>1. UNCHANGED <<manifest, walk, memo>> /\ DOMAIN idls' = DOMAIN idls
    BY <1>3 DEF LoadTemplates, ProjectLoaded, FileRead, ReadFile, FilterThrows, decoder
  <2>2. /\ phase' \in {"dataSources", "templates", "indexing", "failed"}
        /\ (phase = "failed" <=> error # Undefined)'
    BY <1>3, IndexerConstants
    DEF LoadTemplates, ProjectLoaded, FileRead, ReadFile, FilterThrows, AtItem
  <2>. QED BY <1>1, <2>1, <2>2 DEF walk
<1>4. CASE Filter
  <2>1. UNCHANGED <<manifest, phase, error, idls, decoded, calls>> /\ preparing' \in BOOLEAN
    BY <1>4 DEF Filter
  <2>2. DOMAIN memo' = DOMAIN memo
    BY <1>4 DEF Filter
  <2>3. item' \in 1..(Len(IndexBlockData) + 1) /\ ds' \in DOMAIN DataSources
    BY <1>2, <1>4, AdvanceFacts DEF Filter
  <2>. QED BY <1>1, <2>1, <2>2, <2>3
<1>5. CASE CallHandler
  <2>1. UNCHANGED <<history, project, phase, error, idls, memo>> /\ preparing' \in BOOLEAN
    BY <1>5 DEF CallHandler, decoder
  <2>2. DOMAIN decoded' = DOMAIN decoded
    BY <1>5 DEF CallHandler, Get
  <2>3. calls' \in Seq(Call)
    <3>1. item \in DOMAIN IndexBlockData /\ ds \in Nat
      BY <1>2, <1>5, Walk DEF CallHandler, AtItem
    <3>2. [item |-> item, ds |-> ds] \in Call
      BY <3>1 DEF Call
    <3>. QED BY <1>5, <3>2, AppendProperties DEF CallHandler
  <2>4. CASE UNCHANGED dynamic /\ Advance(DataSources)
    <3>1. ManifestOK' /\ UNCHANGED DataSources
      BY <1>1, <2>1, <2>4 DEF manifest
    <3>2. item' \in 1..(Len(IndexBlockData) + 1) /\ ds' \in DOMAIN DataSources
      BY <1>2, <1>5, <2>4, AdvanceFacts DEF CallHandler
    <3>. QED BY <2>1, <2>2, <2>3, <3>1, <3>2
  <2>5. ASSUME NEW i \in DOMAIN Project.templates, dynamic' = Append(dynamic, i),
               Advance(Append(DataSources, Project.templates[i]))
        PROVE  Types'
    <3>1. /\ dynamic' \in Seq(DOMAIN Project.templates) /\ Len(dynamic') = Len(dynamic) + 1
      BY <2>5, AppendProperties DEF ManifestOK
    <3>2. ManifestOK' /\ UNCHANGED Project
      BY <2>1, <3>1 DEF ManifestOK, Project
    <3>3. Len(DataSources') = Len(DataSources) + 1 /\ DOMAIN DataSources' = 1..Len(DataSources')
      <4>1. Len(Project.dataSources) \in Nat /\ Len(dynamic) \in Nat
        BY ProjectFacts, LenProperties DEF ManifestOK, Project
      <4>2. Len(DataSources) = Len(Project.dataSources) + Len(dynamic)
        BY SourcesFacts
      <4>3. /\ Len(DataSources') = Len(Project'.dataSources) + Len(dynamic')
            /\ DOMAIN DataSources' = 1..Len(DataSources')
        BY <3>2, NextSources
      <4>4. Len(Project'.dataSources) = Len(Project.dataSources)
        BY <3>2
      <4>5. Len(DataSources') = Len(Project.dataSources) + (Len(dynamic) + 1)
        BY <3>1, <4>3, <4>4
      <4>6. Len(DataSources') = Len(DataSources) + 1
        <5>. HIDE DEF Types
        <5>1. \A m, n \in Nat : m + (n + 1) = (m + n) + 1
          OBVIOUS
        <5>. QED BY <4>1, <4>2, <4>5, <5>1
      <4>. QED BY <4>3, <4>6
    <3>. DEFINE longer == Append(DataSources, Project.templates[i])
    <3>4. Len(longer) = Len(DataSources) + 1
      <4>1. Project.templates[i] \in AllSources
        BY DEF AllSources, Range
      <4>2. DataSources \in Seq(AllSources)
        BY SourcesFacts
      <4>. QED BY <4>1, <4>2, AppendProperties
    <3>5. Advance(longer)
      BY <2>5
    <3>. HIDE DEF longer
    <3>6. AtItem /\ item \in Nat \ {0} /\ ds \in 1..Len(longer) /\ Len(longer) \in Nat
      BY <1>2, <1>5, <3>4, Walk DEF CallHandler
    <3>7. item' \in 1..(Len(IndexBlockData) + 1) /\ ds' \in 1..(Len(DataSources) + 1)
      BY <3>4, <3>5, <3>6, AdvanceFacts
    <3>8. ds' \in DOMAIN DataSources'
      BY <3>3, <3>7
    <3>. QED BY <2>1, <2>2, <2>3, <3>2, <3>7, <3>8
  <2>. QED BY <1>5, <2>4, <2>5 DEF CallHandler
<1>6. CASE NextBlock
  <2>1. UNCHANGED <<manifest, phase, error, idls, memo>> /\ StartBlock
    BY <1>6 DEF NextBlock, decoder
  <2>. QED BY <1>1, <2>1, StartFacts
<1>7. CASE UpgradeProject
  <2>1. /\ UNCHANGED <<history, dynamic, error, idls, memo>> /\ StartBlock
        /\ phase = "indexing" /\ phase' = "dataSources" /\ project' = project + 1
        /\ project < Len(history)
    BY <1>7 DEF UpgradeProject, decoder, Done
  <2>2. project' \in DOMAIN history /\ Project.templates \in Seq(Range(Project.templates))
    BY <2>1, ProjectFacts DEF ManifestOK, Project
  <2>3. DOMAIN Project'.templates = DOMAIN Project.templates
    BY <2>1, <2>2, ProjectFacts DEF ManifestOK, Project
  <2>4. ManifestOK'
    BY <2>1, <2>2, <2>3 DEF ManifestOK
  <2>. QED BY <2>1, <2>4, StartFacts
<1>8. CASE UNCHANGED vars
  BY <1>1, <1>8 DEF vars, manifest
<1>. QED BY <1>3, <1>4, <1>5, <1>6, <1>7, <1>8 DEF Next
-------------------------------------------------------------------------------
(* Loading *)

\* Of these assets, rest is what a call of loadIdls has left to read: all that is
\* not in it is loaded.
LeftToRead(assets, rest) ==
  /\ rest \in Seq(Range(assets))
  /\ \A a \in Range(assets) : idls[a.program] # Undefined \/ a \in Range(rest)

\* The running calls of loadIdls are those for these data sources.
Reading(sources) ==
  /\ DOMAIN loads = DOMAIN sources
  /\ \A i \in DOMAIN sources : LeftToRead(sources[i].assets, loads[i])

\* The IDLs of these data sources are loaded.
HaveIdls(sources) ==
  \A source \in Range(sources) : \A a \in Range(source.assets) : idls[a.program] # Undefined

\* No discriminator has been read with an IDL of this program.
NotMemoized(p) == \A d \in Inputs \ DOMAIN Hex : memo[<<d, p>>] = Undefined

\* Which calls of loadIdls are running.  When an item is prepared, there is nothing
\* left for prepareFilteredData to wait for.
ReadingNow ==
  /\ phase = "dataSources" => Reading(Project.dataSources)
  /\ phase = "templates" => HaveIdls(Project.dataSources) /\ Reading(Project.templates)
  /\ phase = "indexing" => loads = IF preparing THEN << <<>> >> ELSE <<>>
  /\ preparing => item <= Len(IndexBlockData)

\* Once indexing has begun, all IDLs of the project are there.
AllThere ==
  phase = "indexing" \/ calls # <<>> \/ error = "Unable to find IDL" =>
    HaveIdls(Project.dataSources) /\ HaveIdls(Project.templates)

\* Before that, nothing is decoded.
NothingYet ==
  phase \in {"dataSources", "templates"} =>
    /\ item = 1 /\ ds = 1 /\ ~preparing /\ calls = <<>>
    /\ \A i \in DOMAIN decoded : decoded[i] = Undefined

\* An IDL is read only while nothing is memoised for its program.
FreshPrograms ==
  \A i \in DOMAIN loads : loads[i] # <<>> => NotMemoized(Head(loads[i]).program)

Loading == ReadingNow /\ AllThere /\ NothingYet /\ FreshPrograms

\* A memoised discriminator is what the decoder would return now.
Memo ==
  \A d \in Inputs, p \in Programs : memo[<<d, p>>] \in {Undefined, ParseDiscriminator(d, p)}

\* The IDLs of all earlier projects are there; so what is read now is for programs
\* that none of them brought.
Kept ==
  /\ \A n \in 1..(project - 1), p \in Programs : Brings(n, p) => idls[p] # Undefined
  /\ \A i \in DOMAIN loads : loads[i] # <<>> =>
       \A n \in 1..(project - 1) : ~Brings(n, Head(loads[i]).program)

\* An IDL comes from a file of the first project that brought one for its program.
FromProject(n, p) ==
  /\ FirstBrings(n, p)
  /\ \E a \in AssetsFor(n, p) : a.file \in DOMAIN Content /\ idls[p] = Content[a.file]

Origin == \A p \in Programs : idls[p] = Undefined \/ \E n \in 1..project : FromProject(n, p)

\* What a handler was given has been decoded.
Given ==
  \A c \in Range(calls) : IndexBlockData[c.item].decodes => decoded[c.item] # Undefined

\* The calls are behind each other and all before the place the walk has reached.
Before(c, i, d) == c.item < i \/ (c.item = i /\ c.ds < d)

Order ==
  /\ \A m, n \in DOMAIN calls : m < n => Before(calls[m], calls[n].item, calls[n].ds)
  /\ \A c \in Range(calls) : Before(c, item, ds)

\* What lies before the place the walk has reached has been handled.
Behind ==
  \A i \in DOMAIN IndexBlockData, s \in DOMAIN Project.dataSources :
    /\ i < item \/ (i = item /\ s < ds)
    /\ Accepts(IndexBlockData[i], Project.dataSources[s])
    => \E c \in Range(calls) : c.item = i /\ c.ds = s

-------------------------------------------------------------------------------
(* Loading is invariant *)

\* loadIdls passes over what is loaded and nothing else, up to its next await.
LEMMA StillToReadFacts ==
  ASSUME NEW S, NEW assets \in Seq(S), NEW cache
  PROVE  LET rest == StillToRead(assets, cache) IN
         /\ rest \in Seq(S)
         /\ \A a \in Range(assets) : cache[a.program] # Undefined \/ a \in Range(rest)
         /\ rest # <<>> => cache[Head(rest).program] = Undefined
         /\ (\A a \in Range(assets) : cache[a.program] # Undefined) => rest = <<>>
<1>. DEFINE missing == { i \in DOMAIN assets : cache[assets[i].program] = Undefined }
<1>1. Len(assets) \in Nat /\ DOMAIN assets = 1..Len(assets)
      /\ \A i \in 1..Len(assets) : assets[i] \in S
  BY LenProperties, ElementOfSeq
<1>2. \A a \in Range(assets) : \E i \in 1..Len(assets) : a = assets[i]
  BY <1>1 DEF Range
<1>3. CASE missing = {}
  <2>1. StillToRead(assets, cache) = <<>>
    BY <1>3 DEF StillToRead
  <2>. QED BY <1>1, <1>2, <1>3, <2>1
<1>4. CASE missing # {}
  <2>. DEFINE m == Min(missing)
              rest == SubSeq(assets, m, Len(assets))
  <2>1. StillToRead(assets, cache) = rest
    BY <1>4 DEF StillToRead
  <2>2. m \in missing /\ \A n \in missing : m <= n
    <3>1. missing \subseteq Nat
      BY <1>1
    <3>. HIDE DEF missing
    <3>. QED BY <1>4, <3>1, LeastElement
  <2>. HIDE DEF m
  <2>3. /\ m \in 1..Len(assets) /\ cache[assets[m].program] = Undefined
        /\ \A i \in 1..(m - 1) : cache[assets[i].program] # Undefined
    BY <1>1, <2>2
  <2>4. /\ rest \in Seq(S) /\ Len(rest) = Len(assets) - m + 1
        /\ \A i \in 1..(Len(assets) - m + 1) : rest[i] = assets[m + i - 1]
    BY <1>1, <2>3, SubSeqProperties
  <2>. HIDE DEF rest, missing
  <2>5. DOMAIN rest = 1..(Len(assets) - m + 1)
    BY <1>1, <2>3, <2>4
  <2>6. rest # <<>> /\ Head(rest) = assets[m]
    BY <1>1, <2>3, <2>4
  <2>7. ASSUME NEW i \in 1..Len(assets), i >= m PROVE assets[i] \in Range(rest)
    <3>1. PICK n \in 1..(Len(assets) - m + 1) : n = i - m + 1
      BY <1>1, <2>3, <2>7
    <3>2. m + n - 1 = i
      BY <1>1, <2>3, <3>1
    <3>3. rest[n] = assets[i]
      BY <2>4, <3>2
    <3>. QED BY <2>5, <3>3 DEF Range
  <2>8. ASSUME NEW a \in Range(assets) PROVE cache[a.program] # Undefined \/ a \in Range(rest)
    <3>1. PICK i \in 1..Len(assets) : a = assets[i]
      BY <1>2
    <3>2. CASE i < m
      BY <2>3, <3>1, <3>2
    <3>3. CASE i >= m
      BY <2>7, <3>1, <3>3
    <3>. QED BY <1>1, <2>3, <3>2, <3>3
  <2>9. assets[m] \in Range(assets)
    BY <1>1, <2>3 DEF Range
  <2>. QED BY <2>1, <2>3, <2>4, <2>6, <2>8, <2>9
<1>. QED BY <1>3, <1>4

LEMMA AssetFacts ==
  ASSUME ManifestOK, NEW source \in AllSources
  PROVE  /\ source.assets \in Seq(Range(source.assets))
         /\ \A a \in Range(source.assets) : a.program \in Programs
         /\ source.discriminator \in Inputs \cup {Undefined}
BY ProjectFacts DEF ManifestOK, AllSources, Project

LEMMA Unread == \A p \in Programs : Memo /\ idls[p] = Undefined => NotMemoized(p)
BY DEF Memo, NotMemoized, ParseDiscriminator

LEMMA NextUnread == \A p \in Programs : Memo' /\ idls'[p] = Undefined => NotMemoized(p)'
BY DEF Memo, NotMemoized, ParseDiscriminator

\* The data sources whose IDLs are being read.
Current == IF phase = "dataSources" THEN Project.dataSources ELSE Project.templates

\* While a call of loadIdls has something to read, the project is changing.
LEMMA ReadFacts ==
  ASSUME Types, Loading, phase # "failed", NEW i \in DOMAIN loads, loads[i] # <<>>
  PROVE  /\ phase \in {"dataSources", "templates"} /\ Reading(Current)
         /\ i \in DOMAIN Current /\ Current[i] \in AllSources
         /\ loads[i] \in Seq(Range(Current[i].assets))
         /\ Head(loads[i]) \in Range(Current[i].assets)
         /\ Head(loads[i]).program \in Programs /\ NotMemoized(Head(loads[i]).program)
<1>1. phase # "indexing"
  BY DEF Loading, ReadingNow
<1>2. phase \in {"dataSources", "templates"}
  BY <1>1 DEF Types
<1>3. Reading(Current)
  BY <1>2 DEF Loading, ReadingNow, Current
<1>4. i \in DOMAIN Current /\ loads[i] \in Seq(Range(Current[i].assets))
  BY <1>3 DEF Reading, LeftToRead
<1>5. Current[i] \in AllSources
  BY <1>4 DEF Current, AllSources, Range
<1>6. Head(loads[i]) \in Range(Current[i].assets)
  BY <1>4, HeadTailProperties
<1>7. Head(loads[i]).program \in Programs
  BY <1>5, <1>6, AssetFacts DEF Types
<1>. QED BY <1>2, <1>3, <1>4, <1>5, <1>6, <1>7 DEF Loading, FreshPrograms

LEMMA MemoStep == Types /\ Loading /\ Memo /\ [Next]_vars => Memo'
<1>. SUFFICES ASSUME Types, Loading, Memo, [Next]_vars,
                     NEW d \in Inputs, NEW p \in Programs
              PROVE  memo'[<<d, p>>] \in {Undefined, ParseDiscriminator(d, p)'}
  BY DEF Memo
<1>1. memo[<<d, p>>] \in {Undefined, ParseDiscriminator(d, p)}
  BY DEF Memo
<1>2. CASE UNCHANGED <<idls, memo>>
  BY <1>1, <1>2 DEF ParseDiscriminator
<1>3. CASE FileRead
  <2>1. PICK i \in DOMAIN loads : ReadFile(i)
    BY <1>3 DEF FileRead
  <2>. DEFINE program == Head(loads[i]).program
  <2>2. UNCHANGED memo /\ NotMemoized(program)
    BY <1>3, <2>1, ReadFacts DEF FileRead, ReadFile
  <2>3. p = program \/ idls'[p] = idls[p]
    BY <2>1 DEF ReadFile, Types
  <2>4. CASE p = program /\ d \notin DOMAIN Hex
    BY <2>2, <2>4 DEF NotMemoized
  <2>5. CASE idls'[p] = idls[p] \/ d \in DOMAIN Hex
    BY <1>1, <2>2, <2>5 DEF ParseDiscriminator
  <2>. QED BY <2>3, <2>4, <2>5
<1>4. CASE Filter
  <2>1. UNCHANGED idls
    BY <1>4 DEF Filter
  <2>2. \/ memo'[<<d, p>>] = memo[<<d, p>>]
        \/ memo'[<<d, p>>] = Memoized(d, p)
    BY <1>4 DEF Filter, Types
  <2>3. ParseDiscriminator(d, p)' = ParseDiscriminator(d, p)
    BY <2>1 DEF ParseDiscriminator
  <2>. QED BY <1>1, <2>2, <2>3 DEF Memoized
<1>5. CASE LoadTemplates \/ ProjectLoaded \/ FilterThrows \/ CallHandler \/ NextBlock \/ UpgradeProject
  BY <1>2, <1>5
  DEF LoadTemplates, ProjectLoaded, FilterThrows, CallHandler, NextBlock, UpgradeProject, decoder
<1>6. CASE UNCHANGED vars
  BY <1>2, <1>6 DEF vars
<1>. QED BY <1>3, <1>4, <1>5, <1>6 DEF Next

LEMMA LoadingInit == Init => Loading /\ Memo
<1>. SUFFICES ASSUME Init PROVE Loading /\ Memo
  OBVIOUS
<1>1. Types
  BY TypesInit
<1>2. Memo
  BY DEF Init, Memo
<1>3. ReadingNow
  <2>1. /\ DOMAIN loads = DOMAIN Project.dataSources
        /\ \A i \in DOMAIN Project.dataSources : loads[i] = Project.dataSources[i].assets
    BY DEF Init
  <2>2. \A i \in DOMAIN Project.dataSources : Project.dataSources[i] \in AllSources
    BY DEF AllSources, Range
  <2>3. \A i \in DOMAIN Project.dataSources : LeftToRead(Project.dataSources[i].assets, loads[i])
    BY <1>1, <2>1, <2>2, AssetFacts DEF LeftToRead, Types
  <2>4. phase = "dataSources" /\ preparing = FALSE
    BY DEF Init
  <2>. QED BY <2>1, <2>3, <2>4 DEF ReadingNow, Reading
<1>4. AllThere
  <2>1. phase = "dataSources" /\ calls = <<>> /\ error = Undefined
    BY DEF Init
  <2>. QED BY <2>1, IndexerConstants DEF AllThere
<1>5. NothingYet
  <2>1. item = 1 /\ ds = 1 /\ preparing = FALSE /\ calls = <<>>
        /\ \A i \in DOMAIN decoded : decoded[i] = Undefined
    BY DEF Init
  <2>. QED BY <2>1 DEF NothingYet
<1>6. FreshPrograms
  <2>1. ASSUME NEW i \in DOMAIN loads, loads[i] # <<>>
        PROVE  Head(loads[i]).program \in Programs
    <3>1. phase # "failed"
      BY DEF Init
    <3>2. loads[i] \in Seq(Range(Project.dataSources[i].assets)) /\ i \in DOMAIN Project.dataSources
      BY <1>3 DEF Init, ReadingNow, Reading, LeftToRead
    <3>3. Project.dataSources[i] \in AllSources
      BY <3>2 DEF AllSources, Range
    <3>. QED BY <1>1, <2>1, <3>2, <3>3, AssetFacts, HeadTailProperties DEF Types
  <2>2. \A p \in Programs : idls[p] = Undefined
    BY DEF Init
  <2>. QED BY <1>2, <2>1, <2>2, Unread DEF FreshPrograms
<1>. QED BY <1>2, <1>3, <1>4, <1>5, <1>6 DEF Loading

\* The calls of loadIdls for several data sources have begun.
LEMMA LoadIdlsFacts ==
  ASSUME NEW sources, LoadIdls(sources), UNCHANGED idls, Memo',
         \A source \in Range(sources) :
           /\ source.assets \in Seq(Range(source.assets))
           /\ \A a \in Range(source.assets) : a.program \in Programs
  PROVE  /\ DOMAIN loads' = DOMAIN sources
         /\ \A i \in DOMAIN sources :
              /\ loads'[i] \in Seq(Range(sources[i].assets))
              /\ \A a \in Range(sources[i].assets) :
                   idls'[a.program] # Undefined \/ a \in Range(loads'[i])
         /\ FreshPrograms'
         /\ HaveIdls(sources) => \A i \in DOMAIN sources : loads'[i] = <<>>
         /\ \A i \in DOMAIN sources : loads'[i] # <<>> =>
              /\ Head(loads'[i]).program \in Programs
              /\ idls'[Head(loads'[i]).program] = Undefined
<1>1. /\ DOMAIN loads' = DOMAIN sources
      /\ \A i \in DOMAIN sources : loads'[i] = StillToRead(sources[i].assets, idls)
  BY DEF LoadIdls
<1>2. \A i \in DOMAIN sources : sources[i] \in Range(sources)
  BY DEF Range
<1>3. ASSUME NEW i \in DOMAIN sources
      PROVE  /\ loads'[i] \in Seq(Range(sources[i].assets))
             /\ \A a \in Range(sources[i].assets) :
                  idls[a.program] # Undefined \/ a \in Range(loads'[i])
             /\ loads'[i] # <<>> => idls[Head(loads'[i]).program] = Undefined
             /\ HaveIdls(sources) => loads'[i] = <<>>
  <2>1. sources[i].assets \in Seq(Range(sources[i].assets))
    BY <1>2
  <2>2. HaveIdls(sources) => \A a \in Range(sources[i].assets) : idls[a.program] # Undefined
    BY <1>2 DEF HaveIdls
  <2>. QED BY <1>1, <2>1, <2>2, StillToReadFacts
<1>4. ASSUME NEW i \in DOMAIN sources, loads'[i] # <<>>
      PROVE  /\ Head(loads'[i]).program \in Programs
             /\ idls'[Head(loads'[i]).program] = Undefined
  <2>1. Head(loads'[i]) \in Range(sources[i].assets)
    BY <1>3, <1>4, HeadTailProperties
  <2>. QED BY <1>2, <1>3, <1>4, <2>1
<1>5. FreshPrograms'
  BY <1>1, <1>4, NextUnread DEF FreshPrograms
<1>. QED BY <1>1, <1>3, <1>4, <1>5

\* All calls of loadIdls have returned.
LEMMA LoadedFacts ==
  ASSUME NEW sources, Reading(sources), Loaded
  PROVE  HaveIdls(sources)
<1>. SUFFICES ASSUME NEW source \in Range(sources), NEW a \in Range(source.assets)
              PROVE  idls[a.program] # Undefined
  BY DEF HaveIdls
<1>1. PICK i \in DOMAIN sources : source = sources[i]
  BY DEF Range
<1>2. loads[i] = <<>>
  BY DEF Loaded, Reading
<1>3. a \notin Range(loads[i])
  BY <1>2 DEF Range
<1>. QED BY <1>1, <1>3 DEF Reading, LeftToRead

\* A file has been read.
LEMMA FileReadFacts ==
  ASSUME Types, Loading, FileRead
  PROVE  /\ UNCHANGED <<manifest, memo, walk>>
         /\ phase \in {"dataSources", "templates"}
         /\ \/ UNCHANGED <<idls, loads>> /\ phase' = "failed" /\ error' = "Failed to load datasource IDL"
            \/ /\ UNCHANGED <<phase, error>>
               /\ \E i \in DOMAIN Current : \E asset \in Range(Current[i].assets) :
                    /\ asset.file \in DOMAIN Content /\ asset.program \in Programs
                    /\ idls' = [idls EXCEPT ![asset.program] = Content[asset.file]]
                    /\ loads[i] \in Seq(Range(Current[i].assets)) /\ loads[i] # <<>>
                    /\ asset = Head(loads[i])
                    /\ loads' = [loads EXCEPT ![i] = StillToRead(Tail(loads[i]), idls')]
<1>1. phase # "failed" /\ UNCHANGED <<manifest, memo, walk>>
  BY DEF FileRead
<1>2. PICK i \in DOMAIN loads : ReadFile(i)
  BY DEF FileRead
<1>3. loads[i] # <<>>
  BY <1>2 DEF ReadFile
<1>4. /\ phase \in {"dataSources", "templates"} /\ i \in DOMAIN Current
      /\ loads[i] \in Seq(Range(Current[i].assets))
      /\ Head(loads[i]) \in Range(Current[i].assets) /\ Head(loads[i]).program \in Programs
  BY <1>1, <1>3, ReadFacts
<1>. QED BY <1>1, <1>2, <1>3, <1>4 DEF ReadFile

\* Nothing is unloaded.
LEMMA Keeps ==
  ASSUME Types, Loading, FileRead
  PROVE  \A p \in Programs : idls[p] # Undefined => idls'[p] # Undefined
<1>1. \A f \in DOMAIN Content : Content[f] # Undefined
  BY IdlValues DEF Range
<1>2. \A p \in Programs : p \in DOMAIN idls
  BY DEF Types
<1>3. CASE UNCHANGED <<idls, loads>>
  BY <1>3
<1>4. CASE ~UNCHANGED <<idls, loads>>
  <2>1. PICK i \in DOMAIN Current : \E asset \in Range(Current[i].assets) :
          /\ asset.file \in DOMAIN Content /\ asset.program \in Programs
          /\ idls' = [idls EXCEPT ![asset.program] = Content[asset.file]]
    BY <1>4, FileReadFacts
  <2>2. PICK asset \in Range(Current[i].assets) :
          /\ asset.file \in DOMAIN Content /\ asset.program \in Programs
          /\ idls' = [idls EXCEPT ![asset.program] = Content[asset.file]]
    BY <2>1
  <2>3. \A p \in Programs : p # asset.program => idls'[p] = idls[p]
    BY <1>2, <2>2
  <2>. QED BY <1>1, <1>2, <2>2, <2>3
<1>. QED BY <1>3, <1>4

LEMMA FileReadStep ==
  ASSUME Types, Loading, FileRead, Memo'
  PROVE  Loading'
<1>1. UNCHANGED <<manifest, memo, walk>> /\ phase \in {"dataSources", "templates"}
  BY FileReadFacts
<1>2. UNCHANGED <<history, project, dynamic, memo, item, ds, preparing, decoded, calls>>
  BY <1>1 DEF manifest, walk
<1>3. item = 1 /\ ds = 1 /\ ~preparing /\ calls = <<>> /\ NothingYet'
  <2>1. /\ item = 1 /\ ds = 1 /\ ~preparing /\ calls = <<>>
        /\ \A j \in DOMAIN decoded : decoded[j] = Undefined
    BY <1>1 DEF Loading, NothingYet
  <2>. QED BY <1>2, <2>1 DEF NothingYet
<1>4. CASE /\ UNCHANGED <<idls, loads>> /\ phase' = "failed"
           /\ error' = "Failed to load datasource IDL"
  <2>1. ReadingNow'
    BY <1>2, <1>3, <1>4 DEF ReadingNow
  <2>2. AllThere'
    BY <1>2, <1>3, <1>4 DEF AllThere
  <2>3. FreshPrograms'
    BY <1>2, <1>4 DEF Loading, FreshPrograms, NotMemoized
  <2>. QED BY <1>3, <2>1, <2>2, <2>3 DEF Loading
<1>5. ASSUME UNCHANGED <<phase, error>>, NEW i \in DOMAIN Current, NEW asset \in Range(Current[i].assets),
             asset.file \in DOMAIN Content, asset.program \in Programs,
             idls' = [idls EXCEPT ![asset.program] = Content[asset.file]],
             loads[i] \in Seq(Range(Current[i].assets)), loads[i] # <<>>, asset = Head(loads[i]),
             loads' = [loads EXCEPT ![i] = StillToRead(Tail(loads[i]), idls')]
      PROVE  Loading'
  <2>. DEFINE S    == Range(Current[i].assets)
              tail == Tail(loads[i])
              rest == StillToRead(tail, idls')
  <2>1. Reading(Current)
    BY <1>1 DEF Loading, ReadingNow, Current
  <2>2. tail \in Seq(S) /\ \A a \in Range(loads[i]) : a = asset \/ a \in Range(tail)
    <3>1. /\ tail \in Seq(S) /\ Len(tail) = Len(loads[i]) - 1
          /\ \A j \in 1..Len(tail) : tail[j] = loads[i][j + 1]
      BY <1>5, HeadTailProperties
    <3>2. DOMAIN loads[i] = 1..Len(loads[i]) /\ DOMAIN tail = 1..Len(tail) /\ Len(loads[i]) \in Nat
      BY <1>5, <3>1, LenProperties
    <3>3. loads[i][1] = asset
      BY <1>5
    <3>4. ASSUME NEW j \in 1..Len(loads[i]) PROVE loads[i][j] = asset \/ loads[i][j] \in Range(tail)
      <4>1. CASE j = 1
        BY <3>3, <4>1
      <4>2. CASE j # 1
        <5>1. PICK k \in 1..Len(tail) : j = k + 1
          BY <3>1, <3>2, <4>2
        <5>2. loads[i][j] = tail[k]
          BY <3>1, <5>1
        <5>. QED BY <3>2, <5>2 DEF Range
      <4>. QED BY <4>1, <4>2
    <3>. HIDE DEF tail
    <3>. QED BY <3>1, <3>2, <3>4 DEF Range
  <2>. HIDE DEF tail
  <2>3. /\ rest \in Seq(S)
        /\ \A a \in Range(tail) : idls'[a.program] # Undefined \/ a \in Range(rest)
        /\ rest # <<>> => idls'[Head(rest).program] = Undefined
    BY <2>2, StillToReadFacts
  <2>. HIDE DEF rest
  <2>4. loads' = [loads EXCEPT ![i] = rest] /\ DOMAIN loads = DOMAIN Current /\ i \in DOMAIN loads
    BY <1>5, <2>1 DEF rest, tail, Reading
  <2>5. idls'[asset.program] # Undefined
    <3>1. Content[asset.file] # Undefined
      BY <1>5, IdlValues DEF Range
    <3>. QED BY <1>5, <3>1 DEF Types
  <2>5a. \A j \in DOMAIN Current : \A a \in Range(Current[j].assets) : a.program \in Programs
    <3>1. \A j \in DOMAIN Current : Current[j] \in AllSources
      BY DEF Current, AllSources, Range
    <3>. QED BY <3>1, AssetFacts DEF Types
  <2>6. ASSUME NEW j \in DOMAIN Current
        PROVE  /\ loads'[j] \in Seq(Range(Current[j].assets))
               /\ \A a \in Range(Current[j].assets) :
                    idls'[a.program] # Undefined \/ a \in Range(loads'[j])
    <3>1. /\ loads[j] \in Seq(Range(Current[j].assets))
          /\ \A a \in Range(Current[j].assets) :
               idls[a.program] # Undefined \/ a \in Range(loads[j])
      BY <2>1 DEF Reading, LeftToRead
    <3>2. CASE j # i
      BY <2>4, <2>5a, <3>1, <3>2, Keeps
    <3>3. CASE j = i
      <4>1. loads'[i] = rest
        BY <2>4
      <4>2. ASSUME NEW a \in S PROVE idls'[a.program] # Undefined \/ a \in Range(rest)
        BY <2>2, <2>3, <2>5, <2>5a, <3>1, <3>3, Keeps
      <4>. QED BY <2>3, <3>3, <4>1, <4>2
    <3>. QED BY <3>2, <3>3
  <2>7. UNCHANGED <<Project, Current>>
    BY <1>2, <1>5 DEF Project, Current
  <2>8. Reading(Current)'
    BY <2>4, <2>6, <2>7 DEF Reading, LeftToRead
  <2>9. ReadingNow'
    <3>1. phase = "templates" => HaveIdls(Project.dataSources)'
      <4>1. \A source \in Range(Project.dataSources) : \A a \in Range(source.assets) :
              a.program \in Programs
        BY AssetFacts DEF AllSources, Types
      <4>. QED BY <2>7, <4>1, Keeps DEF Loading, ReadingNow, HaveIdls
    <3>. QED BY <1>1, <1>2, <1>3, <1>5, <2>7, <2>8, <3>1 DEF ReadingNow, Current
  <2>10. AllThere'
    <3>1. error = Undefined
      BY <1>1 DEF Types
    <3>. QED BY <1>1, <1>2, <1>3, <1>5, <3>1, IndexerConstants DEF AllThere
  <2>11. FreshPrograms'
    <3>1. ASSUME NEW j \in DOMAIN loads', loads'[j] # <<>>
          PROVE  NotMemoized(Head(loads[j]).program)'
      <4>1. CASE j # i
        <5>1. loads'[j] = loads[j] /\ j \in DOMAIN loads
          BY <2>4, <4>1
        <5>2. NotMemoized(Head(loads[j]).program)
          BY <3>1, <5>1 DEF Loading, FreshPrograms
        <5>. QED BY <1>2, <5>1, <5>2 DEF NotMemoized
      <4>2. CASE j = i
        <5>1. loads'[j] = rest
          BY <2>4, <4>2
        <5>2. Head(rest) \in S
          BY <2>3, <3>1, <5>1, HeadTailProperties
        <5>3. Current[i] \in AllSources
          BY DEF Current, AllSources, Range
        <5>4. Head(rest).program \in Programs
          BY <5>2, <5>3, AssetFacts DEF Types
        <5>. QED BY <2>3, <3>1, <5>1, <5>4, NextUnread
      <4>. QED BY <4>1, <4>2
    <3>. QED BY <3>1 DEF FreshPrograms
  <2>. QED BY <1>3, <2>9, <2>10, <2>11 DEF Loading
<1>. QED BY <1>4, <1>5, FileReadFacts

LEMMA LoadingStep == Types /\ Loading /\ Memo' /\ [Next]_vars => Loading'
<1>. SUFFICES ASSUME Types, Loading, Memo', [Next]_vars PROVE Loading'
  OBVIOUS
<1>1. /\ phase = "indexing" => error = Undefined
      /\ phase \in {"dataSources", "templates"} => error = Undefined
      /\ Undefined # "Unable to find IDL"
  BY IndexerConstants DEF Types
<1>2. ASSUME UNCHANGED <<history, project, idls>>
      PROVE  /\ UNCHANGED Project
             /\ HaveIdls(Project.dataSources)' = HaveIdls(Project.dataSources)
             /\ HaveIdls(Project.templates)' = HaveIdls(Project.templates)
  BY <1>2 DEF Project, HaveIdls
<1>3. CASE LoadTemplates
  <2>1. /\ UNCHANGED <<history, project, idls, error, item, ds, preparing, decoded, calls>>
        /\ phase = "dataSources" /\ phase' = "templates" /\ LoadIdls(Project.templates)
        /\ Loaded
    BY <1>3 DEF LoadTemplates, manifest, decoder, walk
  <2>2. HaveIdls(Project.dataSources)
    BY <2>1, LoadedFacts DEF Loading, ReadingNow
  <2>3. \A source \in Range(Project.templates) :
          /\ source.assets \in Seq(Range(source.assets))
          /\ \A a \in Range(source.assets) : a.program \in Programs
    BY AssetFacts DEF Types, AllSources
  <2>4. /\ DOMAIN loads' = DOMAIN Project.templates
        /\ \A i \in DOMAIN Project.templates :
             /\ loads'[i] \in Seq(Range(Project.templates[i].assets))
             /\ \A a \in Range(Project.templates[i].assets) :
                  idls'[a.program] # Undefined \/ a \in Range(loads'[i])
        /\ FreshPrograms'
    BY <2>1, <2>3, LoadIdlsFacts
  <2>5. UNCHANGED Project /\ HaveIdls(Project.dataSources)'
    BY <1>2, <2>1, <2>2
  <2>6. Reading(Project.templates)'
    BY <2>4, <2>5 DEF Reading, LeftToRead
  <2>7. NothingYet /\ calls = <<>> /\ ~preparing
    BY <2>1 DEF Loading, NothingYet
  <2>8. NothingYet'
    BY <2>1, <2>7 DEF NothingYet
  <2>9. ReadingNow'
    BY <2>1, <2>5, <2>6, <2>7 DEF ReadingNow
  <2>10. AllThere'
    BY <1>1, <2>1, <2>7 DEF AllThere
  <2>. QED BY <2>4, <2>8, <2>9, <2>10 DEF Loading
<1>4. CASE ProjectLoaded
  <2>1. /\ UNCHANGED <<history, project, idls, error, item, ds, preparing, decoded, calls>>
        /\ phase = "templates" /\ phase' = "indexing" /\ loads' = <<>> /\ Loaded
    BY <1>4 DEF ProjectLoaded, manifest, decoder, walk
  <2>2. HaveIdls(Project.dataSources) /\ HaveIdls(Project.templates)
    BY <2>1, LoadedFacts DEF Loading, ReadingNow
  <2>3. ~preparing
    BY <2>1 DEF Loading, NothingYet
  <2>4. ReadingNow'
    BY <2>1, <2>3 DEF ReadingNow
  <2>5. AllThere'
    BY <1>2, <2>1, <2>2 DEF AllThere
  <2>6. NothingYet' /\ FreshPrograms'
    BY <2>1 DEF NothingYet, FreshPrograms
  <2>. QED BY <2>4, <2>5, <2>6 DEF Loading
<1>5. CASE FileRead
  BY <1>5, FileReadStep
<1>6. CASE FilterThrows
  <2>1. /\ UNCHANGED <<history, project, idls, memo, loads, item, preparing, calls>>
        /\ phase = "indexing" /\ phase' = "failed"
    BY <1>6 DEF FilterThrows, AtItem, manifest, decoder, walk
  <2>2. ReadingNow'
    BY <2>1 DEF Loading, ReadingNow
  <2>3. AllThere'
    BY <1>2, <2>1 DEF Loading, AllThere
  <2>4. NothingYet' /\ FreshPrograms'
    BY <2>1 DEF Loading, NothingYet, FreshPrograms, NotMemoized
  <2>. QED BY <2>2, <2>3, <2>4 DEF Loading
<1>7. CASE Filter
  <2>1. /\ UNCHANGED <<history, project, phase, error, idls, calls>>
        /\ phase = "indexing" /\ item <= Len(IndexBlockData) /\ ~preparing
    BY <1>7 DEF Filter, AtItem, manifest
  <2>2. loads = <<>> /\ HaveIdls(Project.dataSources) /\ HaveIdls(Project.templates)
    BY <2>1 DEF Loading, ReadingNow, AllThere
  <2>3. AllThere' /\ NothingYet'
    BY <1>2, <2>1, <2>2 DEF AllThere, NothingYet
  <2>4. CASE UNCHANGED <<preparing, loads>>
    BY <2>1, <2>2, <2>3, <2>4 DEF Loading, ReadingNow, FreshPrograms
  <2>5. CASE preparing' = TRUE /\ LoadIdls(<<Source>>) /\ UNCHANGED item
    <3>1. Source \in AllSources
      BY SourcesFacts, ElementOfSeq DEF Types, Source
    <3>2. Range(<<Source>>) = {Source}
      BY DEF Range
    <3>3. HaveIdls(<<Source>>)
      BY <2>2, <3>1, <3>2 DEF HaveIdls, AllSources
    <3>4. \A source \in Range(<<Source>>) :
            /\ source.assets \in Seq(Range(source.assets))
            /\ \A a \in Range(source.assets) : a.program \in Programs
      BY <3>1, <3>2, AssetFacts DEF Types
    <3>5. /\ DOMAIN loads' = DOMAIN <<Source>> /\ FreshPrograms'
          /\ \A i \in DOMAIN <<Source>> : loads'[i] = <<>>
      BY <2>1, <2>5, <3>3, <3>4, LoadIdlsFacts
    <3>6. loads' = << <<>> >>
      BY <2>5, <3>5 DEF LoadIdls
    <3>. QED BY <2>1, <2>3, <2>5, <3>5, <3>6 DEF Loading, ReadingNow
  <2>. QED BY <1>7, <2>4, <2>5 DEF Filter
<1>8. CASE CallHandler
  <2>1. /\ UNCHANGED <<history, project, phase, error, idls>>
        /\ phase = "indexing" /\ preparing' = FALSE /\ loads' = <<>>
    BY <1>8 DEF CallHandler, AtItem, decoder
  <2>2. ReadingNow' /\ NothingYet' /\ FreshPrograms'
    BY <2>1 DEF ReadingNow, NothingYet, FreshPrograms
  <2>3. AllThere'
    BY <1>2, <2>1 DEF Loading, AllThere
  <2>. QED BY <2>2, <2>3 DEF Loading
<1>9. CASE NextBlock
  <2>1. /\ UNCHANGED <<history, project, phase, error, idls, loads>>
        /\ phase = "indexing" /\ item > Len(IndexBlockData) /\ preparing' = FALSE
    BY <1>9 DEF NextBlock, Done, StartBlock, manifest, decoder
  <2>2. loads = <<>>
    <3>1. item \in Nat
      BY Walk DEF Types
    <3>2. ~preparing
      BY <2>1, <3>1, Walk DEF Loading, ReadingNow
    <3>. QED BY <2>1, <3>2 DEF Loading, ReadingNow
  <2>3. ReadingNow' /\ NothingYet' /\ FreshPrograms'
    BY <2>1, <2>2 DEF ReadingNow, NothingYet, FreshPrograms
  <2>4. AllThere'
    BY <1>2, <2>1 DEF Loading, AllThere
  <2>. QED BY <2>3, <2>4 DEF Loading
<1>10. CASE UpgradeProject
  <2>1. /\ UNCHANGED <<history, error, idls>>
        /\ phase = "indexing" /\ phase' = "dataSources" /\ project' = project + 1
        /\ project < Len(history) /\ LoadIdls(history[project + 1].dataSources) /\ StartBlock
    BY <1>10 DEF UpgradeProject, Done, decoder
  <2>. DEFINE sources == history[project + 1].dataSources
  <2>2. project + 1 \in DOMAIN history
    BY <2>1, ProjectFacts DEF Types, ManifestOK
  <2>3. \A source \in Range(sources) :
          /\ source.assets \in Seq(Range(source.assets))
          /\ \A a \in Range(source.assets) : a.program \in Programs
    BY <2>2, ProjectFacts DEF Types, ManifestOK
  <2>4. Project'.dataSources = sources
    BY <2>1 DEF Project
  <2>. HIDE DEF sources
  <2>5. LoadIdls(sources)
    BY <2>1 DEF sources
  <2>6. /\ DOMAIN loads' = DOMAIN sources
        /\ \A i \in DOMAIN sources :
             /\ loads'[i] \in Seq(Range(sources[i].assets))
             /\ \A a \in Range(sources[i].assets) :
                  idls'[a.program] # Undefined \/ a \in Range(loads'[i])
        /\ FreshPrograms'
    BY <2>1, <2>3, <2>5, LoadIdlsFacts
  <2>7. Reading(Project.dataSources)'
    BY <2>4, <2>6 DEF Reading, LeftToRead
  <2>8. NothingYet' /\ calls' = <<>> /\ ~preparing'
    BY <2>1 DEF NothingYet, StartBlock
  <2>9. ReadingNow'
    BY <2>1, <2>7, <2>8 DEF ReadingNow
  <2>10. AllThere'
    BY <1>1, <2>1, <2>8 DEF AllThere
  <2>. QED BY <2>6, <2>8, <2>9, <2>10 DEF Loading
<1>11. CASE UNCHANGED vars
  <2>1. UNCHANGED <<history, project, phase, error, loads, idls, memo, item, ds, preparing, decoded, calls>>
    BY <1>11 DEF vars
  <2>2. ReadingNow'
    BY <1>2, <2>1 DEF Loading, ReadingNow, Reading, LeftToRead
  <2>3. AllThere'
    BY <1>2, <2>1 DEF Loading, AllThere
  <2>4. NothingYet' /\ FreshPrograms'
    BY <2>1 DEF Loading, NothingYet, FreshPrograms, NotMemoized
  <2>. QED BY <2>2, <2>3, <2>4 DEF Loading
<1>. QED BY <1>3, <1>4, <1>5, <1>6, <1>7, <1>8, <1>9, <1>10, <1>11 DEF Next

-------------------------------------------------------------------------------
(* What was decoded *)

\* The data decoded in the current block are what the decoder would return now.
DecodedNow ==
  \A i \in DOMAIN decoded : decoded[i] = Undefined \/ decoded[i] = Decode(IndexBlockData[i])

\* Decoding always has a result, null if nothing else.
LEMMA DecodeDefined == \A it : Decode(it) # Undefined
BY IndexerConstants DEF Decode, DecodeData

\* A handler is called.
LEMMA CallFacts ==
  ASSUME Types, CallHandler
  PROVE  LET call == [item |-> item, ds |-> ds] IN
         /\ call \in Call /\ Len(calls) \in Nat /\ DOMAIN calls = 1..Len(calls)
         /\ DOMAIN calls' = 1..(Len(calls) + 1) /\ calls'[Len(calls) + 1] = call
         /\ \A m \in 1..Len(calls) : calls'[m] = calls[m]
         /\ \A c : c \in Range(calls') <=> c \in Range(calls) \/ c = call
<1>. DEFINE call == [item |-> item, ds |-> ds]
<1>1. item \in DOMAIN IndexBlockData /\ ds \in Nat
  <2>1. item \in 1..(Len(IndexBlockData) + 1) /\ item <= Len(IndexBlockData)
    BY DEF CallHandler, AtItem, Types
  <2>2. ds \in 1..Len(DataSources) /\ Len(DataSources) \in Nat
    BY SourcesFacts DEF Types
  <2>. QED BY <2>1, <2>2, Walk
<1>2. call \in Call
  BY <1>1 DEF Call
<1>3. calls' = Append(calls, call) /\ calls \in Seq(Call)
  BY DEF CallHandler, Types
<1>. HIDE DEF call
<1>4. /\ Len(calls) \in Nat /\ DOMAIN calls = 1..Len(calls)
      /\ calls' \in Seq(Call) /\ Len(calls') = Len(calls) + 1
      /\ calls'[Len(calls) + 1] = call /\ \A m \in 1..Len(calls) : calls'[m] = calls[m]
  BY <1>2, <1>3, AppendProperties, LenProperties
<1>5. DOMAIN calls' = 1..(Len(calls) + 1)
  BY <1>4, LenProperties
<1>6. \A m \in 1..(Len(calls) + 1) : m \in 1..Len(calls) \/ m = Len(calls) + 1
  BY <1>4
<1>7. \A c : c \in Range(calls') <=> c \in Range(calls) \/ c = call
  <2>1. 1..Len(calls) \subseteq 1..(Len(calls) + 1) /\ Len(calls) + 1 \in 1..(Len(calls) + 1)
    BY <1>4
  <2>. QED BY <1>4, <1>5, <1>6, <2>1 DEF Range
<1>. QED BY <1>2, <1>4, <1>5, <1>7 DEF call

LEMMA DecodedStep ==
  Types /\ Loading /\ DecodedNow /\ Given /\ [Next]_vars => DecodedNow' /\ Given'
<1>. SUFFICES ASSUME Types, Loading, DecodedNow, Given, [Next]_vars PROVE DecodedNow' /\ Given'
  OBVIOUS
<1>1. CASE UNCHANGED <<idls, decoded, calls>>
  BY <1>1 DEF DecodedNow, Given, Decode
<1>2. CASE FileRead
  <2>1. UNCHANGED <<decoded, calls>> /\ phase \in {"dataSources", "templates"}
    BY <1>2, FileReadFacts DEF walk
  <2>2. \A i \in DOMAIN decoded : decoded[i] = Undefined
    BY <2>1 DEF Loading, NothingYet
  <2>. QED BY <2>1, <2>2 DEF DecodedNow, Given
<1>3. CASE CallHandler
  <2>1. UNCHANGED idls /\ calls' = Append(calls, [item |-> item, ds |-> ds])
    BY <1>3 DEF CallHandler, decoder
  <2>2. PICK other \in DOMAIN IndexBlockData : decoded' = Get({item, other})
    BY <1>3 DEF CallHandler
  <2>3. item \in DOMAIN decoded
    BY <1>3, Walk DEF CallHandler, AtItem, Types
  <2>4. DOMAIN decoded' = DOMAIN decoded
    BY <2>2 DEF Get
  <2>5. ASSUME NEW i \in DOMAIN decoded
        PROVE  /\ decoded[i] # Undefined => decoded'[i] = decoded[i]
               /\ decoded[i] = Undefined =>
                    decoded'[i] \in {Undefined, Decode(IndexBlockData[i])}
               /\ i = item /\ IndexBlockData[i].decodes => decoded'[i] # Undefined
    BY <2>2, <2>5, DecodeDefined DEF Get
  <2>6. DecodedNow'
    <3>1. \A i \in DOMAIN decoded : Decode(IndexBlockData[i])' = Decode(IndexBlockData[i])
      BY <2>1 DEF Decode
    <3>. QED BY <2>4, <2>5, <3>1 DEF DecodedNow
  <2>7. Given'
    <3>. SUFFICES ASSUME NEW c \in Range(calls'), IndexBlockData[c.item].decodes
                  PROVE  decoded'[c.item] # Undefined
      BY DEF Given
    <3>1. c \in Range(calls) \/ c = [item |-> item, ds |-> ds]
      BY <1>3, CallFacts
    <3>2. CASE c \in Range(calls)
      <4>1. c \in Call
        BY <3>2, RangeOfSeq DEF Types
      <4>2. c.item \in DOMAIN decoded
        BY <4>1 DEF Call, Types
      <4>. QED BY <2>5, <3>2, <4>2 DEF Given
    <3>3. CASE c = [item |-> item, ds |-> ds]
      BY <2>3, <2>5, <3>3
    <3>. QED BY <3>1, <3>2, <3>3
  <2>. QED BY <2>6, <2>7
<1>4. CASE NextBlock \/ UpgradeProject
  <2>1. StartBlock
    BY <1>4 DEF NextBlock, UpgradeProject
  <2>2. calls' = <<>> /\ \A i \in DOMAIN decoded' : decoded'[i] = Undefined
    BY <2>1 DEF StartBlock
  <2>. QED BY <2>2 DEF DecodedNow, Given, Range
<1>5. CASE LoadTemplates \/ ProjectLoaded \/ FilterThrows \/ Filter
  BY <1>1, <1>5 DEF LoadTemplates, ProjectLoaded, FilterThrows, Filter, decoder, walk
<1>6. CASE UNCHANGED vars
  BY <1>1, <1>6 DEF vars
<1>. QED BY <1>2, <1>3, <1>4, <1>5, <1>6 DEF Next

\* What a project brings is in the assets of its data sources and templates.
LEMMA AssetsForMembers ==
  ASSUME NEW n, NEW p, NEW a
  PROVE  a \in AssetsFor(n, p) <=>
           /\ a.program = p
           /\ \E source \in Range(history[n].dataSources) \cup Range(history[n].templates) :
                a \in Range(source.assets)
BY DEF AssetsFor

LEMMA BroughtLoaded ==
  ASSUME HaveIdls(Project.dataSources), HaveIdls(Project.templates), NEW p,
         Brings(project, p)
  PROVE  idls[p] # Undefined
<1>1. PICK a : a \in AssetsFor(project, p)
  BY DEF Brings
<1>2. PICK source \in Range(Project.dataSources) \cup Range(Project.templates) :
        a \in Range(source.assets)
  BY <1>1, AssetsForMembers DEF Project
<1>3. a.program = p
  BY <1>1, AssetsForMembers
<1>. QED BY <1>2, <1>3 DEF HaveIdls

\* The earlier projects stay as they are.
LEMMA SameHistory ==
  ASSUME UNCHANGED history
  PROVE  \A n, p : /\ AssetsFor(n, p)' = AssetsFor(n, p) /\ Brings(n, p)' = Brings(n, p)
                   /\ FirstBrings(n, p)' = FirstBrings(n, p)
BY DEF AssetsFor, Brings, FirstBrings

LEMMA KeptStep == Types /\ Loading /\ Loading' /\ Memo' /\ Kept /\ [Next]_vars => Kept'
<1>. SUFFICES ASSUME Types, Loading, Loading', Memo', Kept, [Next]_vars PROVE Kept'
  OBVIOUS
<1>0. project \in Nat \ {0} /\ UNCHANGED history
  <2>1. project \in Nat \ {0}
    BY ProjectFacts DEF Types, ManifestOK
  <2>. QED
    BY <2>1 DEF Next, LoadTemplates, ProjectLoaded, FileRead, FilterThrows, Filter, CallHandler,
                NextBlock, UpgradeProject, manifest, vars
<1>1. \A n, p : Brings(n, p)' = Brings(n, p)
  BY <1>0, SameHistory
\* It suffices that the IDLs of earlier projects are there and that nothing is read
\* for a program whose IDL is.
<1>2. ASSUME \A n \in 1..(project' - 1), p \in Programs : Brings(n, p) => idls'[p] # Undefined,
             NEW i \in DOMAIN loads', Head(loads'[i]).program \in Programs,
             idls'[Head(loads'[i]).program] = Undefined
      PROVE  \A n \in 1..(project' - 1) : ~Brings(n, Head(loads'[i]).program)
  BY <1>1, <1>2
<1>3. CASE UNCHANGED <<idls, loads, project>>
  BY <1>1, <1>3 DEF Kept
<1>4. CASE UNCHANGED <<idls, project>> /\ \A i \in DOMAIN loads' : loads'[i] = <<>>
  BY <1>1, <1>4 DEF Kept
<1>5. CASE LoadTemplates
  <2>1. UNCHANGED <<idls, project>> /\ LoadIdls(Project.templates)
    BY <1>5 DEF LoadTemplates, decoder, manifest
  <2>2. \A source \in Range(Project.templates) :
          /\ source.assets \in Seq(Range(source.assets))
          /\ \A a \in Range(source.assets) : a.program \in Programs
    BY AssetFacts DEF Types, AllSources
  <2>3. /\ DOMAIN loads' = DOMAIN Project.templates
        /\ \A i \in DOMAIN Project.templates : loads'[i] # <<>> =>
             /\ Head(loads'[i]).program \in Programs
             /\ idls'[Head(loads'[i]).program] = Undefined
    BY <2>1, <2>2, LoadIdlsFacts
  <2>4. \A n \in 1..(project' - 1), p \in Programs : Brings(n, p) => idls'[p] # Undefined
    BY <2>1 DEF Kept
  <2>. QED BY <1>1, <1>2, <2>3, <2>4 DEF Kept
<1>6. CASE UpgradeProject
  <2>1. /\ UNCHANGED idls /\ project' = project + 1 /\ phase = "indexing"
        /\ project < Len(history) /\ LoadIdls(history[project + 1].dataSources)
    BY <1>6 DEF UpgradeProject, decoder, Done
  <2>2. \A n \in 1..(project' - 1), p \in Programs : Brings(n, p) => idls'[p] # Undefined
    <3>1. \A p : Brings(project, p) => idls[p] # Undefined
      BY <2>1, BroughtLoaded DEF Loading, AllThere
    <3>2. \A n \in 1..(project' - 1) : n = project \/ n \in 1..(project - 1)
      BY <1>0, <2>1
    <3>. QED BY <2>1, <3>1, <3>2 DEF Kept
  <2>3. \A source \in Range(history[project + 1].dataSources) :
          /\ source.assets \in Seq(Range(source.assets))
          /\ \A a \in Range(source.assets) : a.program \in Programs
    <3>1. project + 1 \in DOMAIN history
      BY <1>0, <2>1, ProjectFacts DEF Types, ManifestOK
    <3>. QED BY <3>1, ProjectFacts DEF Types, ManifestOK
  <2>4. /\ DOMAIN loads' = DOMAIN history[project + 1].dataSources
        /\ \A i \in DOMAIN history[project + 1].dataSources : loads'[i] # <<>> =>
             /\ Head(loads'[i]).program \in Programs
             /\ idls'[Head(loads'[i]).program] = Undefined
    BY <2>1, <2>3, LoadIdlsFacts
  <2>. QED BY <1>1, <1>2, <2>2, <2>4 DEF Kept
<1>7. CASE FileRead
  <2>1. UNCHANGED project
    BY <1>7 DEF FileRead, manifest
  <2>2. CASE UNCHANGED <<idls, loads>>
    BY <1>3, <2>1, <2>2
  <2>3. ASSUME NEW i \in DOMAIN Current, NEW asset \in Range(Current[i].assets),
               loads[i] \in Seq(Range(Current[i].assets)), loads[i] # <<>>,
               loads' = [loads EXCEPT ![i] = StillToRead(Tail(loads[i]), idls')]
        PROVE  Kept'
    <3>. DEFINE rest == StillToRead(Tail(loads[i]), idls')
    <3>1. \A n \in 1..(project' - 1), p \in Programs : Brings(n, p) => idls'[p] # Undefined
      BY <1>7, <2>1, Keeps DEF Kept
    <3>2. Tail(loads[i]) \in Seq(Range(Current[i].assets))
      BY <2>3, HeadTailProperties
    <3>3. rest \in Seq(Range(Current[i].assets))
          /\ (rest # <<>> => idls'[Head(rest).program] = Undefined)
      BY <3>2, StillToReadFacts
    <3>. HIDE DEF rest
    <3>4. rest # <<>> => Head(rest).program \in Programs
      <4>1. Current[i] \in AllSources
        BY DEF Current, AllSources, Range
      <4>. QED BY <3>3, <4>1, AssetFacts, HeadTailProperties DEF Types
    <3>5. ASSUME NEW j \in DOMAIN loads', loads'[j] # <<>>
          PROVE  \A n \in 1..(project' - 1) : ~Brings(n, Head(loads'[j]).program)
      <4>1. DOMAIN loads' = DOMAIN loads
        BY <2>3
      <4>2. CASE j = i
        <5>1. loads'[j] = rest
          BY <2>3, <4>1, <4>2 DEF rest
        <5>. QED BY <1>2, <3>1, <3>3, <3>4, <3>5, <5>1
      <4>3. CASE j # i
        <5>1. loads'[j] = loads[j]
          BY <2>3, <4>1, <4>3
        <5>. QED BY <1>1, <2>1, <3>5, <4>1, <5>1 DEF Kept
      <4>. QED BY <4>2, <4>3
    <3>. QED BY <1>1, <3>1, <3>5 DEF Kept
  <2>. QED BY <1>7, <2>2, <2>3, FileReadFacts
<1>8. CASE ProjectLoaded \/ Filter \/ CallHandler
  <2>1. UNCHANGED <<idls, project>> /\ phase' = "indexing"
    BY <1>8 DEF ProjectLoaded, Filter, CallHandler, AtItem, decoder, manifest
  <2>2. \A i \in DOMAIN loads' : loads'[i] = <<>>
    BY <2>1 DEF Loading, ReadingNow
  <2>. QED BY <1>4, <2>1, <2>2
<1>9. CASE FilterThrows \/ NextBlock \/ UNCHANGED vars
  BY <1>3, <1>9 DEF FilterThrows, NextBlock, decoder, manifest, vars
<1>. QED BY <1>5, <1>6, <1>7, <1>8, <1>9 DEF Next

LEMMA OriginStep == Types /\ Loading /\ Kept /\ Origin /\ [Next]_vars => Origin'
<1>. SUFFICES ASSUME Types, Loading, Kept, Origin, [Next]_vars PROVE Origin'
  OBVIOUS
<1>0. project \in Nat \ {0} /\ UNCHANGED history
  <2>1. project \in Nat \ {0}
    BY ProjectFacts DEF Types, ManifestOK
  <2>. QED
    BY <2>1 DEF Next, LoadTemplates, ProjectLoaded, FileRead, FilterThrows, Filter, CallHandler,
                NextBlock, UpgradeProject, manifest, vars
<1>1. \A n, p : UNCHANGED AssetsFor(n, p) /\ UNCHANGED FirstBrings(n, p)
  BY <1>0, SameHistory
<1>2. CASE UNCHANGED idls /\ project' \in {project, project + 1}
  <2>1. \A n \in 1..project : n \in 1..project'
    BY <1>0, <1>2
  <2>. QED BY <1>1, <1>2, <2>1 DEF Origin, FromProject
<1>3. CASE FileRead
  <2>1. UNCHANGED project
    BY <1>3 DEF FileRead, manifest
  <2>2. CASE UNCHANGED idls
    BY <1>2, <2>1, <2>2
  <2>3. ASSUME NEW i \in DOMAIN Current, NEW asset \in Range(Current[i].assets),
               asset.file \in DOMAIN Content, asset.program \in Programs,
               idls' = [idls EXCEPT ![asset.program] = Content[asset.file]],
               loads[i] # <<>>, asset = Head(loads[i])
        PROVE  Origin'
    <3>1. Current[i] \in Range(history[project].dataSources) \cup Range(history[project].templates)
      BY DEF Current, Project, Range
    <3>2. asset \in AssetsFor(project, asset.program)
      BY <3>1, AssetsForMembers
    <3>3. \A n \in 1..(project - 1) : ~Brings(n, asset.program)
      <4>1. phase \in {"dataSources", "templates"}
        BY <1>3, FileReadFacts
      <4>2. i \in DOMAIN loads
        BY <4>1 DEF Loading, ReadingNow, Reading, Current
      <4>. QED BY <2>3, <4>2 DEF Kept
    <3>4. FirstBrings(project, asset.program)
      BY <3>2, <3>3 DEF FirstBrings, Brings
    <3>5. idls'[asset.program] = Content[asset.file]
          /\ \A p \in Programs : p # asset.program => idls'[p] = idls[p]
      BY <2>3 DEF Types
    <3>6. FromProject(project, asset.program)'
      BY <1>1, <2>1, <2>3, <3>2, <3>4, <3>5 DEF FromProject
    <3>7. ASSUME NEW p \in Programs, p # asset.program
          PROVE  idls'[p] = Undefined \/ \E n \in 1..project' : FromProject(n, p)'
      BY <1>1, <2>1, <3>5, <3>7 DEF Origin, FromProject
    <3>8. project' \in 1..project'
      BY <1>0, <2>1
    <3>. QED BY <2>1, <3>6, <3>7, <3>8 DEF Origin
  <2>. QED BY <1>3, <2>2, <2>3, FileReadFacts
<1>4. CASE LoadTemplates \/ ProjectLoaded \/ FilterThrows \/ Filter \/ CallHandler \/ NextBlock
           \/ UpgradeProject \/ UNCHANGED vars
  <2>1. UNCHANGED idls /\ project' \in {project, project + 1}
    BY <1>4 DEF LoadTemplates, ProjectLoaded, FilterThrows, Filter, CallHandler, NextBlock,
                UpgradeProject, decoder, manifest, vars
  <2>. QED BY <1>2, <2>1
<1>. QED BY <1>3, <1>4 DEF Next

-------------------------------------------------------------------------------
(* The walk *)

\* The walk goes on by one data source, or past all of them to the next item.
Onward ==
  \/ item' = item /\ ds' = ds + 1
  \/ item' = item + 1 /\ ds' = 1 /\ \A s \in DOMAIN Project.dataSources : s <= ds

LEMMA OnwardFacts ==
  ASSUME Types, (Filter /\ ~UNCHANGED <<item, ds>>) \/ CallHandler
  PROVE  Onward
<1>1. /\ Len(DataSources) \in Nat /\ ds \in 1..Len(DataSources)
      /\ \A s \in DOMAIN Project.dataSources : s \in 1..Len(DataSources)
      /\ DataSources \in Seq(AllSources)
  BY SourcesFacts DEF Types
<1>2. item \in Nat \ {0} /\ AtItem
  BY Walk DEF Types, Filter, CallHandler
<1>3. ASSUME Advance(DataSources) PROVE Onward
  BY <1>1, <1>2, <1>3, AdvanceFacts DEF Onward
<1>4. ASSUME NEW i \in DOMAIN Project.templates, Advance(Append(DataSources, Project.templates[i]))
      PROVE  Onward
  <2>. DEFINE longer == Append(DataSources, Project.templates[i])
  <2>1. Len(longer) = Len(DataSources) + 1
    <3>1. Project.templates[i] \in AllSources
      BY DEF AllSources, Range
    <3>. QED BY <1>1, <3>1, AppendProperties
  <2>2. Advance(longer)
    BY <1>4
  <2>. HIDE DEF longer
  <2>3. Len(longer) \in Nat /\ ds \in 1..Len(longer)
    BY <1>1, <2>1
  <2>. QED BY <1>1, <1>2, <2>1, <2>2, <2>3, AdvanceFacts DEF Onward
<1>5. CASE Filter /\ ~UNCHANGED <<item, ds>>
  BY <1>3, <1>5 DEF Filter
<1>6. CASE CallHandler
  BY <1>3, <1>4, <1>6 DEF CallHandler
<1>. QED BY <1>5, <1>6

LEMMA OrderStep == Types /\ Loading /\ Order /\ [Next]_vars => Order'
<1>. SUFFICES ASSUME Types, Loading, Order, [Next]_vars PROVE Order'
  OBVIOUS
<1>1. CASE UNCHANGED <<item, ds, calls>>
  BY <1>1 DEF Order, Before
<1>2. item \in Nat /\ ds \in Nat /\ \A c \in Range(calls) : c.item \in Nat /\ c.ds \in Nat
  <2>1. \A c \in Range(calls) : c \in Call
    BY RangeOfSeq DEF Types
  <2>2. \A c \in Call : c.item \in Nat /\ c.ds \in Nat
    BY Walk DEF Call
  <2>3. item \in Nat
    BY Walk DEF Types
  <2>4. ds \in 1..Len(DataSources) /\ Len(DataSources) \in Nat
    BY SourcesFacts DEF Types
  <2>5. ds \in Nat
    BY <2>4
  <2>. QED BY <2>1, <2>2, <2>3, <2>5
<1>3. ASSUME Onward, NEW c \in Range(calls) PROVE Before(c, item', ds')
  BY <1>2, <1>3 DEF Onward, Order, Before
<1>4. CASE Filter /\ ~UNCHANGED <<item, ds>>
  <2>1. Onward /\ UNCHANGED calls
    BY <1>4, OnwardFacts DEF Filter
  <2>. QED BY <1>3, <2>1 DEF Order, Before
<1>5. CASE CallHandler
  <2>. DEFINE call == [item |-> item, ds |-> ds]
  <2>1. Onward
    BY <1>5, OnwardFacts
  <2>2. /\ Len(calls) \in Nat /\ DOMAIN calls = 1..Len(calls)
        /\ DOMAIN calls' = 1..(Len(calls) + 1) /\ calls'[Len(calls) + 1] = call
        /\ \A m \in 1..Len(calls) : calls'[m] = calls[m]
        /\ \A c : c \in Range(calls') <=> c \in Range(calls) \/ c = call
    BY <1>5, CallFacts
  <2>3. call.item = item /\ call.ds = ds
    OBVIOUS
  <2>. HIDE DEF call
  <2>4. \A c \in Range(calls') : Before(c, item', ds')
    <3>1. Before(call, item', ds')
      BY <1>2, <2>1, <2>3 DEF Before, Onward
    <3>. QED BY <1>3, <2>1, <2>2, <3>1
  <2>5. ASSUME NEW m \in DOMAIN calls', NEW n \in DOMAIN calls', m < n
        PROVE  Before(calls'[m], calls'[n].item, calls'[n].ds)
    <3>1. m \in 1..Len(calls) /\ calls'[m] = calls[m] /\ calls[m] \in Range(calls)
      BY <2>2, <2>5 DEF Range
    <3>2. CASE n \in 1..Len(calls)
      BY <2>2, <2>5, <3>1, <3>2 DEF Order
    <3>3. CASE n = Len(calls) + 1
      BY <2>2, <2>3, <3>1, <3>3 DEF Order
    <3>. QED BY <2>2, <3>2, <3>3
  <2>. QED BY <2>4, <2>5 DEF Order
<1>6. CASE NextBlock \/ UpgradeProject
  <2>1. calls' = <<>>
    BY <1>6 DEF NextBlock, UpgradeProject, StartBlock
  <2>. QED BY <2>1 DEF Order, Range
<1>7. CASE LoadTemplates \/ ProjectLoaded \/ FileRead \/ FilterThrows
  BY <1>1, <1>7 DEF LoadTemplates, ProjectLoaded, FileRead, FilterThrows, walk
<1>8. CASE Filter /\ UNCHANGED <<item, ds>>
  BY <1>1, <1>8 DEF Filter
<1>9. CASE UNCHANGED vars
  BY <1>1, <1>9 DEF vars
<1>. QED BY <1>4, <1>5, <1>6, <1>7, <1>8, <1>9 DEF Next

\* While no IDL changes the filters decide as before, whatever is memoised: for
\* the parts of a block and the data sources of a project.
Filtered(it, source) ==
  /\ it.kind = "Instruction" => it.program \in Programs
  /\ source.discriminator \in Inputs \cup {Undefined}

LEMMA AcceptsStable ==
  ASSUME NEW it, NEW source, Filtered(it, source), Memo, Memo', UNCHANGED idls
  PROVE  Accepts(it, source)' <=> Accepts(it, source)
<1>1. ASSUME NEW d \in Inputs, NEW p \in Programs
      PROVE  Memoized(d, p) = ParseDiscriminator(d, p) /\ Memoized(d, p)' = ParseDiscriminator(d, p)'
  BY DEF Memo, Memoized
<1>2. \A d, p : ParseDiscriminator(d, p)' = ParseDiscriminator(d, p)
  BY DEF ParseDiscriminator
<1>. QED BY <1>1, <1>2 DEF Filtered, Accepts

LEMMA PartPrograms == \A it \in Parts : it.kind = "Instruction" => it.program \in Programs
<1>1. \A where, inst : /\ InstructionItem(where, inst).program = inst.program
                       /\ LogItem(where, inst).kind = "Log"
  BY DEF InstructionItem, LogItem
<1>2. BlockItem.kind = "Block" /\ \A t : TxItem(t).kind = "Transaction"
  BY DEF BlockItem, TxItem
<1>3. ASSUME NEW t \in DOMAIN Block, NEW it \in TxParts(t), it.kind = "Instruction"
      PROVE  it.program \in Programs
  <2>1. Block[t] \in Range(Block)
    BY DEF Range
  <2>2. CASE it = TxItem(t)
    BY <1>2, <1>3, <2>2
  <2>3. ASSUME NEW i \in DOMAIN Block[t].instructions,
               it = InstructionItem(<<t, 1, i>>, Block[t].instructions[i])
        PROVE  it.program \in Programs
    <3>1. Block[t].instructions[i] \in Range(Block[t].instructions)
      BY DEF Range
    <3>. QED BY <1>1, <2>1, <2>3, <3>1, BlockShape
  <2>4. ASSUME NEW g \in DOMAIN Block[t].innerInstructions,
               it \in Range(GroupItems(t, g, Block[t].innerInstructions[g]))
        PROVE  it.program \in Programs
    <3>. DEFINE group == Block[t].innerInstructions[g]
    <3>1. group \in Range(Block[t].innerInstructions)
      BY DEF Range
    <3>2. PICK j \in DOMAIN group.instructions :
            it = InstructionItem(<<t, 1, group.index, g, j>>, group.instructions[j])
      BY <2>4 DEF GroupItems, Range
    <3>3. group.instructions[j] \in Range(group.instructions)
      BY DEF Range
    <3>4. group.instructions[j].program \in Programs
      BY <2>1, <3>1, <3>3, BlockShape
    <3>. QED BY <1>1, <3>2, <3>4
  <2>5. CASE it \in Range(LogItems(t, Block[t]))
    <3>1. PICK l : it = LogItem(<<t, 2, l>>, Block[t].logs[l])
      BY <2>5 DEF LogItems, Range
    <3>. QED BY <1>1, <1>3, <3>1
  <2>. QED BY <2>2, <2>3, <2>4, <2>5 DEF TxParts, InstructionParts, InnerParts
<1>. QED BY <1>2, <1>3 DEF Parts

LEMMA ManifestLists ==
  ManifestOK => /\ Len(Project.dataSources) \in Nat
                /\ DOMAIN Project.dataSources = 1..Len(Project.dataSources)
BY ProjectFacts DEF ManifestOK, Project

LEMMA NextManifestLists ==
  ManifestOK' => (/\ Len(Project.dataSources) \in Nat
                  /\ DOMAIN Project.dataSources = 1..Len(Project.dataSources))'
BY ManifestLists, PTL

\* Every part is filtered alike before and after.
LEMMA PartsStable ==
  ASSUME Types, Memo, Memo', UNCHANGED <<idls, history, project>>,
         NEW i \in DOMAIN IndexBlockData, NEW s \in DOMAIN Project.dataSources
  PROVE  LET it == IndexBlockData[i]
             source == Project.dataSources[s]
         IN  Accepts(it, source)' <=> Accepts(it, source)

<1>. DEFINE it == IndexBlockData[i]
<1>1. PICK source : source = Project.dataSources[s]
  OBVIOUS
<1>2. it \in Parts
  BY BlockFacts, ElementOfSeq, Walk
<1>3. source \in AllSources
  BY <1>1 DEF AllSources, Range
<1>4. Filtered(it, source)
  BY <1>2, <1>3, PartPrograms, AssetFacts DEF Filtered, Types
<1>5. Accepts(it, source)' <=> Accepts(it, source)
  BY <1>4, AcceptsStable
<1>6. UNCHANGED Project
  BY DEF Project
<1>7. Accepts(it, Project.dataSources[s])' <=> Accepts(it, source)'
  BY <1>1, <1>6 DEF Accepts, Memoized, ParseDiscriminator
<1>. QED BY <1>1, <1>5, <1>7

\* What was behind the walk stays handled if calls are only added.
LEMMA BehindKept ==
  ASSUME Types, Memo, Memo', Behind, UNCHANGED <<idls, history, project>>,
         Range(calls) \subseteq Range(calls'),
         NEW i \in DOMAIN IndexBlockData, NEW s \in DOMAIN Project.dataSources,
         i < item \/ (i = item /\ s < ds), Accepts(IndexBlockData[i], Project.dataSources[s])'
  PROVE  \E c \in Range(calls') : c.item = i /\ c.ds = s
<1>1. Accepts(IndexBlockData[i], Project.dataSources[s])
  BY PartsStable
<1>. QED BY <1>1 DEF Behind

LEMMA BehindStep == Types /\ Types' /\ Loading /\ Memo /\ Memo' /\ Behind /\ [Next]_vars => Behind'
<1>. SUFFICES ASSUME Types, Types', Loading, Memo, Memo', Behind, [Next]_vars,
                     NEW i \in DOMAIN IndexBlockData, NEW s \in DOMAIN Project'.dataSources,
                     i < item' \/ (i = item' /\ s < ds'),
                     Accepts(IndexBlockData[i], Project.dataSources[s])'
              PROVE  \E c \in Range(calls') : c.item = i /\ c.ds = s
  BY DEF Behind
<1>1. i \in Nat \ {0} /\ s \in Nat \ {0}
  BY Walk, NextManifestLists DEF Types
<1>2. item \in Nat /\ ds \in Nat
  <2>1. ds \in 1..Len(DataSources) /\ Len(DataSources) \in Nat
    BY SourcesFacts DEF Types
  <2>2. ds \in Nat
    BY <2>1
  <2>. QED BY <2>2, Walk DEF Types
<1>3. CASE item' = 1 /\ ds' = 1
  BY <1>1, <1>3
<1>4. CASE UNCHANGED <<item, ds, calls, idls, history, project>>
  <2>1. UNCHANGED Project
    BY <1>4 DEF Project
  <2>. QED BY <1>4, <2>1, BehindKept
<1>5. ASSUME Onward PROVE i < item \/ (i = item /\ s < ds) \/ (i = item /\ s = ds)
                          \/ s \notin DOMAIN Project.dataSources
  BY <1>1, <1>2, <1>5 DEF Onward
<1>6. CASE Filter
  <2>1. UNCHANGED <<calls, idls, history, project>>
    BY <1>6 DEF Filter, manifest
  <2>2. UNCHANGED Project
    BY <2>1 DEF Project
  <2>3. CASE UNCHANGED <<item, ds>>
    BY <1>4, <2>1, <2>3
  <2>4. CASE ~UNCHANGED <<item, ds>>
    <3>1. Onward /\ ~Accepts(Item, Source)
      BY <1>6, <2>4, OnwardFacts DEF Filter
    <3>2. CASE i < item \/ (i = item /\ s < ds)
      BY <2>1, <2>2, <3>2, BehindKept
    <3>3. CASE i = item /\ s = ds
      <4>1. DataSources[s] = Project.dataSources[s]
        BY <2>2, SourcesFacts DEF Types
      <4>2. ~Accepts(IndexBlockData[i], Project.dataSources[s])
        BY <3>1, <3>3, <4>1 DEF Item, Source
      <4>. QED BY <2>1, <2>2, <4>2, PartsStable
    <3>. QED BY <1>5, <2>2, <3>1, <3>2, <3>3
  <2>. QED BY <2>3, <2>4
<1>7. CASE CallHandler
  <2>1. UNCHANGED <<idls, history, project>>
    BY <1>7 DEF CallHandler, decoder
  <2>2. UNCHANGED Project
    BY <2>1 DEF Project
  <2>3. \A c : c \in Range(calls') <=> c \in Range(calls) \/ c = [item |-> item, ds |-> ds]
    BY <1>7, CallFacts
  <2>4. Onward
    BY <1>7, OnwardFacts
  <2>5. CASE i < item \/ (i = item /\ s < ds)
    BY <2>1, <2>2, <2>3, <2>5, BehindKept
  <2>6. CASE i = item /\ s = ds
    <3>. DEFINE call == [item |-> item, ds |-> ds]
    <3>1. call.item = i /\ call.ds = s /\ call \in Range(calls')
      BY <2>3, <2>6
    <3>. QED BY <3>1
  <2>. QED BY <1>5, <2>2, <2>4, <2>5, <2>6
<1>8. CASE NextBlock \/ UpgradeProject
  BY <1>3, <1>8 DEF NextBlock, UpgradeProject, StartBlock
<1>9. CASE FileRead
  <2>1. UNCHANGED <<item, ds>> /\ phase \in {"dataSources", "templates"}
    BY <1>9, FileReadFacts DEF walk
  <2>. QED BY <1>3, <2>1 DEF Loading, NothingYet
<1>10. CASE LoadTemplates \/ ProjectLoaded \/ FilterThrows
  BY <1>4, <1>10 DEF LoadTemplates, ProjectLoaded, FilterThrows, walk, manifest, decoder
<1>11. CASE UNCHANGED vars
  BY <1>4, <1>11 DEF vars
<1>. QED BY <1>6, <1>7, <1>8, <1>9, <1>10, <1>11 DEF Next

-------------------------------------------------------------------------------
(* The filter that throws *)

\* A filter that threw had no IDL for the program of the item.
Missing == error = "Unable to find IDL" => idls[Item.program] = Undefined

LEMMA MissingStep == Types /\ Missing /\ [Next]_vars => Missing'
<1>. SUFFICES ASSUME Types, Missing, [Next]_vars PROVE Missing'
  OBVIOUS
<1>1. CASE UNCHANGED vars
  BY <1>1 DEF vars, Missing, Item
<1>2. CASE FilterThrows
  <2>1. UNCHANGED <<idls, item>>
    BY <1>2 DEF FilterThrows, decoder, walk
  <2>2. error' = "Unable to find IDL" => idls[Item.program] = Undefined
    BY <1>2 DEF FilterThrows
  <2>. QED BY <2>1, <2>2 DEF Missing, Item
<1>3. CASE LoadTemplates \/ ProjectLoaded \/ FileRead \/ Filter \/ CallHandler
           \/ NextBlock \/ UpgradeProject
  <2>1. phase # "failed"
    BY <1>3 DEF LoadTemplates, ProjectLoaded, FileRead, Filter, CallHandler, NextBlock,
                UpgradeProject, AtItem, Done
  <2>2. error = Undefined
    BY <2>1 DEF Types
  <2>3. error' \in {error, "Failed to load datasource IDL"}
    BY <1>3 DEF LoadTemplates, ProjectLoaded, FileRead, ReadFile, Filter, CallHandler, NextBlock,
                UpgradeProject
  <2>. QED BY <2>2, <2>3, IndexerConstants DEF Missing
<1>. QED BY <1>1, <1>2, <1>3 DEF Next

-------------------------------------------------------------------------------
(* The invariant and what follows from it *)

Inv ==
  /\ Types /\ Loading /\ Memo /\ DecodedNow /\ Given
  /\ Kept /\ Origin /\ Missing /\ Order /\ Behind

LEMMA InvInit == Init => Inv
<1>. SUFFICES ASSUME Init PROVE Inv
  OBVIOUS
<1>1. Types /\ Loading /\ Memo
  BY TypesInit, LoadingInit
<1>2. /\ calls = <<>> /\ item = 1 /\ ds = 1
      /\ \A i \in DOMAIN decoded : decoded[i] = Undefined
      /\ \A p \in Programs : idls[p] = Undefined
  BY DEF Init
<1>3. DecodedNow /\ Given /\ Origin /\ Order
  BY <1>2 DEF DecodedNow, Given, Origin, Order, Range
<1>3a. Kept
  <2>1. project = 1
    BY DEF Init
  <2>2. 1..(project - 1) = {}
    BY <2>1
  <2>. QED BY <2>2 DEF Kept
<1>4. Behind
  <2>1. \A i \in DOMAIN IndexBlockData, s \in DOMAIN Project.dataSources :
          ~(i < item \/ (i = item /\ s < ds))
    <3>1. \A i \in DOMAIN IndexBlockData : i \in Nat \ {0}
      BY Walk
    <3>2. \A s \in DOMAIN Project.dataSources : s \in Nat \ {0}
      BY <1>1, ManifestLists DEF Types
    <3>. QED BY <1>2, <3>1, <3>2
  <2>. QED BY <2>1 DEF Behind
<1>5. Missing
  <2>1. error = Undefined
    BY DEF Init
  <2>. QED BY <2>1, IndexerConstants DEF Missing
<1>. QED BY <1>1, <1>3, <1>3a, <1>4, <1>5 DEF Inv

LEMMA InvStep == Inv /\ [Next]_vars => Inv'
<1>. SUFFICES ASSUME Inv, [Next]_vars PROVE Inv'
  OBVIOUS
<1>1. Types'
  BY TypesStep DEF Inv
<1>2. Memo'
  BY MemoStep DEF Inv
<1>3. Loading'
  BY <1>2, LoadingStep DEF Inv
<1>4. DecodedNow' /\ Given'
  BY DecodedStep DEF Inv
<1>5. Kept' /\ Origin'
  BY <1>2, <1>3, KeptStep, OriginStep DEF Inv
<1>6. Order'
  BY OrderStep DEF Inv
<1>7. Behind'
  BY <1>1, <1>2, BehindStep DEF Inv
<1>8. Missing'
  BY MissingStep DEF Inv
<1>. QED BY <1>1, <1>2, <1>3, <1>4, <1>5, <1>6, <1>7, <1>8 DEF Inv

LEMMA Invariance == Spec => []Inv
<1>. QED BY InvInit, InvStep, PTL DEF Spec

\* The types; calls of loadIdls run only while the project changes or an item is
\* prepared, and only a process that failed has an error.
THEOREM TypeCorrect == Spec => []TypeOK
<1>1. ASSUME Inv PROVE TypeOK
  <2>1. \A i \in DOMAIN dynamic : dynamic[i] \in DOMAIN Project.templates
    BY <1>1, ElementOfSeq, LenProperties DEF Inv, Types, ManifestOK
  <2>2. phase = "indexing" /\ ~preparing => loads = <<>>
    BY <1>1 DEF Inv, Loading, ReadingNow
  <2>. QED BY <1>1, <2>1, <2>2 DEF TypeOK, Inv, Types, ManifestOK
<1>2. Inv => TypeOK
  BY <1>1
<1>. QED BY <1>2, Invariance, PTL

\* Whatever the project and the block, indexing never stops for want of an IDL that
\* the project brings along: onProjectChange has loaded those of the data sources
\* and those of the templates before the first filter runs.
THEOREM FiltersFindIdls == Spec => []FilterFindsIdl
<1>1. ASSUME Inv PROVE FilterFindsIdl

  <2>1. SUFFICES ASSUME error = "Unable to find IDL", Brings(project, Item.program) PROVE FALSE
    BY DEF FilterFindsIdl
  <2>2. idls[Item.program] = Undefined
    BY <1>1, <2>1 DEF Inv, Missing
  <2>3. HaveIdls(Project.dataSources) /\ HaveIdls(Project.templates)
    BY <1>1, <2>1 DEF Inv, Loading, AllThere
  <2>. QED BY <2>1, <2>2, <2>3, BroughtLoaded
<1>2. Inv => FilterFindsIdl
  BY <1>1
<1>. QED BY <1>2, Invariance, PTL

\* Every handler is given data that were decoded with an IDL of the first project that
\* brought one for the program: the getters decodedData and decodedMessage cannot have
\* run before loadIdls, which would have left null in pendingDecode, and loadIdls reads
\* no file for a program that has an IDL.
THEOREM DecodedWithIdl == Spec => []DecodedWithFirst
<1>1. ASSUME Inv PROVE DecodedWithFirst
  <2>. SUFFICES ASSUME NEW c \in Range(calls), NEW n \in 1..project,
                       IndexBlockData[c.item].decodes,
                       FirstBrings(n, IndexBlockData[c.item].program)
                PROVE  DecodedWith(n, IndexBlockData[c.item], decoded[c.item])
    BY DEF DecodedWithFirst
  <2>. DEFINE it == IndexBlockData[c.item]
              p  == it.program
  <2>0. project \in Nat \ {0}
    BY <1>1, ProjectFacts DEF Inv, Types, ManifestOK
  <2>1. c.item \in DOMAIN decoded
    <3>1. c \in Call
      BY <1>1, RangeOfSeq DEF Inv, Types
    <3>. QED BY <1>1, <3>1 DEF Inv, Types, Call
  <2>2. decoded[c.item] = Decode(it)
    BY <1>1, <2>1 DEF Inv, Given, DecodedNow
  <2>3. HaveIdls(Project.dataSources) /\ HaveIdls(Project.templates)
    <3>1. calls # <<>>
      BY DEF Range
    <3>. QED BY <1>1, <3>1 DEF Inv, Loading, AllThere
  <2>4. p \in Programs
    <3>1. PICK a : a \in AssetsFor(n, p)
      BY DEF FirstBrings, Brings
    <3>2. n \in DOMAIN history /\ history \in Histories
      BY <1>1, <2>0, ProjectFacts DEF Inv, Types, ManifestOK
    <3>. QED BY <3>1, <3>2, AssetsForMembers, ProjectFacts
  <2>5. idls[p] # Undefined
    <3>1. CASE n = project
      BY <2>3, <3>1, BroughtLoaded DEF FirstBrings
    <3>2. CASE n # project
      <4>1. n \in 1..(project - 1)
        BY <2>0, <3>2
      <4>. QED BY <1>1, <2>4, <4>1 DEF Inv, Kept, FirstBrings
    <3>. QED BY <3>1, <3>2
  <2>6. PICK m \in 1..project : FromProject(m, p)
    BY <1>1, <2>4, <2>5 DEF Inv, Origin
  <2>7. m = n
    <3>1. m \notin 1..(n - 1) /\ n \notin 1..(m - 1)
      BY <2>6 DEF FromProject, FirstBrings
    <3>. QED BY <2>0, <3>1
  <2>8. decoded[c.item] = DecodeData(idls[p], it)
    BY <2>2, <2>5 DEF Decode
  <2>. QED BY <2>6, <2>7, <2>8 DEF FromProject, DecodedWith
<1>2. Inv => DecodedWithFirst
  BY <1>1
<1>. QED BY <1>2, Invariance, PTL

\* No cache goes stale: what parseDiscriminator memoised, also in an earlier project,
\* and what was decoded in the current block are what the decoder would return now.
THEOREM CachesStayCurrent == Spec => []CachesCurrent
<1>1. ASSUME Inv PROVE CachesCurrent
  <2>1. ASSUME NEW k \in DOMAIN memo PROVE memo[k] \in {Undefined, ParseDiscriminator(k[1], k[2])}
    <3>1. k \in Inputs \X Programs
      BY <1>1 DEF Inv, Types
    <3>2. k = <<k[1], k[2]>> /\ k[1] \in Inputs /\ k[2] \in Programs
      BY <3>1
    <3>. QED BY <1>1, <3>2 DEF Inv, Memo
  <2>. QED BY <1>1, <2>1 DEF CachesCurrent, Inv, DecodedNow
<1>2. Inv => CachesCurrent
  BY <1>1
<1>. QED BY <1>2, Invariance, PTL

\* For every block, handlers are called in the order of the chain and of the data
\* sources, each once, also when handlers create data sources.
THEOREM CalledInChainOrder == Spec => []InChainOrder
<1>1. ASSUME Inv PROVE InChainOrder
  <2>. SUFFICES ASSUME NEW m \in DOMAIN calls, NEW n \in DOMAIN calls, m < n
                PROVE  \/ Precedes(IndexBlockData[calls[m].item].where,
                                   IndexBlockData[calls[n].item].where)
                       \/ calls[m].item = calls[n].item /\ calls[m].ds < calls[n].ds
    BY DEF InChainOrder
  <2>1. calls[m] \in Call /\ calls[n] \in Call
    BY <1>1, ElementOfSeq, LenProperties DEF Inv, Types
  <2>2. calls[m].item \in DOMAIN IndexBlockData /\ calls[n].item \in DOMAIN IndexBlockData
    BY <2>1 DEF Call
  <2>3. Before(calls[m], calls[n].item, calls[n].ds)
    BY <1>1 DEF Inv, Order
  <2>4. ASSUME calls[m].item < calls[n].item
        PROVE  Precedes(IndexBlockData[calls[m].item].where, IndexBlockData[calls[n].item].where)
    <3>1. <<IndexBlockData[calls[m].item], IndexBlockData[calls[n].item]>> \in ChainOrder
      BY <2>2, <2>4, BlockFacts DEF Ordered
    <3>. QED BY <3>1 DEF ChainOrder
  <2>. QED BY <2>3, <2>4 DEF Before
<1>2. Inv => InChainOrder
  BY <1>1
<1>. QED BY <1>2, Invariance, PTL

\* For every block, no part is left out: when it is done, each has been handled by
\* every data source of the manifest that accepts it.
THEOREM AllHandled == Spec => []NoneLeftOut
<1>1. ASSUME Inv PROVE NoneLeftOut
  <2>. SUFFICES ASSUME Done, NEW source \in DOMAIN Project.dataSources PROVE
         LET Handled(it) == Accepts(it, Project.dataSources[source]) =>
               \E c \in Range(calls) : IndexBlockData[c.item] = it /\ c.ds = source
         IN  /\ Handled(BlockItem)
             /\ \A t \in DOMAIN Block :
                  /\ Handled(TxItem(t))
                  /\ \A i \in DOMAIN Block[t].instructions :
                       Handled(InstructionItem(<<t, 1, i>>, Block[t].instructions[i]))
                  /\ \A g \in DOMAIN Block[t].innerInstructions :
                       \A it \in Range(GroupItems(t, g, Block[t].innerInstructions[g])) : Handled(it)
                  /\ \A it \in Range(LogItems(t, Block[t])) : Handled(it)
    BY DEF NoneLeftOut
  <2>. DEFINE Handled(it) == Accepts(it, Project.dataSources[source]) =>
                \E c \in Range(calls) : IndexBlockData[c.item] = it /\ c.ds = source
  <2>1. ASSUME NEW it \in Parts PROVE Handled(it)
    <3>1. PICK i \in DOMAIN IndexBlockData : it = IndexBlockData[i]
      BY BlockFacts DEF Range
    <3>2. i < item
      BY <1>1, Walk DEF Inv, Types, Done
    <3>. QED BY <1>1, <3>1, <3>2 DEF Inv, Behind
  <2>. HIDE DEF Handled
  <2>2. Handled(BlockItem)
    BY <2>1 DEF Parts
  <2>3. ASSUME NEW t \in DOMAIN Block
        PROVE  /\ Handled(TxItem(t))
               /\ \A i \in DOMAIN Block[t].instructions :
                    Handled(InstructionItem(<<t, 1, i>>, Block[t].instructions[i]))
               /\ \A g \in DOMAIN Block[t].innerInstructions :
                    \A it \in Range(GroupItems(t, g, Block[t].innerInstructions[g])) : Handled(it)
               /\ \A it \in Range(LogItems(t, Block[t])) : Handled(it)
    BY <2>1, PartsMembers
  <2>. QED BY <2>2, <2>3 DEF Handled
<1>2. Inv => NoneLeftOut
  BY <1>1
<1>. QED BY <1>2, Invariance, PTL
===============================================================================
