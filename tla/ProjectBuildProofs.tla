------------------------- MODULE ProjectBuildProofs -------------------------
(***************************************************************************)
(* Proofs about ProjectBuild: for every set of manifests, files and IDLs,  *)
(* and any number of changes and repetitions.                              *)
(***************************************************************************)
EXTENDS ProjectBuild, ListTheorems

\* The file that validateDiscriminators consults has the instruction.
Resolved(d, h) ==
  Checked(h) =>
    \E f \in FileRef(d, h.filter.programId) :
      files[f] # None /\ FindInstructionDiscriminatorByName(files[f], h.filter.discriminator)

\* Data source i needs no complaint.
Sound(i) ==
  DataSources[i].kind = "solana/Runtime" =>
    \A h \in BeforeFilterless(DataSources[i]) : Resolved(DataSources[i], h)

Types ==
  /\ project \in Projects
  /\ files \in [Files -> Idls \cup {None}]
  /\ ds \in Nat \ {0} /\ handler \in Nat \ {0} /\ issues \in BOOLEAN /\ edited \in BOOLEAN

\* What validateDiscriminators has established when it is at ds and handler.
Validated ==
  pc = "validate" /\ ~edited /\ ~issues =>
    /\ \A i \in DOMAIN DataSources : i < ds => Sound(i)
    /\ ds \in DOMAIN DataSources =>
         \A j \in DOMAIN DataSources[ds].handlers : j < handler =>
           /\ DataSources[ds].handlers[j].filter # None
           /\ Resolved(DataSources[ds], DataSources[ds].handlers[j])

AllValidated ==
  pc \in {"parse", "render", "fix", "template", "done"} /\ ~edited =>
    \A i \in DOMAIN DataSources : Sound(i)

\* What the node was started with.
Loaded ==
  node = "running" =>
    /\ ValidManifest
    /\ pc \in {"idle", "done", "failed"}
    /\ ~edited => \A n \in Names : \E f \in FilesOf(n) : f \in Files /\ idls[n] = files[f] /\ files[f] # None

BuildInv == Types /\ Validated /\ AllValidated /\ Loaded

------------------------------------------------------------------------------
LEMMA Lists ==
  ASSUME project \in Projects
  PROVE  /\ Len(DataSources) \in Nat /\ DOMAIN DataSources = 1..Len(DataSources)
         /\ \A i \in DOMAIN DataSources :
              /\ Len(DataSources[i].handlers) \in Nat
              /\ DOMAIN DataSources[i].handlers = 1..Len(DataSources[i].handlers)
<1>1. DataSources \in Seq(ToSet(DataSources))
  BY ProjectShape DEF DataSources
<1>2. ASSUME NEW i \in DOMAIN DataSources
      PROVE  DataSources[i].handlers \in Seq(ToSet(DataSources[i].handlers))
  BY ProjectShape DEF DataSources, ToSet
<1>. QED BY <1>1, <1>2

\* Without an issue, and with a file that can be read, the instruction is there.
LEMMA NoIssueResolves ==
  ASSUME NEW d, NEW h, ~Issue(d, h), ~Unreadable(d, h)
  PROVE  Resolved(d, h)
BY DEF Issue, Unreadable, Resolved, ParseIdlFromFile

\* The loop over a data source has seen every handler that counts when it
\* ends at its length or at a handler without filter.
LEMMA DataSourceDone ==
  ASSUME Types, NEW i \in DOMAIN DataSources, NEW k \in Nat,
         \/ k > Len(DataSources[i].handlers)
         \/ k \in DOMAIN DataSources[i].handlers /\ DataSources[i].handlers[k].filter = None,
         \A j \in DOMAIN DataSources[i].handlers : j < k => Resolved(DataSources[i], DataSources[i].handlers[j])
  PROVE  Sound(i)
<1>. DEFINE hs == DataSources[i].handlers
<1>1. Len(hs) \in Nat /\ DOMAIN hs = 1..Len(hs)
  BY Lists DEF Types
<1>. SUFFICES ASSUME NEW h \in BeforeFilterless(DataSources[i])
              PROVE  Resolved(DataSources[i], h)
  BY DEF Sound
<1>2. PICK j \in DOMAIN hs : h = hs[j] /\ \A m \in 1..j : hs[m].filter # None
  BY DEF BeforeFilterless
<1>3. j < k
  BY <1>1, <1>2
<1>. QED BY <1>2, <1>3

------------------------------------------------------------------------------
(* allAssets *)

\* No two entries have the same name.
Distinct(m) == \A j, k \in DOMAIN m : m[j].name = m[k].name => j = k

\* One entry more in a Map.
LEMMA MapSetFacts ==
  ASSUME NEW X, NEW m \in Seq(X), NEW a \in X, Distinct(m)
  PROVE  /\ MapSet(m, a) \in Seq(X) /\ Distinct(MapSet(m, a))
         /\ \A j \in DOMAIN MapSet(m, a) :
              \/ MapSet(m, a)[j] = a
              \/ MapSet(m, a)[j].name # a.name /\ \E k \in DOMAIN m : MapSet(m, a)[j] = m[k]
         /\ \A k \in DOMAIN m : \E j \in DOMAIN MapSet(m, a) : MapSet(m, a)[j].name = m[k].name
         /\ \E j \in DOMAIN MapSet(m, a) : MapSet(m, a)[j] = a
<1>. DEFINE s == MapSet(m, a)
<1>0. Len(m) \in Nat /\ DOMAIN m = 1..Len(m) /\ \A k \in DOMAIN m : m[k] \in X
  BY LenProperties
<1>1. CASE \E i \in DOMAIN m : m[i].name = a.name
  <2>1. s = [i \in 1..Len(m) |-> IF m[i].name = a.name THEN a ELSE m[i]]
    BY <1>0, <1>1 DEF MapSet
  <2>. HIDE DEF s
  <2>2. DOMAIN s = DOMAIN m /\ \A i \in DOMAIN m : s[i] = IF m[i].name = a.name THEN a ELSE m[i]
    BY <1>0, <2>1
  <2>3. s \in Seq(X)
    BY <1>0, <2>1
  <2>4. \A i \in DOMAIN m : s[i].name = m[i].name
    BY <2>2
  <2>5. Distinct(s)
    BY <2>2, <2>4 DEF Distinct
  <2>. QED BY <1>1, <2>2, <2>3, <2>4, <2>5 DEF s
<1>2. CASE ~\E i \in DOMAIN m : m[i].name = a.name
  <2>1. s = Append(m, a)
    BY <1>2 DEF MapSet
  <2>. HIDE DEF s
  <2>2. /\ s \in Seq(X) /\ DOMAIN s = 1..(Len(m) + 1) /\ s[Len(m) + 1] = a
        /\ \A i \in DOMAIN m : i \in DOMAIN s /\ s[i] = m[i]
    BY <1>0, <2>1, AppendProperties
  <2>3. \A j \in DOMAIN s : j = Len(m) + 1 \/ j \in DOMAIN m
    BY <1>0, <2>2
  <2>4. Len(m) + 1 \in DOMAIN s
    BY <1>0, <2>2
  <2>5. Distinct(s)
    BY <1>2, <2>2, <2>3 DEF Distinct
  <2>. QED BY <1>2, <2>2, <2>3, <2>4, <2>5 DEF s
<1>. QED BY <1>1, <1>2

\* The equation that defines the function map, up to n.
Mapped(E, n, g) ==
  g = [i \in 0..n |-> IF i = 0 THEN <<>> ELSE MapSet(g[i - 1], E[i])]

\* There is such a function: one for n is extended to n + 1.
LEMMA MapDefined ==
  ASSUME NEW E, Len(E) \in Nat
  PROVE  \E g : Mapped(E, Len(E), g)
<1>. DEFINE S == {n \in Nat : \E g : Mapped(E, n, g)}
<1>1. 0 \in S
  <2>. DEFINE g == [i \in 0..0 |-> <<>>]
  <2>1. Mapped(E, 0, g)
    BY DEF Mapped
  <2>. HIDE DEF g
  <2>. QED BY <2>1
<1>2. ASSUME NEW n \in Nat, n \in S PROVE n + 1 \in S
  <2>1. PICK g : Mapped(E, n, g)
    BY <1>2
  <2>. DEFINE h == [i \in 0..(n + 1) |-> IF i = 0 THEN <<>> ELSE MapSet(g[i - 1], E[i])]
  <2>2. ASSUME NEW i \in 0..n PROVE h[i] = g[i]
    <3>1. g[i] = IF i = 0 THEN <<>> ELSE MapSet(g[i - 1], E[i])
      BY <2>1, Zenon DEF Mapped
    <3>2. i \in 0..(n + 1)
      OBVIOUS
    <3>. QED BY <3>1, <3>2, Zenon
  <2>3. h = [i \in 0..(n + 1) |-> IF i = 0 THEN <<>> ELSE MapSet(h[i - 1], E[i])]
    <3>1. ASSUME NEW i \in 0..(n + 1), i # 0 PROVE g[i - 1] = h[i - 1]
      <4>1. i - 1 \in 0..n
        BY <3>1
      <4>. HIDE DEF h
      <4>. QED BY <2>2, <4>1
    <3>. QED BY <3>1, Zenon
  <2>4. Mapped(E, n + 1, h)
    BY <2>3, Zenon DEF Mapped
  <2>. HIDE DEF h
  <2>. QED BY <2>4
<1>3. Nat \subseteq S
  <2>. HIDE DEF S
  <2>. QED BY <1>1, <1>2, Induction
<1>. QED BY <1>3

\* k is the last of the first n entries with its name.
LastOf(E, n, k) == k \in 1..n /\ \A l \in 1..n : k < l => E[l].name # E[k].name

\* The Map made of the first n entries: one entry for each name, the last.
IsMapOf(m, E, n) ==
  /\ m \in Seq(Range(E)) /\ Distinct(m)
  /\ \A j \in DOMAIN m : \E k \in 1..n : LastOf(E, n, k) /\ m[j] = E[k]
  /\ \A k \in 1..n : \E j \in DOMAIN m : m[j].name = E[k].name

LEMMA MapStep ==
  ASSUME NEW E, Len(E) \in Nat, DOMAIN E = 1..Len(E), NEW n \in Nat, n + 1 \in 1..Len(E),
         NEW m, IsMapOf(m, E, n)
  PROVE  IsMapOf(MapSet(m, E[n + 1]), E, n + 1)
<1>. DEFINE a == E[n + 1]
            s == MapSet(m, a)
<1>1. a \in Range(E)
  BY DEF Range
<1>2. /\ s \in Seq(Range(E)) /\ Distinct(s)
      /\ \A j \in DOMAIN s : s[j] = a \/ (s[j].name # a.name /\ \E k \in DOMAIN m : s[j] = m[k])
      /\ \A k \in DOMAIN m : \E j \in DOMAIN s : s[j].name = m[k].name
      /\ \E j \in DOMAIN s : s[j] = a
  <2>1. m \in Seq(Range(E)) /\ Distinct(m)
    BY DEF IsMapOf
  <2>. DEFINE X == Range(E)
  <2>2. a \in X /\ m \in Seq(X)
    BY <1>1, <2>1
  <2>. HIDE DEF X, a
  <2>3. MapSet(m, a) \in Seq(X) /\ Distinct(MapSet(m, a))
    BY <2>1, <2>2, MapSetFacts
  <2>4. \A j \in DOMAIN MapSet(m, a) :
              \/ MapSet(m, a)[j] = a
              \/ MapSet(m, a)[j].name # a.name /\ \E k \in DOMAIN m : MapSet(m, a)[j] = m[k]
    BY <2>1, <2>2, MapSetFacts
  <2>5. \A k \in DOMAIN m : \E j \in DOMAIN MapSet(m, a) : MapSet(m, a)[j].name = m[k].name
    BY <2>1, <2>2, MapSetFacts
  <2>6. \E j \in DOMAIN MapSet(m, a) : MapSet(m, a)[j] = a
    BY <2>1, <2>2, MapSetFacts
  <2>. QED BY <2>3, <2>4, <2>5, <2>6 DEF X
<1>. HIDE DEF s
<1>3. 1..(n + 1) = (1..n) \cup {n + 1} /\ n + 1 \notin 1..n /\ \A k \in 1..n : k < n + 1
  OBVIOUS
<1>4. LastOf(E, n + 1, n + 1)
  BY <1>3 DEF LastOf
<1>5. ASSUME NEW k \in 1..n, LastOf(E, n, k), E[k].name # a.name PROVE LastOf(E, n + 1, k)
  BY <1>3, <1>5 DEF LastOf
<1>6. ASSUME NEW j \in DOMAIN s PROVE \E k \in 1..(n + 1) : LastOf(E, n + 1, k) /\ s[j] = E[k]
  <2>1. CASE s[j] = a
    BY <1>3, <1>4, <2>1
  <2>2. CASE s[j].name # a.name /\ \E k \in DOMAIN m : s[j] = m[k]
    <3>1. PICK i \in DOMAIN m : s[j] = m[i]
      BY <2>2
    <3>2. PICK k \in 1..n : LastOf(E, n, k) /\ m[i] = E[k]
      BY DEF IsMapOf
    <3>3. LastOf(E, n + 1, k)
      BY <1>5, <2>2, <3>1, <3>2
    <3>. QED BY <1>3, <3>1, <3>2, <3>3
  <2>. QED BY <1>2, <2>1, <2>2
<1>7. ASSUME NEW k \in 1..(n + 1) PROVE \E j \in DOMAIN s : s[j].name = E[k].name
  <2>1. CASE k = n + 1
    BY <1>2, <2>1
  <2>2. CASE k \in 1..n
    <3>1. PICK i \in DOMAIN m : m[i].name = E[k].name
      BY <2>2 DEF IsMapOf
    <3>. QED BY <1>2, <3>1
  <2>. QED BY <1>3, <2>1, <2>2
<1>. QED BY <1>2, <1>6, <1>7 DEF IsMapOf, s

LEMMA MapFacts ==
  ASSUME NEW E, Len(E) \in Nat, DOMAIN E = 1..Len(E), NEW g, Mapped(E, Len(E), g)
  PROVE  IsMapOf(g[Len(E)], E, Len(E))
<1>. DEFINE S == {n \in Nat : n <= Len(E) => IsMapOf(g[n], E, n)}
<1>0. \A i \in 0..Len(E) : g[i] = IF i = 0 THEN <<>> ELSE MapSet(g[i - 1], E[i])
  BY Zenon DEF Mapped
<1>1. 0 \in S
  <2>1. g[0] = <<>>
    BY <1>0
  <2>2. IsMapOf(<<>>, E, 0)
    BY DEF IsMapOf, Distinct
  <2>. QED BY <2>1, <2>2
<1>2. ASSUME NEW n \in Nat, n \in S PROVE n + 1 \in S
  <2>. SUFFICES ASSUME n + 1 <= Len(E) PROVE IsMapOf(g[n + 1], E, n + 1)
    OBVIOUS
  <2>1. n + 1 \in 0..Len(E) /\ n + 1 \in 1..Len(E) /\ n + 1 # 0 /\ (n + 1) - 1 = n /\ n <= Len(E)
    OBVIOUS
  <2>2. g[n + 1] = MapSet(g[n], E[n + 1])
    BY <1>0, <2>1
  <2>3. IsMapOf(g[n], E, n)
    BY <1>2, <2>1
  <2>. QED BY <2>1, <2>2, <2>3, MapStep
<1>3. Nat \subseteq S
  <2>. HIDE DEF S
  <2>. QED BY <1>1, <1>2, Induction
<1>. QED BY <1>3

\* What the loop of generateIDLInterfaces goes through: one entry for each name,
\* that of the last data source with such an entry.
LEMMA AssetFacts ==
  ASSUME project \in Projects
  PROVE  /\ Len(AllAssets) \in Nat /\ DOMAIN AllAssets = 1..Len(AllAssets) /\ Distinct(AllAssets)
         /\ \A i \in DOMAIN AllAssets : AllAssets[i].name \in Names /\ AllAssets[i].file \in Files
         /\ \A n \in Names : \E i \in DOMAIN AllAssets : AllAssets[i].name = n
         /\ \A i \in DOMAIN AllAssets : \E d \in DOMAIN DataSources :
              /\ AllAssets[i].file \in FileRef(DataSources[d], AllAssets[i].name)
              /\ \A c \in DOMAIN DataSources :
                   d < c => FileRef(DataSources[c], AllAssets[i].name) = {}
<1>. DEFINE ss == [d \in DOMAIN DataSources |-> DataSources[d].assets]
            X == UNION {ToSet(DataSources[d].assets) : d \in DOMAIN DataSources}
<1>1. /\ Len(DataSources) \in Nat /\ DOMAIN DataSources = 1..Len(DataSources)
      /\ \A d \in DOMAIN DataSources :
           /\ DataSources[d].assets \in Seq(ToSet(DataSources[d].assets))
           /\ \A a \in ToSet(DataSources[d].assets) : a.file \in Files
  <2>1. \A d \in DOMAIN DataSources : DataSources[d] \in ToSet(DataSources)
    BY DEF ToSet
  <2>. QED BY <2>1, Lists, ProjectShape DEF DataSources
<1>2. ASSUME NEW d \in DOMAIN DataSources PROVE DataSources[d].assets \in Seq(X)
  <2>1. \A a \in ToSet(DataSources[d].assets) : a \in X
    OBVIOUS
  <2>. HIDE DEF X
  <2>. QED BY <1>1, <2>1
<1>3. ss \in Seq(Seq(X)) /\ DOMAIN ss = DOMAIN DataSources
      /\ \A d \in DOMAIN DataSources : Range(ss[d]) = ToSet(DataSources[d].assets)
  <2>1. ss \in Seq(Seq(X))
    <3>. HIDE DEF X
    <3>. QED BY <1>1, <1>2
  <2>. QED BY <2>1 DEF Range, ToSet
<1>4. Entries = FlattenSeq(ss)
  BY DEF Entries
<1>. HIDE DEF ss, X
<1>5. /\ Entries \in Seq(X)
      /\ \A x : x \in Range(Entries) <=> \E d \in DOMAIN ss : x \in Range(ss[d])
  BY <1>3, <1>4, FlattenFacts
<1>6. Len(Entries) \in Nat /\ DOMAIN Entries = 1..Len(Entries)
  BY <1>5, LenProperties
<1>7. IsMapOf(AllAssets, Entries, Len(Entries))
  <2>. DEFINE F == CHOOSE g : Mapped(Entries, Len(Entries), g)
  <2>1. Mapped(Entries, Len(Entries), F)
    BY <1>6, MapDefined
  <2>2. AllAssets = F[Len(Entries)]
    BY DEF AllAssets, Mapped
  <2>. HIDE DEF F
  <2>. QED BY <1>6, <2>1, <2>2, MapFacts
<1>8. Len(AllAssets) \in Nat /\ DOMAIN AllAssets = 1..Len(AllAssets) /\ Distinct(AllAssets)
      /\ \A i \in DOMAIN AllAssets : AllAssets[i] \in Range(Entries)
  BY <1>7, LenProperties DEF IsMapOf
<1>9. ASSUME NEW i \in DOMAIN AllAssets
      PROVE  AllAssets[i].name \in Names /\ AllAssets[i].file \in Files
  <2>1. PICK d \in DOMAIN DataSources : AllAssets[i] \in ToSet(DataSources[d].assets)
    BY <1>3, <1>5, <1>8
  <2>2. DataSources[d] \in ToSet(DataSources)
    BY DEF ToSet
  <2>. QED BY <1>1, <2>1, <2>2 DEF Names
<1>10. ASSUME NEW n \in Names PROVE \E i \in DOMAIN AllAssets : AllAssets[i].name = n
  <2>0. PICK d \in DOMAIN DataSources : \E a \in ToSet(DataSources[d].assets) : a.name = n
    <3>1. PICK s \in ToSet(DataSources) : \E a \in ToSet(s.assets) : a.name = n
      BY DEF Names
    <3>. QED BY <3>1 DEF ToSet
  <2>1. PICK a \in ToSet(DataSources[d].assets) : a.name = n
    BY <2>0
  <2>2. PICK k \in DOMAIN Entries : a = Entries[k]
    <3>1. a \in Range(Entries)
      BY <1>3, <1>5, <2>1
    <3>. QED BY <3>1 DEF Range
  <2>. QED BY <1>6, <1>7, <2>1, <2>2 DEF IsMapOf
<1>11. ASSUME NEW i \in DOMAIN AllAssets
       PROVE  \E d \in DOMAIN DataSources :
                /\ AllAssets[i].file \in FileRef(DataSources[d], AllAssets[i].name)
                /\ \A c \in DOMAIN DataSources :
                     d < c => FileRef(DataSources[c], AllAssets[i].name) = {}
  <2>. DEFINE a == AllAssets[i]
              T == {x \in X : x.name = a.name}
  <2>1. PICK k \in 1..Len(Entries) : LastOf(Entries, Len(Entries), k) /\ a = Entries[k]
    BY <1>7 DEF IsMapOf
  <2>2. \A j \in DOMAIN Entries : Entries[j] \in X
    BY <1>5
  <2>3. LastIn(Entries, T, a)
    BY <1>6, <2>1, <2>2 DEF LastIn, LastOf
  <2>4. PICK d \in DOMAIN ss :
          a \in Range(ss[d]) /\ \A c \in DOMAIN ss : d < c => Range(ss[c]) \cap T = {}
    <3>. HIDE DEF T, a
    <3>. QED BY <1>3, <1>4, <2>3, FlattenLast
  <2>5. a.file \in FileRef(DataSources[d], a.name)
    BY <1>3, <2>4 DEF FileRef
  <2>6. ASSUME NEW c \in DOMAIN DataSources, d < c, NEW b \in ToSet(DataSources[c].assets), b.name = a.name
        PROVE  FALSE
    <3>1. b \in X
      BY DEF X
    <3>. QED BY <1>3, <2>4, <2>6, <3>1
  <2>7. ASSUME NEW c \in DOMAIN DataSources, d < c PROVE FileRef(DataSources[c], a.name) = {}
    BY <2>6, <2>7 DEF FileRef
  <2>. QED BY <1>3, <2>5, <2>7
<1>. QED BY <1>8, <1>9, <1>10, <1>11

------------------------------------------------------------------------------
(* Nothing but a change of a file disturbs what was established. *)

LEMMA Stable ==
  ASSUME UNCHANGED <<project, files>>
  PROVE  /\ DataSources' = DataSources /\ Names' = Names /\ (ValidManifest <=> ValidManifest')
         /\ \A n : FilesOf(n)' = FilesOf(n)
         /\ \A i : Sound(i) <=> Sound(i)'
         /\ \A d, h : Resolved(d, h) <=> Resolved(d, h)'
<1>1. DataSources' = DataSources
  BY DEF DataSources
<1>2. Names' = Names /\ (ValidManifest <=> ValidManifest')
  BY <1>1 DEF Names, ValidManifest, SupportedVersion, RunnerIsSolana, HasChainId, ChainId
<1>3. \A n : FilesOf(n)' = FilesOf(n)
  BY <1>1 DEF FilesOf
<1>4. \A d, h : Resolved(d, h) <=> Resolved(d, h)'
  BY DEF Resolved
<1>5. \A i : Sound(i) <=> Sound(i)'
  BY <1>1, <1>4 DEF Sound
<1>. QED BY <1>1, <1>2, <1>3, <1>4, <1>5

LEMMA HandlerKeeps == ASSUME BuildInv, ValidateHandler PROVE BuildInv'
<1>. USE DEF BuildInv
<1>1. UNCHANGED <<project, files, edited, node, idls>> /\ pc = "validate" /\ node # "running"
  BY DEF ValidateHandler, runtime, Loaded
<1>2. Loaded'
  BY <1>1 DEF Loaded
<1>3. ds \in DOMAIN DataSources /\ ds \in Nat \ {0} /\ handler \in Nat \ {0}
  BY Lists DEF ValidateHandler, DataSourcesLeft, Types
<1>. DEFINE d == DataSources[ds]
            h == d.handlers[handler]
<1>4. CASE NextDataSource /\ \/ d.kind # "solana/Runtime"
                             \/ handler > Len(d.handlers)
                             \/ handler \in DOMAIN d.handlers /\ h.filter = None
  <2>1. ds' = ds + 1 /\ handler' = 1 /\ UNCHANGED <<pc, issues>>
    BY <1>4 DEF NextDataSource
  <2>2. Types' /\ AllValidated'
    BY <1>1, <2>1 DEF Types, AllValidated
  <2>3. ASSUME ~edited, ~issues PROVE Sound(ds)
    <3>1. CASE d.kind # "solana/Runtime"
      BY <3>1 DEF Sound
    <3>2. CASE handler > Len(d.handlers) \/ (handler \in DOMAIN d.handlers /\ h.filter = None)
      BY <1>1, <1>3, <2>3, <3>2, DataSourceDone DEF Validated
    <3>. QED BY <1>4, <3>1, <3>2
  <2>4. ASSUME ~edited, ~issues, NEW i \in DOMAIN DataSources, i < ds + 1 PROVE Sound(i)
    <3>1. i \in Nat
      BY Lists DEF Types
    <3>. QED BY <1>1, <1>3, <2>3, <2>4, <3>1 DEF Validated
  <2>5. \A j \in DOMAIN DataSources[ds + 1].handlers : ds + 1 \in DOMAIN DataSources => ~(j < 1)
    BY Lists DEF Types
  <2>6. Validated'
    BY <1>1, <2>1, <2>4, <2>5, Stable DEF Validated
  <2>. QED BY <1>2, <2>2, <2>6
<1>5. CASE Reject
  BY <1>1, <1>2, <1>5 DEF Reject, loops, Types, Validated, AllValidated
<1>6. CASE /\ handler \in DOMAIN d.handlers /\ h.filter # None /\ ~Unreadable(d, h)
           /\ issues' = (issues \/ Issue(d, h))
           /\ handler' = handler + 1 /\ UNCHANGED <<pc, ds>>
  <2>1. issues' \in BOOLEAN /\ (~issues' => ~issues /\ ~Issue(d, h))
    BY <1>6 DEF Types, Issue
  <2>2. Types' /\ AllValidated'
    BY <1>1, <1>6, <2>1 DEF Types, AllValidated
  <2>3. ~issues' => Resolved(d, h)
    BY <1>6, <2>1, NoIssueResolves
  <2>4. ASSUME ~edited, ~issues', NEW j \in DOMAIN d.handlers, j < handler + 1
        PROVE  d.handlers[j].filter # None /\ Resolved(d, d.handlers[j])
    <3>1. j \in Nat
      BY <1>3, Lists DEF Types
    <3>2. j = handler \/ j < handler
      BY <1>3, <2>4, <3>1
    <3>. QED BY <1>1, <1>3, <1>6, <2>1, <2>3, <2>4, <3>2 DEF Validated
  <2>5. Validated'
    BY <1>1, <1>6, <2>1, <2>4, Stable DEF Validated
  <2>. QED BY <1>2, <2>2, <2>5
<1>7. handler > Len(d.handlers) \/ handler \in DOMAIN d.handlers
  BY <1>3, Lists DEF Types
<1>. QED BY <1>4, <1>5, <1>6, <1>7 DEF ValidateHandler

LEMMA BuildNext == BuildInv /\ [Next]_vars => BuildInv'
<1>. SUFFICES ASSUME BuildInv, [Next]_vars PROVE BuildInv'
  OBVIOUS
<1>. USE DEF BuildInv
<1>1. CASE GenerateIDLInterfaces
  <2>1. UNCHANGED <<project, files, node>> /\ ds' = 1 /\ handler' = 1 /\ issues' = FALSE
        /\ edited' = FALSE /\ pc' = "validate" /\ node # "running"
    BY <1>1 DEF GenerateIDLInterfaces, runtime
  <2>0. Types'
    <3>1. issues' \in BOOLEAN /\ edited' \in BOOLEAN
      BY <2>1, Zenon
    <3>. QED BY <2>1, <3>1 DEF Types
  <2>2. AllValidated' /\ Loaded'
    BY <2>1 DEF AllValidated, Loaded
  <2>3. \A i \in DOMAIN DataSources : ~(i < 1) /\ \A j \in DOMAIN DataSources[i].handlers : ~(j < 1)
    BY Lists DEF Types
  <2>4. Validated'
    BY <2>1, <2>3, Stable DEF Validated
  <2>. QED BY <2>0, <2>2, <2>4
<1>2. CASE ValidateHandler
  BY <1>2, HandlerKeeps
<1>3. CASE AssertNoIssues
  <2>1. UNCHANGED <<project, files, node, ds, handler, issues, edited>> /\ pc = "validate"
        /\ pc' = (IF issues THEN "failed" ELSE "parse") /\ node # "running" /\ ~(ds <= Len(DataSources))
    BY <1>3 DEF AssertNoIssues, runtime, loops, Loaded, DataSourcesLeft
  <2>2. Types' /\ Loaded' /\ Validated'
    BY <2>1 DEF Types, Loaded, Validated
  <2>3. \A i \in DOMAIN DataSources : i < ds
    BY <2>1, Lists DEF Types
  <2>4. AllValidated'
    BY <2>1, <2>3, Stable DEF AllValidated, Validated
  <2>. QED BY <2>2, <2>4
<1>4. CASE ParseIdl \/ Render \/ FixTypeImports \/ RenderTemplate \/ Interrupted
  <2>1. /\ UNCHANGED <<project, files, node, idls, ds, handler, issues, edited>>
        /\ pc' # "validate"
        /\ pc' \in {"parse", "render", "fix", "template", "done"}
             => pc \in {"parse", "render", "fix", "template"}
        /\ node # "running"
    BY <1>4 DEF ParseIdl, Render, FixTypeImports, RenderTemplate, Interrupted, Reject,
       runtime, loops, Loaded
  <2>. QED BY <2>1, Stable DEF Types, Validated, AllValidated, Loaded
<1>5. ASSUME NEW f \in Files, EditFile(f) PROVE BuildInv'
  <2>1. /\ edited' = TRUE /\ UNCHANGED <<project, node, pc, ds, handler, issues>>
        /\ files' \in [Files -> Idls \cup {None}]
    BY <1>5 DEF EditFile, runtime, loops, Types
  <2>2. ValidManifest => ValidManifest'
    BY <2>1 DEF ValidManifest, SupportedVersion, RunnerIsSolana, HasChainId, ChainId, DataSources
  <2>. QED BY <2>1, <2>2 DEF Types, Validated, AllValidated, Loaded
<1>6. CASE StartNode
  <2>1. UNCHANGED <<project, files, pc, ds, handler, issues, edited>>
        /\ ValidManifest /\ pc \in {"idle", "done", "failed"}
    BY <1>6 DEF StartNode, loops
  <2>2. \A n \in Names : \E f \in FilesOf(n) : f \in Files /\ idls'[n] = files[f] /\ files[f] # None
    <3>1. PICK from \in [Names -> Files] :
            /\ \A n \in Names : from[n] \in FilesOf(n) /\ files[from[n]] # None
            /\ idls' = [n \in Names |-> files[from[n]]]
      BY <1>6 DEF StartNode
    <3>. QED BY <3>1
  <2>3. Loaded'
    BY <2>1, <2>2, Stable DEF Loaded
  <2>. QED BY <2>1, <2>3, Stable DEF Types, Validated, AllValidated
<1>7. CASE StopNode
  <2>1. UNCHANGED <<project, files, pc, ds, handler, issues, edited>> /\ node' = "off"
    BY <1>7 DEF StopNode, loops
  <2>. QED BY <2>1, Stable DEF Types, Validated, AllValidated, Loaded
<1>8. CASE UNCHANGED vars
  <2>1. UNCHANGED <<project, files, pc, ds, handler, issues, edited, node, idls>>
    BY <1>8 DEF vars, loops, runtime
  <2>. QED BY <2>1, Stable DEF Types, Validated, AllValidated, Loaded
<1>. QED BY <1>1, <1>2, <1>3, <1>4, <1>5, <1>6, <1>7, <1>8 DEF Next

LEMMA BuildInvariant == Spec => []BuildInv
<1>1. Init => BuildInv
  <2>. SUFFICES ASSUME Init PROVE BuildInv
    OBVIOUS
  <2>1. Types
    <3>1. issues \in BOOLEAN /\ edited \in BOOLEAN
      BY Zenon DEF Init
    <3>. QED BY <3>1 DEF Init, Types
  <2>2. Validated /\ AllValidated /\ Loaded
    BY DEF Init, Validated, AllValidated, Loaded
  <2>. QED BY <2>1, <2>2 DEF BuildInv
<1>. QED BY <1>1, BuildNext, PTL DEF Spec

------------------------------------------------------------------------------
(* What the loop over the assets has written *)

\* The outputs for the i-th asset are those of this run.
Written(i) ==
  LET n == AllAssets[i].name IN
    /\ interfaces[n] = Interface(inputs[n], TRUE) /\ inputs[n] # None
    /\ ~edited => inputs[n] = files[AllAssets[i].file]

AssetsWritten ==
  pc \in {"parse", "render", "fix", "template", "done"} =>
    \A i \in DOMAIN AllAssets : i < asset => Written(i)

\* The asset in process, and what was written for it.
InProcess ==
  /\ pc = "validate" => asset = 1
  /\ pc = "done" => asset = Len(AllAssets) + 1
  /\ pc \in {"render", "fix", "template"} =>
       /\ asset \in DOMAIN AllAssets /\ idl # None
       /\ ~edited => idl = files[AllAssets[asset].file]
  /\ pc = "fix" => interfaces[Name] = Interface(idl, FALSE)
  /\ pc = "template" => interfaces[Name] = Interface(idl, TRUE)

GenerateInv == TypeOK /\ AssetsWritten /\ InProcess

LEMMA Interfaces ==
  ASSUME NEW i \in Idls \cup {None}
  PROVE  /\ Interface(i, FALSE) \in [idl : Idls \cup {None}, fixed : BOOLEAN]
         /\ Interface(i, TRUE) \in [idl : Idls \cup {None}, fixed : BOOLEAN]
BY DEF Interface

LEMMA Patched == \A i : [Interface(i, FALSE) EXCEPT !.fixed = TRUE] = Interface(i, TRUE)
<1>1. \A i, x, y : [[idl |-> i, fixed |-> x] EXCEPT !.fixed = y] = [idl |-> i, fixed |-> y]
  OBVIOUS
<1>. QED BY <1>1, Zenon DEF Interface

LEMMA SameProject ==
  ASSUME UNCHANGED project
  PROVE  DataSources' = DataSources /\ Names' = Names /\ AllAssets' = AllAssets
<1>1. DataSources' = DataSources
  BY DEF DataSources
<1>2. Entries' = Entries
  BY <1>1 DEF Entries
<1>. QED BY <1>1, <1>2 DEF Names, AllAssets

LEMMA GenerateInit == Init => GenerateInv
<1>. SUFFICES ASSUME Init PROVE GenerateInv
  OBVIOUS
<1>1. project \in Projects
  BY DEF Init
<1>2. Len(AllAssets) \in Nat /\ Len(DataSources) \in Nat
  BY <1>1, AssetFacts, Lists
<1>3. issues \in BOOLEAN /\ edited \in BOOLEAN
  BY Zenon DEF Init
<1>4. interfaces \in [Names -> [idl : Idls \cup {None}, fixed : BOOLEAN]]
  BY Interfaces DEF Init
<1>5. /\ files \in [Files -> Idls \cup {None}] /\ edits \in 0..MaxEdits
      /\ inputs \in [Names -> Idls \cup {None}] /\ idls \in [Names -> Idls \cup {None}]
  BY ProjectConstants DEF Init
<1>6. ds \in 1..(Len(DataSources) + 1) /\ asset \in 1..(Len(AllAssets) + 1)
  BY <1>2 DEF Init
<1>7. TypeOK
  BY <1>3, <1>4, <1>5, <1>6 DEF Init, TypeOK
<1>. QED BY <1>7 DEF Init, GenerateInv, AssetsWritten, InProcess

\* Steps that leave the outputs and the asset alone.
LEMMA Untouched ==
  ASSUME GenerateInv, UNCHANGED <<project, files, edits, edited, asset, idl, interfaces, inputs>>,
         pc' = pc \/ pc' \in {"idle", "failed"},
         ds' \in 1..(Len(DataSources) + 1), handler' \in Nat, issues' \in BOOLEAN,
         idls' \in [Names -> Idls \cup {None}], node' \in {"off", "running"}
  PROVE  GenerateInv'
<1>1. DataSources' = DataSources /\ Names' = Names /\ AllAssets' = AllAssets
  BY SameProject
<1>2. \A i : Written(i)' <=> Written(i)
  BY <1>1 DEF Written
<1>3. TypeOK'
  BY <1>1 DEF GenerateInv, TypeOK
<1>4. AssetsWritten'
  BY <1>1, <1>2 DEF GenerateInv, AssetsWritten
<1>5. InProcess'
  BY <1>1 DEF GenerateInv, InProcess, Name
<1>. QED BY <1>3, <1>4, <1>5 DEF GenerateInv

\* The steps for one asset.
LEMMA ParseKeeps == ASSUME Types, GenerateInv, ParseIdl PROVE GenerateInv'
<1>1. /\ pc = "parse" /\ UNCHANGED <<project, files, edits, interfaces, inputs, edited, node, idls>>
      /\ UNCHANGED <<ds, handler, issues, asset>>
  BY DEF ParseIdl, output, runtime, loops, Reject
<1>2. DataSources' = DataSources /\ Names' = Names /\ AllAssets' = AllAssets
  BY <1>1, SameProject
<1>3. Len(AllAssets) \in Nat /\ DOMAIN AllAssets = 1..Len(AllAssets) /\ asset \in 1..(Len(AllAssets) + 1)
      /\ \A i \in DOMAIN AllAssets : AllAssets[i].file \in Files
  BY AssetFacts DEF Types, GenerateInv, TypeOK
<1>4. \A i : Written(i)' <=> Written(i)
  BY <1>1, <1>2 DEF Written
<1>5. CASE asset > Len(AllAssets)
  <2>1. pc' = "done" /\ idl' = idl /\ asset = Len(AllAssets) + 1
    BY <1>3, <1>5 DEF ParseIdl, loops
  <2>2. TypeOK'
    BY <1>1, <1>2, <2>1 DEF GenerateInv, TypeOK
  <2>3. AssetsWritten'
    BY <1>1, <1>2, <1>4, <2>1 DEF GenerateInv, AssetsWritten
  <2>4. InProcess'
    BY <1>1, <1>2, <2>1 DEF InProcess
  <2>. QED BY <2>2, <2>3, <2>4 DEF GenerateInv
<1>6. CASE ~(asset > Len(AllAssets)) /\ files[AllAssets[asset].file] = None
  <2>1. pc' = "failed" /\ idl' = idl
    BY <1>6 DEF ParseIdl, loops, Reject, ParseIdlFromFile
  <2>2. TypeOK'
    BY <1>1, <1>2, <2>1 DEF GenerateInv, TypeOK
  <2>. QED BY <2>1, <2>2 DEF GenerateInv, AssetsWritten, InProcess
<1>7. CASE ~(asset > Len(AllAssets)) /\ files[AllAssets[asset].file] # None
  <2>1. pc' = "render" /\ idl' = files[AllAssets[asset].file] /\ asset \in DOMAIN AllAssets
    BY <1>3, <1>7 DEF ParseIdl, ParseIdlFromFile
  <2>2. idl' \in Idls \cup {None} /\ idl' # None
    BY <1>3, <1>7, <2>1 DEF GenerateInv, TypeOK
  <2>3. TypeOK'
    BY <1>1, <1>2, <2>1, <2>2 DEF GenerateInv, TypeOK
  <2>4. AssetsWritten'
    BY <1>1, <1>2, <1>4, <2>1 DEF GenerateInv, AssetsWritten
  <2>5. InProcess'
    BY <1>1, <1>2, <2>1, <2>2 DEF InProcess
  <2>. QED BY <2>3, <2>4, <2>5 DEF GenerateInv
<1>. QED BY <1>5, <1>6, <1>7

\* Writing for the asset in process does not touch what was written before.
LEMMA OthersWritten ==
  ASSUME Types, GenerateInv, asset \in DOMAIN AllAssets, UNCHANGED <<project, files, edited>>,
         \A n \in Names : n # Name => interfaces'[n] = interfaces[n] /\ inputs'[n] = inputs[n],
         pc \in {"parse", "render", "fix", "template", "done"},
         NEW i \in DOMAIN AllAssets, i < asset
  PROVE  Written(i)'
<1>1. AllAssets' = AllAssets
  BY SameProject
<1>2. i # asset
  BY AssetFacts DEF Types
<1>3. AllAssets[i].name \in Names /\ AllAssets[i].name # Name
  BY <1>2, AssetFacts DEF Types, Name, Distinct
<1>4. Written(i)
  BY DEF GenerateInv, AssetsWritten
<1>. QED BY <1>1, <1>3, <1>4 DEF Written

LEMMA RenderKeeps == ASSUME Types, GenerateInv, Render \/ FixTypeImports PROVE GenerateInv'
<1>1. /\ UNCHANGED <<project, files, edits, inputs, edited, node, idls, ds, handler, issues, asset, idl>>
      /\ pc \in {"render", "fix"} /\ pc' = IF pc = "render" THEN "fix" ELSE "template"
  BY DEF Render, FixTypeImports, runtime, loops
<1>2. DataSources' = DataSources /\ Names' = Names /\ AllAssets' = AllAssets /\ Name' = Name
  <2>1. DataSources' = DataSources /\ Names' = Names /\ AllAssets' = AllAssets
    BY <1>1, SameProject
  <2>. QED BY <1>1, <2>1 DEF Name
<1>3. asset \in DOMAIN AllAssets /\ idl \in Idls \cup {None}
  BY <1>1 DEF GenerateInv, InProcess, TypeOK
<1>4. Name \in Names
  BY <1>3, AssetFacts DEF Types, Name
<1>5. interfaces \in [Names -> [idl : Idls \cup {None}, fixed : BOOLEAN]]
  BY DEF GenerateInv, TypeOK
<1>6. interfaces' = [interfaces EXCEPT ![Name] = Interface(idl, pc = "fix")]
  <2>1. CASE Render
    <3>1. (pc = "fix") = FALSE
      BY <2>1 DEF Render
    <3>. QED BY <2>1, <3>1 DEF Render
  <2>2. CASE FixTypeImports
    <3>1. (pc = "fix") = TRUE /\ interfaces[Name] = Interface(idl, FALSE)
      BY <2>2 DEF FixTypeImports, GenerateInv, InProcess
    <3>2. [interfaces[Name] EXCEPT !.fixed = TRUE] = Interface(idl, TRUE)
      BY <3>1, Patched
    <3>3. interfaces' = [interfaces EXCEPT ![Name] = [interfaces[Name] EXCEPT !.fixed = TRUE]]
      BY <2>2, <1>4, <1>5 DEF FixTypeImports
    <3>. QED BY <3>1, <3>2, <3>3
  <2>. QED BY <2>1, <2>2
<1>7. Interface(idl, pc = "fix") \in [idl : Idls \cup {None}, fixed : BOOLEAN]
  <2>1. CASE pc = "fix"
    <3>1. (pc = "fix") = TRUE
      BY <2>1
    <3>. QED BY <1>3, <3>1, Interfaces
  <2>2. CASE pc = "render"
    <3>1. (pc = "fix") = FALSE
      BY <2>2
    <3>. QED BY <1>3, <3>1, Interfaces
  <2>. QED BY <1>1, <2>1, <2>2
<1>8. /\ interfaces' \in [Names -> [idl : Idls \cup {None}, fixed : BOOLEAN]]
      /\ interfaces'[Name] = Interface(idl, pc = "fix")
      /\ \A n \in Names : n # Name => interfaces'[n] = interfaces[n]
  BY <1>4, <1>5, <1>6, <1>7
<1>9. TypeOK'
  BY <1>1, <1>2, <1>8 DEF GenerateInv, TypeOK
<1>10. AssetsWritten'
  BY <1>1, <1>2, <1>3, <1>8, OthersWritten DEF AssetsWritten
<1>11. InProcess'
  <2>1. /\ pc' = "fix" => interfaces'[Name] = Interface(idl, FALSE)
        /\ pc' = "template" => interfaces'[Name] = Interface(idl, TRUE)
    <3>1. CASE pc = "render"
      <4>1. (pc = "fix") = FALSE /\ pc' = "fix"
        BY <1>1, <3>1
      <4>. QED BY <1>8, <4>1
    <3>2. CASE pc = "fix"
      <4>1. (pc = "fix") = TRUE /\ pc' = "template"
        BY <1>1, <3>2
      <4>. QED BY <1>8, <4>1
    <3>. QED BY <1>1, <3>1, <3>2
  <2>. QED BY <1>1, <1>2, <1>3, <2>1 DEF GenerateInv, InProcess
<1>. QED BY <1>9, <1>10, <1>11 DEF GenerateInv

LEMMA TemplateKeeps == ASSUME Types, GenerateInv, RenderTemplate PROVE GenerateInv'
<1>1. /\ UNCHANGED <<project, files, edits, interfaces, edited, node, idls, ds, handler, issues, idl>>
      /\ pc = "template" /\ pc' = "parse" /\ asset' = asset + 1
      /\ inputs' = [inputs EXCEPT ![Name] = idl]
  BY DEF RenderTemplate, runtime
<1>2. DataSources' = DataSources /\ Names' = Names /\ AllAssets' = AllAssets
  BY <1>1, SameProject
<1>3. /\ asset \in DOMAIN AllAssets /\ idl \in Idls \cup {None} /\ idl # None
      /\ ~edited => idl = files[AllAssets[asset].file]
      /\ interfaces[Name] = Interface(idl, TRUE)
      /\ inputs \in [Names -> Idls \cup {None}]
  BY <1>1 DEF GenerateInv, InProcess, TypeOK
<1>4. Name \in Names
  BY <1>3, AssetFacts DEF Types, Name
<1>5. Len(AllAssets) \in Nat /\ DOMAIN AllAssets = 1..Len(AllAssets)
  BY AssetFacts DEF Types
<1>6. /\ inputs' \in [Names -> Idls \cup {None}] /\ inputs'[Name] = idl
      /\ \A n \in Names : n # Name => inputs'[n] = inputs[n]
  BY <1>1, <1>3, <1>4
<1>7. asset' \in 1..(Len(AllAssets) + 1)
  BY <1>1, <1>3, <1>5
<1>8. TypeOK'
  BY <1>1, <1>2, <1>6, <1>7 DEF GenerateInv, TypeOK
<1>9. ASSUME NEW i \in DOMAIN AllAssets, i = asset PROVE Written(i)'
  BY <1>1, <1>2, <1>3, <1>6, <1>9 DEF Written, Name
<1>10. ASSUME NEW i \in DOMAIN AllAssets, i < asset + 1 PROVE Written(i)'
  <2>1. CASE i = asset
    BY <1>9, <2>1
  <2>2. CASE i < asset
    BY <1>1, <1>3, <1>6, <2>2, OthersWritten
  <2>3. i = asset \/ i < asset
    BY <1>3, <1>5, <1>10
  <2>. QED BY <2>1, <2>2, <2>3
<1>11. AssetsWritten'
  BY <1>1, <1>2, <1>10 DEF AssetsWritten
<1>12. InProcess'
  BY <1>1 DEF InProcess
<1>. QED BY <1>8, <1>11, <1>12 DEF GenerateInv

LEMMA GenerateNext == Types /\ GenerateInv /\ [Next]_vars => GenerateInv'
<1>. SUFFICES ASSUME Types, GenerateInv, [Next]_vars PROVE GenerateInv'
  OBVIOUS
<1>0. /\ ds \in 1..(Len(DataSources) + 1) /\ handler \in Nat /\ issues \in BOOLEAN
      /\ idls \in [Names -> Idls \cup {None}] /\ node \in {"off", "running"}
      /\ Len(DataSources) \in Nat /\ Len(AllAssets) \in Nat
  BY AssetFacts, Lists DEF Types, GenerateInv, TypeOK
<1>1. CASE GenerateIDLInterfaces
  <2>1. /\ UNCHANGED <<project, files, edits, interfaces, inputs, node, idls>>
        /\ pc' = "validate" /\ edited' = FALSE /\ ds' = 1 /\ handler' = 1 /\ issues' = FALSE
        /\ asset' = 1 /\ idl' = None
    BY <1>1 DEF GenerateIDLInterfaces, output, runtime
  <2>2. edited' \in BOOLEAN /\ issues' \in BOOLEAN
    BY <2>1, Zenon
  <2>3. ds' \in 1..(Len(DataSources) + 1) /\ asset' \in 1..(Len(AllAssets) + 1)
    BY <1>0, <2>1
  <2>4. DataSources' = DataSources /\ Names' = Names /\ AllAssets' = AllAssets
    BY <2>1, SameProject
  <2>5. TypeOK'
    BY <2>1, <2>2, <2>3, <2>4 DEF GenerateInv, TypeOK
  <2>. QED BY <2>1, <2>5 DEF GenerateInv, AssetsWritten, InProcess
<1>2. CASE ValidateHandler
  <2>1. /\ UNCHANGED <<project, files, edits, edited, asset, idl, interfaces, inputs, node, idls>>
        /\ pc' = pc \/ pc' = "failed"
        /\ ds' = ds \/ (ds' = ds + 1 /\ ds <= Len(DataSources))
        /\ handler' \in {handler, handler + 1, 1}
        /\ issues' = issues \/ \E d, h : issues' = (issues \/ Issue(d, h))
    BY <1>2 DEF ValidateHandler, NextDataSource, Reject, loops, output, runtime, DataSourcesLeft
  <2>2. ds' \in 1..(Len(DataSources) + 1) /\ handler' \in Nat
    BY <1>0, <2>1
  <2>3. issues' \in BOOLEAN
    BY <1>0, <2>1, Zenon
  <2>. QED BY <1>0, <2>1, <2>2, <2>3, Untouched
<1>3. CASE AssertNoIssues
  <2>1. /\ UNCHANGED <<project, files, edits, edited, asset, idl, interfaces, inputs, node, idls>>
        /\ UNCHANGED <<ds, handler, issues>>
        /\ pc = "validate" /\ pc' \in {"failed", "parse"}
    BY <1>3 DEF AssertNoIssues, loops, output, runtime
  <2>2. DataSources' = DataSources /\ Names' = Names /\ AllAssets' = AllAssets
    BY <2>1, SameProject
  <2>3. TypeOK'
    BY <2>1, <2>2 DEF GenerateInv, TypeOK
  <2>4. asset = 1 /\ \A i \in DOMAIN AllAssets : ~(i < 1)
    BY <2>1, AssetFacts DEF GenerateInv, InProcess, Types
  <2>. QED BY <2>1, <2>2, <2>3, <2>4 DEF GenerateInv, AssetsWritten, InProcess
<1>4. CASE ParseIdl
  BY <1>4, ParseKeeps
<1>5. CASE Render \/ FixTypeImports
  BY <1>5, RenderKeeps
<1>6. CASE RenderTemplate
  BY <1>6, TemplateKeeps
<1>7. CASE Interrupted \/ StopNode
  <2>1. /\ UNCHANGED <<project, files, edits, edited, asset, idl, interfaces, inputs, ds, handler, issues>>
        /\ pc' = pc \/ pc' = "failed"
        /\ \/ UNCHANGED <<node, idls>>
           \/ node' = "off" /\ idls' = [n \in Names |-> None]
    BY <1>7 DEF Interrupted, StopNode, loops, output, runtime
  <2>2. idls' \in [Names -> Idls \cup {None}] /\ node' \in {"off", "running"}
    BY <1>0, <2>1
  <2>. QED BY <1>0, <2>1, <2>2, Untouched
<1>8. CASE StartNode
  <2>1. /\ UNCHANGED <<project, files, edits, edited, asset, idl, interfaces, inputs, ds, handler, issues, pc>>
        /\ node' = "running"
    BY <1>8 DEF StartNode, loops, output
  <2>2. PICK from \in [Names -> Files] : idls' = [n \in Names |-> files[from[n]]]
    BY <1>8 DEF StartNode
  <2>3. idls' \in [Names -> Idls \cup {None}]
    BY <2>2 DEF GenerateInv, TypeOK
  <2>. QED BY <1>0, <2>1, <2>3, Untouched
<1>9. ASSUME NEW f \in Files, EditFile(f) PROVE GenerateInv'
  <2>1. /\ UNCHANGED <<project, pc, asset, idl, interfaces, inputs, ds, handler, issues, node, idls>>
        /\ edited' = TRUE /\ edits < MaxEdits /\ edits' = edits + 1
        /\ files' \in [Files -> Idls \cup {None}]
    BY <1>9 DEF EditFile, loops, output, runtime, GenerateInv, TypeOK
  <2>2. DataSources' = DataSources /\ Names' = Names /\ AllAssets' = AllAssets
    BY <2>1, SameProject
  <2>3. edits' \in 0..MaxEdits
    BY <2>1, ProjectConstants DEF GenerateInv, TypeOK
  <2>4. edited' \in BOOLEAN
    BY <2>1, Zenon
  <2>5. TypeOK'
    BY <2>1, <2>2, <2>3, <2>4 DEF GenerateInv, TypeOK
  <2>6. \A i : Written(i) => Written(i)'
    BY <2>1, <2>2 DEF Written
  <2>7. AssetsWritten'
    BY <2>1, <2>2, <2>6 DEF GenerateInv, AssetsWritten
  <2>8. InProcess'
    BY <2>1, <2>2 DEF GenerateInv, InProcess, Name
  <2>. QED BY <2>5, <2>7, <2>8 DEF GenerateInv
<1>10. CASE UNCHANGED vars
  BY <1>0, <1>10, Untouched DEF vars, loops, output, runtime
<1>. QED BY <1>1, <1>2, <1>3, <1>4, <1>5, <1>6, <1>7, <1>8, <1>9, <1>10 DEF Next

LEMMA GenerateInvariant == Spec => []GenerateInv
<1>1. BuildInv => Types
  BY DEF BuildInv
<1>. QED BY <1>1, GenerateInit, GenerateNext, BuildInvariant, PTL DEF Spec

------------------------------------------------------------------------------
\* What code generation has validated the node resolves, whatever else was
\* read, changed, repeated or restarted before.
THEOREM ValidatedResolves == Spec => []ResolvesAtRuntime
<1>1. BuildInv => ResolvesAtRuntime
  <2>. SUFFICES ASSUME BuildInv, node = "running", pc = "done", ~edited,
                       NEW d \in ToSet(DataSources), IsRuntimeDs(d),
                       NEW h \in BeforeFilterless(d),
                       h.kind = "solana/InstructionHandler", h.filter.discriminator # None,
                       \A f, g \in FilesOf(h.filter.programId) : f = g
                PROVE  ParseDiscriminator(h.filter.discriminator, h.filter.programId) = "idl"
    BY DEF ResolvesAtRuntime
  <2>. DEFINE name == h.filter.discriminator
              program == h.filter.programId
  <2>1. PICK i \in DOMAIN DataSources : d = DataSources[i]
    BY DEF ToSet
  <2>2. h \in ToSet(d.handlers) /\ h.filter # None
    <3>1. PICK j \in DOMAIN d.handlers : h = d.handlers[j] /\ \A k \in 1..j : d.handlers[k].filter # None
      BY DEF BeforeFilterless
    <3>2. j \in 1..j
      BY <2>1, Lists DEF BuildInv, Types
    <3>. QED BY <3>1, <3>2 DEF ToSet
  <2>3. Checked(h)
    BY <2>2 DEF BuildInv, Loaded, ValidManifest, ValidDataSource, ValidRuntime, IsRuntimeDs, Checked
  <2>4. PICK f \in FileRef(d, program) :
          files[f] # None /\ FindInstructionDiscriminatorByName(files[f], name)
    BY <2>1, <2>3 DEF BuildInv, AllValidated, Sound, Resolved, IsRuntimeDs
  <2>5. program \in Names /\ f \in FilesOf(program)
    BY <2>4 DEF FileRef, Names, FilesOf
  <2>6. PICK g \in FilesOf(program) : g \in Files /\ idls[program] = files[g] /\ files[g] # None
    BY <2>5 DEF BuildInv, Loaded
  <2>7. f = g
    BY <2>5, <2>6
  <2>8. files[f] \in Idls
    BY <2>6, <2>7 DEF BuildInv, Types
  <2>9. name \notin HexNotation
    BY <2>4, <2>8, ProjectConstants DEF FindInstructionDiscriminatorByName, Matching
  <2>. QED BY <2>4, <2>5, <2>6, <2>7, <2>9 DEF ParseDiscriminator
<1>. QED BY <1>1, BuildInvariant, PTL

\* The handlers of a running node are compiled against the IDLs it decodes
\* with, for every program about whose file the data sources agree.
THEOREM TypesAreOfRuntime == Spec => []TypesFitRuntime
<1>1. BuildInv /\ GenerateInv => TypesFitRuntime
  <2>. SUFFICES ASSUME BuildInv, GenerateInv, node = "running", pc = "done", ~edited,
                       NEW n \in Names, \A f, g \in FilesOf(n) : f = g
                PROVE  inputs[n] = idls[n]
    BY DEF TypesFitRuntime
  <2>1. PICK i \in DOMAIN AllAssets : AllAssets[i].name = n
    BY AssetFacts DEF BuildInv, Types
  <2>2. i < asset
    BY AssetFacts DEF BuildInv, Types, GenerateInv, InProcess
  <2>3. inputs[n] = files[AllAssets[i].file]
    BY <2>1, <2>2 DEF GenerateInv, AssetsWritten, Written
  <2>4. AllAssets[i].file \in FilesOf(n)
    <3>1. PICK d \in DOMAIN DataSources : AllAssets[i].file \in FileRef(DataSources[d], n)
      BY <2>1, AssetFacts DEF BuildInv, Types
    <3>2. DataSources[d] \in ToSet(DataSources)
      BY DEF ToSet
    <3>. QED BY <3>1, <3>2 DEF FileRef, FilesOf
  <2>5. PICK g \in FilesOf(n) : idls[n] = files[g]
    BY DEF BuildInv, Loaded
  <2>. QED BY <2>3, <2>4, <2>5
<1>. QED BY <1>1, BuildInvariant, GenerateInvariant, PTL

\* The variables of code generation and of the node keep their types: the loop
\* variables stay within the manifest, IDLs are kept per program.
THEOREM BuildTypeCorrect == Spec => []TypeOK
<1>1. GenerateInv => TypeOK
  BY DEF GenerateInv
<1>. QED BY <1>1, GenerateInvariant, PTL

\* After a successful run of generateIDLInterfaces both outputs for a program
\* are of one IDL, and of the file as it is if none was changed since.
THEOREM OutputIsCurrent == Spec => []OutputCurrent
<1>1. Types /\ GenerateInv => OutputCurrent
  <2>. SUFFICES ASSUME Types, GenerateInv, pc = "done", NEW n \in Names
                PROVE  /\ interfaces[n] = Interface(inputs[n], TRUE) /\ inputs[n] # None
                       /\ ~edited =>
                            LET last == CHOOSE d \in DOMAIN DataSources :
                                  /\ FileRef(DataSources[d], n) # {}
                                  /\ \A c \in (d + 1)..Len(DataSources) : FileRef(DataSources[c], n) = {}
                            IN  inputs[n] \in {files[f] : f \in FileRef(DataSources[last], n)}
    BY DEF OutputCurrent
  <2>. DEFINE IsLast(d) == /\ FileRef(DataSources[d], n) # {}
                           /\ \A c \in (d + 1)..Len(DataSources) : FileRef(DataSources[c], n) = {}
              last == CHOOSE d \in DOMAIN DataSources : IsLast(d)
  <2>1. PICK i \in DOMAIN AllAssets : AllAssets[i].name = n
    BY AssetFacts DEF Types
  <2>2. i < asset
    BY AssetFacts DEF Types, GenerateInv, InProcess
  <2>3. Written(i)
    BY <2>2 DEF GenerateInv, AssetsWritten
  <2>4. PICK d \in DOMAIN DataSources :
          /\ AllAssets[i].file \in FileRef(DataSources[d], n)
          /\ \A c \in DOMAIN DataSources : d < c => FileRef(DataSources[c], n) = {}
    BY <2>1, AssetFacts DEF Types
  <2>5. Len(DataSources) \in Nat /\ DOMAIN DataSources = 1..Len(DataSources)
    BY Lists DEF Types
  <2>6. IsLast(d)
    <3>1. ASSUME NEW c \in (d + 1)..Len(DataSources) PROVE c \in DOMAIN DataSources /\ d < c
      BY <2>5
    <3>. QED BY <2>4, <3>1
  <2>7. last \in DOMAIN DataSources /\ IsLast(last)
    <3>. HIDE DEF IsLast
    <3>. QED BY <2>6
  <2>8. last = d
    <3>. HIDE DEF last
    <3>1. ~(d < last)
      BY <2>4, <2>7
    <3>2. ~(last < d)
      <4>. SUFFICES ASSUME last < d PROVE FALSE
        OBVIOUS
      <4>1. d \in (last + 1)..Len(DataSources)
        BY <2>5, <2>7
      <4>. QED BY <2>6, <2>7, <4>1
    <3>. QED BY <2>5, <2>7, <3>1, <3>2
  <2>9. ~edited => inputs[n] \in {files[f] : f \in FileRef(DataSources[last], n)}
    <3>. HIDE DEF last
    <3>. QED BY <2>1, <2>3, <2>4, <2>8 DEF Written
  <2>. QED BY <2>1, <2>3, <2>9 DEF Written
<1>2. BuildInv => Types
  BY DEF BuildInv
<1>. QED BY <1>1, <1>2, GenerateInvariant, BuildInvariant, PTL
==============================================================================
