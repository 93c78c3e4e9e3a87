---------------------------- MODULE CenterProofs ----------------------------
(***************************************************************************)
(* Theorems about the model centre, for any configurations, runtimes,      *)
(* providers, seeds and desks, and tables of any size: a configuration     *)
(* keeps one channel, what is synchronised stays so, and a generation      *)
(* finds a live provider behind every channel it may take.                 *)
(***************************************************************************)
EXTENDS ModelCenter, FiniteSetTheorems, WellFoundedInduction, TLAPS

-----------------------------------------------------------------------------
(***************************************************************************)
(* Counting up, and the lowest of some rows.                               *)
(***************************************************************************)

\* The bounds on rows and edits are numbers.
LEMMA CenterBounds ==
    /\ MaxConfigs \in Nat /\ MaxModels \in Nat /\ MaxProviders \in Nat /\ MaxChannels \in Nat
    /\ MaxSaves \in Nat
BY CenterAssumption

\* Who counts up from 0 reaches every number, as there is no least one he misses.
LEMMA CountsUp ==
    ASSUME NEW N \in Nat, NEW P, 0 \in P,
           \A n \in 0..N : n # 0 /\ n - 1 \in P => n \in P
    PROVE  0..N \subseteq P
<1> DEFINE Missed == {n \in Nat : n \in 0..N /\ n \notin P}
<1>1. ASSUME Missed # {} PROVE FALSE
  <2>1. PICK m \in Missed : \A y \in Missed : ~(<<y, m>> \in OpToRel(<, Nat))
    BY <1>1, NatLessThanWellFounded, WFMin
  <2>2. m # 0 /\ m - 1 \in Nat /\ m - 1 \in 0..N /\ m - 1 < m  OBVIOUS
  <2>3. <<m - 1, m>> \in OpToRel(<, Nat)  BY <2>2 DEF OpToRel
  <2>4. m - 1 \notin Missed  BY <2>1, <2>3
  <2>5. m - 1 \in P  BY <2>2, <2>4
  <2> QED  BY <2>2, <2>5
<1> QED  BY <1>1

\* The lowest of some numbers is one of them and no more than the others.
LEMMA LowestIn ==
    ASSUME NEW S \in SUBSET Nat
    PROVE  /\ S = {} => Lowest(S) = 0
           /\ S # {} => Lowest(S) \in S /\ \A y \in S : Lowest(S) <= y
<1>1. ASSUME S # {} PROVE \E m \in S : \A y \in S : m <= y
  <2>1. PICK m \in S : \A y \in S : ~(<<y, m>> \in OpToRel(<, Nat))
    BY <1>1, NatLessThanWellFounded, WFMin
  <2>2. \A y \in S : ~(y < m)  BY <2>1 DEF OpToRel
  <2>3. \A y \in S : m <= y  BY <2>2
  <2> QED  BY <2>3
<1> QED  BY <1>1 DEF Lowest

-----------------------------------------------------------------------------
(***************************************************************************)
(* The tables.                                                             *)
(***************************************************************************)

States   == {"unmade", "live", "deleted"}
NameSet  == Names \cup Seeds \cup Runtimes \cup {0}
KeySet   == ProviderKeys

ConfigRow   == [st : States, name : NameSet, runtime : Runtimes \cup {0}, key : KeySet, on : BOOLEAN]
ModelRow    == [st : States, name : NameSet, type : Types]
ProviderRow == [st : States, key : KeySet, on : BOOLEAN]
ChannelRow  == [st : States, model : 0..MaxModels, provider : 0..MaxProviders, config : 0..MaxConfigs,
                runtime : Runtimes \cup {0}, on : BOOLEAN]
PolicyRow   == [source : {"none", "legacy", "center"}, def : 0..MaxModels, fallback : 0..MaxModels,
                routing : BOOLEAN]
EntryRow    == [model : 0..MaxModels, on : BOOLEAN]
SettingsRow == [def : [Types -> 0..MaxConfigs], fallback : 0..MaxConfigs, routing : BOOLEAN,
                allowed : SUBSET Runtimes]

ConfigTable   == [1..MaxConfigs -> ConfigRow]
ModelTable    == [1..MaxModels -> ModelRow]
ProviderTable == [1..MaxProviders -> ProviderRow]
ChannelTable  == [1..MaxChannels -> ChannelRow]
PolicyTable   == [Types -> PolicyRow]
EntryTable    == [Types -> [1..MaxChannels -> EntryRow]]

Tables == [config : ConfigTable, model : ModelTable, provider : ProviderTable, channel : ChannelTable,
           policy : PolicyTable, entry : EntryTable, settings : SettingsRow]

\* Each table has the type of its rows.
LEMMA TableFields ==
    ASSUME NEW d \in Tables
    PROVE  /\ d.config \in ConfigTable /\ d.model \in ModelTable /\ d.provider \in ProviderTable
           /\ d.channel \in ChannelTable /\ d.policy \in PolicyTable /\ d.entry \in EntryTable
           /\ d.settings \in SettingsRow
BY DEF Tables

\* What a change of one table leaves of the others.
LEMMA SetConfig ==
    ASSUME NEW d \in Tables, NEW x \in ConfigTable
    PROVE  LET e == [d EXCEPT !.config = x]
           IN  /\ e \in Tables /\ e.config = x /\ e.model = d.model /\ e.provider = d.provider
               /\ e.channel = d.channel /\ e.policy = d.policy /\ e.entry = d.entry
               /\ e.settings = d.settings
BY DEF Tables

LEMMA SetModel ==
    ASSUME NEW d \in Tables, NEW x \in ModelTable
    PROVE  LET e == [d EXCEPT !.model = x]
           IN  /\ e \in Tables /\ e.model = x /\ e.config = d.config /\ e.provider = d.provider
               /\ e.channel = d.channel /\ e.policy = d.policy /\ e.entry = d.entry
               /\ e.settings = d.settings
BY DEF Tables

LEMMA SetProvider ==
    ASSUME NEW d \in Tables, NEW x \in ProviderTable
    PROVE  LET e == [d EXCEPT !.provider = x]
           IN  /\ e \in Tables /\ e.provider = x /\ e.config = d.config /\ e.model = d.model
               /\ e.channel = d.channel /\ e.policy = d.policy /\ e.entry = d.entry
               /\ e.settings = d.settings
BY DEF Tables

LEMMA SetChannel ==
    ASSUME NEW d \in Tables, NEW x \in ChannelTable
    PROVE  LET e == [d EXCEPT !.channel = x]
           IN  /\ e \in Tables /\ e.channel = x /\ e.config = d.config /\ e.model = d.model
               /\ e.provider = d.provider /\ e.policy = d.policy /\ e.entry = d.entry
               /\ e.settings = d.settings
BY DEF Tables

LEMMA SetEntry ==
    ASSUME NEW d \in Tables, NEW x \in EntryTable
    PROVE  LET e == [d EXCEPT !.entry = x]
           IN  /\ e \in Tables /\ e.entry = x /\ e.config = d.config /\ e.model = d.model
               /\ e.provider = d.provider /\ e.policy = d.policy /\ e.channel = d.channel
               /\ e.settings = d.settings
BY DEF Tables

LEMMA SetSettings ==
    ASSUME NEW d \in Tables, NEW x \in SettingsRow
    PROVE  LET e == [d EXCEPT !.settings = x]
           IN  /\ e \in Tables /\ e.settings = x /\ e.config = d.config /\ e.model = d.model
               /\ e.provider = d.provider /\ e.policy = d.policy /\ e.entry = d.entry
               /\ e.channel = d.channel
BY DEF Tables

\* Two records of the same tables are the same.
LEMMA SameTables ==
    ASSUME NEW d \in Tables, NEW e \in Tables,
           e.config = d.config, e.model = d.model, e.provider = d.provider, e.channel = d.channel,
           e.policy = d.policy, e.entry = d.entry, e.settings = d.settings
    PROVE  e = d
BY DEF Tables

\* The next row of a table is unmade, or there is none.
LEMMA RowsAre ==
    ASSUME NEW N \in Nat, NEW t, DOMAIN t = 1..N, NEW st
    PROVE  /\ Rows(t, st) \subseteq 1..N /\ LiveOnes(t) \subseteq 1..N
           /\ NextRow(t) = 0 \/ NextRow(t) \in Rows(t, "unmade")
           /\ NextRow(t) = 0 => Rows(t, "unmade") = {}
           /\ NextRow(t) \in 0..N
<1>1. Rows(t, st) \subseteq 1..N /\ LiveOnes(t) \subseteq 1..N /\ Rows(t, "unmade") \subseteq 1..N
  BY DEF Rows, LiveOnes
<1>2. Rows(t, "unmade") \in SUBSET Nat  BY <1>1
<1>3. /\ NextRow(t) = 0 \/ NextRow(t) \in Rows(t, "unmade")
      /\ NextRow(t) = 0 => Rows(t, "unmade") = {}
  BY <1>1, <1>2, LowestIn DEF NextRow
<1> QED  BY <1>1, <1>3

\* What is done step by step has a result after each step.
Stepped(N, D, first, op, f) ==
    f \in [0..N -> D] /\ f = [n \in 0..N |-> IF n = 0 THEN first ELSE op[n][f[n - 1]]]

\* What is defined by a step for each number up to N exists, and stays typed.
LEMMA StepByStep ==
    ASSUME NEW N \in Nat, NEW D, NEW first \in D, NEW op \in [1..N -> [D -> D]]
    PROVE  \E f : Stepped(N, D, first, op, f)
<1> DEFINE Makes(f, k) == f \in [0..k -> D] /\ f = [n \in 0..k |-> IF n = 0 THEN first ELSE op[n][f[n - 1]]]
           Made == {k \in Nat : \E f : Makes(f, k)}
<1>1. 0 \in Made
  <2> DEFINE g == [n \in 0..0 |-> first]
  <2>1. Makes(g, 0)
    <3>1. \A n \in 0..0 : n = 0  OBVIOUS
    <3> QED  BY <3>1
  <2> HIDE DEF g
  <2> QED  BY <2>1
<1>2. ASSUME NEW k \in 0..N, k # 0, k - 1 \in Made PROVE k \in Made
  <2>1. PICK f : Makes(f, k - 1)  BY <1>2
  <2> DEFINE g == [n \in 0..k |-> IF n = k THEN op[k][f[k - 1]] ELSE f[n]]
  <2>0. k \in Nat /\ k - 1 \in Nat /\ k # 0 /\ k \in 1..N  BY <1>2
  <2>2. ASSUME NEW n \in 0..k
        PROVE  g[n] = (IF n = 0 THEN first ELSE op[n][g[n - 1]]) /\ g[n] \in D
    <3>1. CASE n = k
      <4>1. g[n] = op[k][f[k - 1]] /\ k - 1 \in 0..k /\ k - 1 # k  BY <2>0, <3>1
      <4>2. g[k - 1] = f[k - 1]  BY <4>1
      <4>3. f[k - 1] \in D  BY <2>0, <2>1
      <4>4. op[k][f[k - 1]] \in D  BY <2>0, <4>3
      <4> QED  BY <2>0, <3>1, <4>1, <4>2, <4>4
    <3>2. CASE n # k
      <4>1. n \in 0..(k - 1) /\ g[n] = f[n]  BY <2>0, <3>2
      <4>2. f[n] = (IF n = 0 THEN first ELSE op[n][f[n - 1]]) /\ f[n] \in D  BY <2>1, <4>1
      <4>3. n # 0 => n - 1 \in 0..k /\ n - 1 # k  BY <2>0, <4>1
      <4>4. n # 0 => g[n - 1] = f[n - 1]  BY <4>3
      <4> QED  BY <4>1, <4>2, <4>4
    <3> QED  BY <3>1, <3>2
  <2>3. g = [n \in 0..k |-> g[n]]  OBVIOUS
  <2> HIDE DEF g
  <2>4. g \in [0..k -> D] /\ g = [n \in 0..k |-> IF n = 0 THEN first ELSE op[n][g[n - 1]]]
    BY <2>2, <2>3
  <2> QED  BY <2>0, <2>4
<1> HIDE DEF Made
<1>3. 0..N \subseteq Made  BY <1>1, <1>2, CountsUp
<1>4. N \in Made  BY <1>3
<1> QED  BY <1>4 DEF Made, Stepped

-----------------------------------------------------------------------------
(***************************************************************************)
(* What a synchronisation does for one configuration.                      *)
(***************************************************************************)

\* Tables that grow: a row that was made stays, whatever becomes of it.
Grows(d, e) ==
    /\ Rows(e.provider, "unmade") \subseteq Rows(d.provider, "unmade")
    /\ Rows(e.model, "unmade") \subseteq Rows(d.model, "unmade")
    /\ Rows(e.channel, "unmade") \subseteq Rows(d.channel, "unmade")

\* Growth goes on.
LEMMA GrowsOn ==
    ASSUME NEW d, NEW e, NEW f, Grows(d, e), Grows(e, f)
    PROVE  Grows(d, f)
BY DEF Grows

\* A row that is written was not unmade afterwards.
LEMMA MadeRows ==
    ASSUME NEW N \in Nat, NEW t, DOMAIN t = 1..N, NEW k, NEW x, x.st # "unmade"
    PROVE  Rows([t EXCEPT ![k] = x], "unmade") \subseteq Rows(t, "unmade")
BY DEF Rows

\* ProviderFor finds a live provider of the key, refuses a deleted one, or makes a row.
LEMMA ProviderOf ==
    ASSUME NEW d \in Tables, NEW c \in ConfigRow
    PROVE  LET r == ProviderFor(d, c)
               old == WithKey(d, "live", c.key)
               gone == WithKey(d, "deleted", c.key)
               new == NextRow(d.provider)
           IN  /\ r.db \in Tables /\ r.db.config = d.config /\ r.db.model = d.model
               /\ r.db.channel = d.channel /\ r.db.policy = d.policy /\ r.db.entry = d.entry
               /\ r.db.settings = d.settings
               /\ r.id \in 0..MaxProviders /\ Grows(d, r.db)
               /\ \/ old # {} /\ r.db = d /\ r.id = Lowest(old) /\ r.id \in old
                  \/ old = {} /\ gone # {} /\ r.db = d /\ r.id = 0
                  \/ /\ old = {} /\ gone = {} /\ r.id = new
                     /\ r.db.provider =
                           [d.provider EXCEPT ![new] = [st |-> "live", key |-> c.key, on |-> TRUE]]
<1> DEFINE r == ProviderFor(d, c)
           old == WithKey(d, "live", c.key)
           gone == WithKey(d, "deleted", c.key)
           new == NextRow(d.provider)
           row == [st |-> "live", key |-> c.key, on |-> TRUE]
<1>0. d.provider \in ProviderTable  BY TableFields
<1>1. DOMAIN d.provider = 1..MaxProviders  BY <1>0 DEF ProviderTable
<1>2. new \in 0..MaxProviders  BY <1>1, RowsAre, CenterBounds
<1>3. old \subseteq 1..MaxProviders  BY <1>1 DEF WithKey, Rows
<1>4. old # {} => Lowest(old) \in old /\ Lowest(old) \in 0..MaxProviders
  <2>1. old \in SUBSET Nat  BY <1>3
  <2> QED  BY <1>3, <2>1, LowestIn
<1>5. Grows(d, d)  BY DEF Grows
<1>6. CASE old # {}
  <2>1. r = [db |-> d, id |-> Lowest(old)]  BY <1>6 DEF ProviderFor
  <2> QED  BY <1>4, <1>5, <1>6, <2>1
<1>7. CASE old = {} /\ gone # {}
  <2>1. r = [db |-> d, id |-> 0]  BY <1>7 DEF ProviderFor
  <2> QED  BY <1>5, <1>7, <2>1, CenterBounds
<1>8. CASE old = {} /\ gone = {}
  <2> DEFINE x == [d.provider EXCEPT ![new] = row]
  <2>1. r = [db |-> [d EXCEPT !.provider[new] = row], id |-> new]  BY <1>8 DEF ProviderFor
  <2>2. [d EXCEPT !.provider[new] = row] = [d EXCEPT !.provider = x]  OBVIOUS
  <2>3. row \in ProviderRow  BY DEF ProviderRow, States, ConfigRow
  <2>4. x \in ProviderTable  BY <1>0, <2>3 DEF ProviderTable
  <2>5. Rows(x, "unmade") \subseteq Rows(d.provider, "unmade")
    BY <1>1, CenterBounds, MadeRows
  <2> HIDE DEF x
  <2>6. /\ r.db \in Tables /\ r.db.config = d.config /\ r.db.model = d.model
        /\ r.db.channel = d.channel /\ r.db.policy = d.policy /\ r.db.entry = d.entry
        /\ r.db.settings = d.settings /\ r.db.provider = x /\ r.id = new
    <3> DEFINE e == [d EXCEPT !.provider = x]
    <3>1. /\ e \in Tables /\ e.config = d.config /\ e.model = d.model /\ e.channel = d.channel
          /\ e.policy = d.policy /\ e.entry = d.entry /\ e.settings = d.settings /\ e.provider = x
      BY <2>4, SetProvider
    <3>2. r = [db |-> e, id |-> new]  BY <2>1, <2>2
    <3> HIDE DEF e, r
    <3> QED  BY <3>1, <3>2
  <2>7. Grows(d, r.db)  BY <2>5, <2>6 DEF Grows
  <2> QED  BY <1>2, <1>8, <2>6, <2>7 DEF x
<1> QED  BY <1>6, <1>7, <1>8

\* The oldest channel of a runtime is the lowest of its rows, or 0.
LEMMA OldestIs ==
    ASSUME NEW d \in Tables, NEW r
    PROVE  LET S == {ch \in LiveOnes(d.channel) : d.channel[ch].runtime = r}
           IN  /\ OldestOf(d, r) = 0 <=> S = {}
               /\ OldestOf(d, r) # 0 => OldestOf(d, r) \in S
               /\ \A ch \in S : OldestOf(d, r) <= ch
<1> DEFINE S == {ch \in LiveOnes(d.channel) : d.channel[ch].runtime = r}
<1>1. S \subseteq 1..MaxChannels  BY TableFields DEF LiveOnes, Rows, ChannelTable
<1>2. S \in SUBSET Nat /\ 0 \notin S  BY <1>1
<1>3. OldestOf(d, r) = Lowest(S)  BY DEF OldestOf
<1> HIDE DEF S
<1>4. /\ Lowest(S) = 0 <=> S = {}
      /\ Lowest(S) # 0 => Lowest(S) \in S
      /\ \A ch \in S : Lowest(S) <= ch
  BY <1>2, LowestIn
<1> QED  BY <1>3, <1>4 DEF S

\* The only channels of a model that is converted have the runtime it is converted for.
Converted(d, e, m, r) ==
    \/ e.model[m].type = d.model[m].type
    \/ /\ e.model[m].type = TypeOf[r]
       /\ \A ch \in LiveOnes(d.channel) : d.channel[ch].model = m => d.channel[ch].runtime = r

\* ModelFor finds a model of the modality, converts one, or makes a row.
LEMMA ModelIs ==
    ASSUME NEW d \in Tables, NEW c \in ConfigRow, c.runtime \in Runtimes
    PROVE  LET r == ModelFor(d, c)
           IN  /\ r.db \in Tables /\ r.db.config = d.config /\ r.db.provider = d.provider
               /\ r.db.channel = d.channel /\ r.db.policy = d.policy /\ r.db.entry = d.entry
               /\ r.db.settings = d.settings
               /\ r.id \in 0..MaxModels /\ Grows(d, r.db)
               /\ \A m \in LiveOnes(d.model) : m \in LiveOnes(r.db.model) /\ Converted(d, r.db, m, c.runtime)
               /\ NextRow(d.model) # 0 =>
                     r.id \in LiveOnes(r.db.model) /\ r.db.model[r.id].type = TypeOf[c.runtime]
<1> DEFINE r      == ModelFor(d, c)
           type   == TypeOf[c.runtime]
           oldest == OldestOf(d, c.runtime)
           known  == IF oldest = 0 THEN 0 ELSE d.channel[oldest].model
           usable == known # 0 /\ known \in LiveOnes(d.model)
           alone  == Cardinality({ch \in LiveOnes(d.channel) : d.channel[ch].model = known}) = 1
           names  == {m \in LiveOnes(d.model) : d.model[m].type = type /\ d.model[m].name = c.name}
           named  == Lowest(names)
           new    == NextRow(d.model)
           row    == [st |-> "live", name |-> c.name, type |-> type]
<1>1. r = IF usable /\ d.model[known].type = type THEN [db |-> d, id |-> known]
          ELSE IF usable /\ alone THEN [db |-> [d EXCEPT !.model[known].type = type], id |-> known]
          ELSE IF named # 0 THEN [db |-> d, id |-> named]
          ELSE [db |-> [d EXCEPT !.model[new] = row], id |-> new]
  BY DEF ModelFor
<1>2. d.model \in ModelTable /\ d.channel \in ChannelTable /\ type \in Types /\ c.name \in NameSet
  BY TableFields, CenterAssumption DEF ConfigRow
<1>3. DOMAIN d.model = 1..MaxModels /\ LiveOnes(d.model) \subseteq 1..MaxModels
  BY <1>2 DEF ModelTable, LiveOnes, Rows
<1>4. new \in 0..MaxModels /\ (new = 0 \/ new \in Rows(d.model, "unmade"))
  BY <1>3, RowsAre, CenterBounds
<1>5. named \in 0..MaxModels /\ (named # 0 => named \in names)
  <2>1. names \in SUBSET Nat /\ names \subseteq 1..MaxModels  BY <1>3
  <2> QED  BY <2>1, LowestIn, CenterBounds
<1>6. Grows(d, d) /\ \A m : Converted(d, d, m, c.runtime)  BY DEF Grows, Converted
<1> HIDE DEF r, type, named
<1>7. CASE usable /\ d.model[known].type = type
  <2>1. r = [db |-> d, id |-> known]  BY <1>1, <1>7
  <2>2. known \in LiveOnes(d.model) /\ known \in 0..MaxModels  BY <1>3, <1>7
  <2> HIDE DEF known
  <2> QED  BY <1>6, <1>7, <2>1, <2>2 DEF r, type
<1>8. CASE ~(usable /\ d.model[known].type = type) /\ usable /\ alone
  <2> DEFINE x == [d.model EXCEPT ![known].type = type]
             e == [d EXCEPT !.model = x]
  <2>1. known \in LiveOnes(d.model) /\ known \in 1..MaxModels  BY <1>3, <1>8
  <2>2. oldest # 0 /\ oldest \in LiveOnes(d.channel) /\ d.channel[oldest].model = known
        /\ d.channel[oldest].runtime = c.runtime
    BY <1>8, OldestIs
  <2>3. \A ch \in LiveOnes(d.channel) : d.channel[ch].model = known => d.channel[ch].runtime = c.runtime
    <3> DEFINE T == {ch \in LiveOnes(d.channel) : d.channel[ch].model = known}
    <3>1. IsFiniteSet(T)
      <4>1. T \subseteq 1..MaxChannels  BY <1>2 DEF LiveOnes, Rows, ChannelTable
      <4>2. 1 \in Int /\ MaxChannels \in Int  BY CenterBounds
      <4>3. IsFiniteSet(1..MaxChannels)  BY <4>2, FS_Interval
      <4> HIDE DEF T
      <4> QED  BY <4>1, <4>3, FS_Subset
    <3>2. Cardinality(T) = 1  BY <1>8
    <3>3. oldest \in T  BY <2>2
    <3>4. \E y : T = {y}
      <4> HIDE DEF T, oldest
      <4> QED  BY <3>1, <3>2, FS_Singleton
    <3>5. T = {oldest}
      <4> HIDE DEF T, oldest
      <4> QED  BY <3>3, <3>4
    <3> QED  BY <2>2, <3>5
  <2> HIDE DEF known, oldest
  <2>4. d.model[known] \in ModelRow  BY <1>2, <2>1 DEF ModelTable
  <2>5. [d.model[known] EXCEPT !.type = type] \in ModelRow
        /\ [d.model[known] EXCEPT !.type = type].type = type
        /\ [d.model[known] EXCEPT !.type = type].st = d.model[known].st
    BY <1>2, <2>4 DEF ModelRow
  <2>6. /\ x \in ModelTable /\ DOMAIN x = 1..MaxModels
        /\ x[known] = [d.model[known] EXCEPT !.type = type]
        /\ \A m \in 1..MaxModels : m # known => x[m] = d.model[m]
    BY <1>2, <2>1, <2>5 DEF ModelTable
  <2>7. [d EXCEPT !.model[known].type = type] = e  OBVIOUS
  <2>8. \A m \in 1..MaxModels : x[m].st = d.model[m].st  BY <2>5, <2>6
  <2>9. Rows(x, "unmade") = Rows(d.model, "unmade") /\ LiveOnes(x) = LiveOnes(d.model)
    BY <1>3, <2>6, <2>8 DEF Rows, LiveOnes
  <2> HIDE DEF x
  <2>10. /\ e \in Tables /\ e.model = x /\ e.config = d.config /\ e.provider = d.provider
         /\ e.channel = d.channel /\ e.policy = d.policy /\ e.entry = d.entry /\ e.settings = d.settings
    BY <2>6, SetModel
  <2> HIDE DEF e
  <2>11. r = [db |-> e, id |-> known]  BY <1>1, <1>8, <2>7
  <2>12. Grows(d, e)  BY <2>9, <2>10 DEF Grows
  <2>13. \A m \in LiveOnes(d.model) : m \in LiveOnes(e.model) /\ Converted(d, e, m, c.runtime)
    BY <1>3, <2>3, <2>5, <2>6, <2>9, <2>10 DEF Converted, type
  <2>14. known \in LiveOnes(e.model) /\ e.model[known].type = type /\ known \in 0..MaxModels
    <3>1. known \in 0..MaxModels  BY <2>1
    <3>2. known \in LiveOnes(e.model)  BY <2>1, <2>9, <2>10
    <3>3. e.model[known] = [d.model[known] EXCEPT !.type = type]  BY <2>6, <2>10
    <3>4. e.model[known].type = type  BY <2>5, <3>3
    <3> QED  BY <3>1, <3>2, <3>4
  <2>15. r.db = e /\ r.id = known  BY <2>11
  <2> QED  BY <2>10, <2>12, <2>13, <2>14, <2>15 DEF r, type
<1>9. CASE ~usable \/ ~(d.model[known].type = type \/ alone)
  <2>1. CASE named # 0
    <3>1. r = [db |-> d, id |-> named]  BY <1>1, <1>9, <2>1
    <3>2. r.db = d /\ r.id = named  BY <3>1
    <3>3. named \in LiveOnes(d.model) /\ d.model[named].type = type  BY <1>5, <2>1
    <3> QED  BY <1>5, <1>6, <3>2, <3>3 DEF r, type
  <2>2. CASE named = 0
    <3> DEFINE x == [d.model EXCEPT ![new] = row]
               e == [d EXCEPT !.model = x]
    <3>1. row \in ModelRow /\ row.st = "live" /\ row.type = type  BY <1>2 DEF ModelRow, States
    <3>2. [d EXCEPT !.model[new] = row] = e  OBVIOUS
    <3>3. r = [db |-> e, id |-> new]  BY <1>1, <1>9, <2>2, <3>2
    <3> HIDE DEF row
    <3>4. x \in ModelTable /\ DOMAIN x = 1..MaxModels  BY <1>2, <3>1 DEF ModelTable
    <3>5. Rows(x, "unmade") \subseteq Rows(d.model, "unmade")  BY <1>3, <3>1, MadeRows, CenterBounds
    <3>6. \A m \in LiveOnes(d.model) : m # new
      BY <1>3, <1>4 DEF LiveOnes, Rows
    <3>7. \A m \in LiveOnes(d.model) : m \in LiveOnes(x) /\ x[m] = d.model[m]
      BY <1>3, <3>4, <3>6 DEF LiveOnes, Rows
    <3>8. new # 0 => new \in LiveOnes(x) /\ x[new].type = type
      BY <1>3, <1>4, <3>1, <3>4 DEF LiveOnes, Rows
    <3> HIDE DEF x
    <3>9. /\ e \in Tables /\ e.model = x /\ e.config = d.config /\ e.provider = d.provider
          /\ e.channel = d.channel /\ e.policy = d.policy /\ e.entry = d.entry /\ e.settings = d.settings
      BY <3>4, SetModel
    <3> HIDE DEF e
    <3>10. r.db = e /\ r.id = new  BY <3>3
    <3>11. Grows(d, e)  BY <3>5, <3>9 DEF Grows
    <3> QED  BY <1>4, <3>7, <3>8, <3>9, <3>10, <3>11 DEF r, type, Converted
  <2> QED  BY <2>1, <2>2
<1> QED  BY <1>7, <1>8, <1>9

\* Dropping entries and removing channels, table by table.
LEMMA EntriesDropped ==
    ASSUME NEW d \in Tables, NEW S
    PROVE  LET e == DropEntries(d, S)
           IN  /\ e \in Tables /\ e.config = d.config /\ e.model = d.model /\ e.provider = d.provider
               /\ e.channel = d.channel /\ e.policy = d.policy /\ e.settings = d.settings
               /\ e.entry = [t \in Types |-> [ch \in 1..MaxChannels |->
                                IF ch \in S THEN NoEntry ELSE d.entry[t][ch]]]
<1> DEFINE x == [t \in Types |-> [ch \in 1..MaxChannels |-> IF ch \in S THEN NoEntry ELSE d.entry[t][ch]]]
           e == [d EXCEPT !.entry = x]
<1>1. DOMAIN d.channel = 1..MaxChannels  BY TableFields DEF ChannelTable
<1>2. d.entry \in EntryTable  BY TableFields
<1>3. NoEntry \in EntryRow  BY CenterBounds DEF NoEntry, EntryRow
<1>4. x \in EntryTable  BY <1>2, <1>3 DEF EntryTable
<1>5. DropEntries(d, S) = e  BY <1>1 DEF DropEntries
<1> HIDE DEF x
<1>6. /\ e \in Tables /\ e.entry = x /\ e.config = d.config /\ e.model = d.model
      /\ e.provider = d.provider /\ e.policy = d.policy /\ e.channel = d.channel
      /\ e.settings = d.settings
  BY <1>4, SetEntry
<1> HIDE DEF e
<1> QED  BY <1>5, <1>6 DEF x

\* Marking channels as deleted changes their status and nothing else.
LEMMA DeletedRows ==
    ASSUME NEW t \in ChannelTable, NEW S
    PROVE  /\ Deleted(t, S) \in ChannelTable
           /\ \A ch \in 1..MaxChannels :
                 /\ ch \notin S => Deleted(t, S)[ch] = t[ch]
                 /\ Deleted(t, S)[ch].st = IF ch \in S THEN "deleted" ELSE t[ch].st
                 /\ Deleted(t, S)[ch].config = t[ch].config
                 /\ Deleted(t, S)[ch].provider = t[ch].provider
<1>1. DOMAIN t = 1..MaxChannels /\ \A ch \in 1..MaxChannels : t[ch] \in ChannelRow  BY DEF ChannelTable
<1>2. \A ch \in 1..MaxChannels :
        LET y == [t[ch] EXCEPT !.st = "deleted"]
        IN  y \in ChannelRow /\ y.st = "deleted" /\ y.config = t[ch].config /\ y.provider = t[ch].provider
  BY <1>1 DEF ChannelRow, States
<1> QED  BY <1>1, <1>2 DEF Deleted, ChannelTable

LEMMA ChannelsRemoved ==
    ASSUME NEW d \in Tables, NEW S
    PROVE  LET e == RemoveChannels(d, S)
           IN  /\ e \in Tables /\ e.config = d.config /\ e.model = d.model /\ e.provider = d.provider
               /\ e.policy = d.policy /\ e.settings = d.settings
               /\ e.channel = Deleted(d.channel, S)
               /\ e.entry = [t \in Types |-> [ch \in 1..MaxChannels |->
                                IF ch \in S THEN NoEntry ELSE d.entry[t][ch]]]
<1> DEFINE b == DropEntries(d, S)
           x == Deleted(d.channel, S)
           e == [b EXCEPT !.channel = x]
<1>1. /\ b \in Tables /\ b.config = d.config /\ b.model = d.model /\ b.provider = d.provider
      /\ b.channel = d.channel /\ b.policy = d.policy /\ b.settings = d.settings
      /\ b.entry = [t \in Types |-> [ch \in 1..MaxChannels |->
                       IF ch \in S THEN NoEntry ELSE d.entry[t][ch]]]
  BY EntriesDropped
<1>2. x \in ChannelTable  BY TableFields, DeletedRows
<1>3. RemoveChannels(d, S) = [b EXCEPT !.channel = Deleted(@, S)]  BY DEF RemoveChannels
<1> HIDE DEF b
<1>4. RemoveChannels(d, S) = e  BY <1>1, <1>3
<1> HIDE DEF x
<1>5. /\ e \in Tables /\ e.channel = x /\ e.config = b.config /\ e.model = b.model
      /\ e.provider = b.provider /\ e.policy = b.policy /\ e.entry = b.entry
      /\ e.settings = b.settings
  BY <1>1, <1>2, SetChannel
<1> HIDE DEF e
<1> QED  BY <1>1, <1>4, <1>5 DEF x

\* The channel of a configuration is a live row of it, or there is none.
LEMMA ChannelIs ==
    ASSUME NEW d \in Tables, NEW i \in 1..MaxConfigs
    PROVE  /\ ChannelOf(d, i) \in 0..MaxChannels
           /\ ChannelOf(d, i) # 0 =>
                 /\ ChannelOf(d, i) \in LiveOnes(d.channel)
                 /\ ChannelOf(d, i) \in 1..MaxChannels
                 /\ d.channel[ChannelOf(d, i)].config = i
                 /\ d.channel[ChannelOf(d, i)].st = "live"
           /\ ChannelOf(d, i) = 0 =>
                 \A ch \in LiveOnes(d.channel) : d.channel[ch].config # i
<1> DEFINE S == {ch \in LiveOnes(d.channel) : i # 0 /\ d.channel[ch].config = i}
<1>1. S \subseteq 1..MaxChannels /\ LiveOnes(d.channel) \subseteq 1..MaxChannels
  BY TableFields DEF LiveOnes, Rows, ChannelTable
<1>2. S \in SUBSET Nat /\ 0 \notin S /\ i # 0  BY <1>1, CenterBounds
<1>3. ChannelOf(d, i) = Lowest(S)  BY DEF ChannelOf
<1>4. \A ch \in S : ch \in LiveOnes(d.channel) /\ d.channel[ch].config = i /\ d.channel[ch].st = "live"
  BY DEF LiveOnes, Rows
<1>5. S = {} => \A ch \in LiveOnes(d.channel) : d.channel[ch].config # i  BY <1>2
<1> HIDE DEF S
<1>6. S = {} => Lowest(S) = 0  BY <1>2, LowestIn
<1>7. S # {} => Lowest(S) \in S  BY <1>2, LowestIn
<1>8. CASE S = {}  BY <1>3, <1>5, <1>6, <1>8, CenterBounds
<1>9. CASE S # {}
  <2>1. Lowest(S) \in S /\ Lowest(S) \in 1..MaxChannels  BY <1>1, <1>7, <1>9
  <2> QED  BY <1>2, <1>3, <1>4, <2>1, CenterBounds
<1> QED  BY <1>8, <1>9

\* Made configurations have a runtime.
MadeConfigs(d) == \A i \in 1..MaxConfigs : d.config[i].st # "unmade" => d.config[i].runtime \in Runtimes

\* The four outcomes for a configuration.
Skipped(d, e, i) == i \notin LiveOnes(d.config) /\ e = d

Buried(d, e, i) ==
    /\ i \in LiveOnes(d.config) /\ ChannelOf(d, i) = 0 /\ Dropped(d, i) # {}
    /\ e.model = d.model /\ e.provider = d.provider /\ e.channel = d.channel
    /\ e.entry = [t \in Types |-> [ch \in 1..MaxChannels |->
                     IF ch \in Dropped(d, i) THEN NoEntry ELSE d.entry[t][ch]]]

Unserved(d, e, i) ==
    LET own == ChannelOf(d, i)
    IN  /\ i \in LiveOnes(d.config) /\ (own = 0 => Dropped(d, i) = {})
        /\ WithKey(d, "live", d.config[i].key) = {}
        /\ \/ WithKey(d, "deleted", d.config[i].key) # {}
           \/ NextRow(d.provider) = 0
        /\ e.model = d.model /\ e.provider = d.provider
        /\ e.channel = Deleted(d.channel, {own} \ {0})
        /\ e.entry = [t \in Types |-> [ch \in 1..MaxChannels |->
                         IF ch \in {own} \ {0} THEN NoEntry ELSE d.entry[t][ch]]]

Placed(d, e, i, ch, p, m) ==
    LET own == ChannelOf(d, i)
        c   == d.config[i]
        old == WithKey(d, "live", c.key)
    IN  /\ i \in LiveOnes(d.config) /\ (own = 0 => Dropped(d, i) = {})
        /\ ch = (IF own # 0 THEN own ELSE NextRow(d.channel))
        /\ \/ old # {} /\ e.provider = d.provider /\ p = Lowest(old) /\ p \in old
           \/ /\ old = {} /\ WithKey(d, "deleted", c.key) = {} /\ p = NextRow(d.provider) /\ p # 0
              /\ e.provider = [d.provider EXCEPT ![p] = [st |-> "live", key |-> c.key, on |-> TRUE]]
        /\ \A k \in LiveOnes(d.model) : k \in LiveOnes(e.model) /\ Converted(d, e, k, c.runtime)
        /\ NextRow(d.model) # 0 => m \in LiveOnes(e.model) /\ e.model[m].type = TypeOf[c.runtime]
        /\ e.entry = d.entry
        /\ e.channel = [d.channel EXCEPT ![ch] =
              [st |-> "live", model |-> m, provider |-> p, config |-> i,
               runtime |-> c.runtime, on |-> c.on]]

Filled(r, m, p, rt, on) == [r EXCEPT !.model = m, !.provider = p, !.runtime = rt, !.on = on]

\* The fields of a row after a synchronisation filled it.
LEMMA RowFilled ==
    ASSUME NEW r \in ChannelRow, NEW m \in 0..MaxModels, NEW p \in 0..MaxProviders,
           NEW rt \in Runtimes \cup {0}, NEW on \in BOOLEAN
    PROVE  Filled(r, m, p, rt, on)
           = [st |-> r.st, model |-> m, provider |-> p, config |-> r.config, runtime |-> rt, on |-> on]
<1> DEFINE x == [r EXCEPT !.model = m, !.provider = p, !.runtime = rt, !.on = on]
<1>1. /\ x \in ChannelRow /\ x.st = r.st /\ x.config = r.config
      /\ x.model = m /\ x.provider = p /\ x.runtime = rt /\ x.on = on
  BY DEF ChannelRow
<1> HIDE DEF x
<1>2. x = [st |-> r.st, model |-> m, provider |-> p, config |-> r.config, runtime |-> rt, on |-> on]
  BY <1>1 DEF ChannelRow
<1> QED  BY <1>2 DEF x, Filled

\* The row a synchronisation makes, before it is filled.
LEMMA NewChannelRow ==
    ASSUME NEW i \in 0..MaxConfigs
    PROVE  LET r == [NoChannel EXCEPT !.st = "live", !.config = i]
           IN  r \in ChannelRow /\ r.st = "live" /\ r.config = i
<1>1. NoChannel \in ChannelRow  BY CenterBounds DEF NoChannel, ChannelRow, States
<1> QED  BY <1>1 DEF ChannelRow, States

\* A synchronisation of one configuration does one of four things.
LEMMA SyncIs ==
    ASSUME NEW d \in Tables, NEW i \in 1..MaxConfigs, MadeConfigs(d)
    PROVE  LET e == SyncConfig(d, i)
           IN  /\ e \in Tables /\ e.config = d.config /\ e.policy = d.policy /\ e.settings = d.settings
               /\ Grows(d, e)
               /\ \/ Skipped(d, e, i) \/ Buried(d, e, i) \/ Unserved(d, e, i)
                  \/ \E ch \in 0..MaxChannels, p \in 1..MaxProviders, m \in 0..MaxModels :
                        Placed(d, e, i, ch, p, m)
<1> DEFINE e   == SyncConfig(d, i)
           c   == d.config[i]
           own == ChannelOf(d, i)
           p   == ProviderFor(d, c)
           m   == ModelFor(p.db, c)
           ch  == IF own # 0 THEN own ELSE NextRow(d.channel)
           old == IF own # 0 THEN d.channel[own] ELSE [NoChannel EXCEPT !.st = "live", !.config = i]
           row == [old EXCEPT !.model = m.id, !.provider = p.id, !.runtime = c.runtime, !.on = c.on]
<1>1. e = IF i \notin LiveOnes(d.config) THEN d
          ELSE IF own = 0 /\ Dropped(d, i) # {} THEN DropEntries(d, Dropped(d, i))
          ELSE IF p.id = 0 THEN RemoveChannels(d, {own} \ {0})
          ELSE [m.db EXCEPT !.channel[ch] = row]
  BY DEF SyncConfig
<1>2. c \in ConfigRow /\ (i \in LiveOnes(d.config) => c.runtime \in Runtimes)
  BY TableFields DEF MadeConfigs, LiveOnes, Rows, ConfigTable
<1>3. d.channel \in ChannelTable /\ DOMAIN d.channel = 1..MaxChannels
  BY TableFields DEF ChannelTable
<1>4. Grows(d, d)  BY DEF Grows
<1> HIDE DEF e
<1>5. CASE i \notin LiveOnes(d.config)
  <2>1. e = d  BY <1>1, <1>5
  <2> QED  BY <1>4, <1>5, <2>1 DEF Skipped, e
<1>6. CASE i \in LiveOnes(d.config) /\ own = 0 /\ Dropped(d, i) # {}
  <2>1. e = DropEntries(d, Dropped(d, i))  BY <1>1, <1>6
  <2>2. /\ e \in Tables /\ e.config = d.config /\ e.model = d.model /\ e.provider = d.provider
        /\ e.channel = d.channel /\ e.policy = d.policy /\ e.settings = d.settings
        /\ e.entry = [t \in Types |-> [k \in 1..MaxChannels |->
                         IF k \in Dropped(d, i) THEN NoEntry ELSE d.entry[t][k]]]
    BY <2>1, EntriesDropped
  <2>3. Grows(d, e)  BY <2>2 DEF Grows
  <2>4. Buried(d, e, i)  BY <1>6, <2>2 DEF Buried
  <2> QED  BY <2>2, <2>3, <2>4 DEF e
<1> DEFINE Goes == i \in LiveOnes(d.config) /\ (own = 0 => Dropped(d, i) = {})
<1>7. CASE Goes /\ p.id = 0
  <2> DEFINE S == {own} \ {0}
  <2>1. e = RemoveChannels(d, S)  BY <1>1, <1>7
  <2>2. /\ e \in Tables /\ e.config = d.config /\ e.model = d.model /\ e.provider = d.provider
        /\ e.policy = d.policy /\ e.settings = d.settings
        /\ e.channel = Deleted(d.channel, S)
        /\ e.entry = [t \in Types |-> [k \in 1..MaxChannels |->
                         IF k \in S THEN NoEntry ELSE d.entry[t][k]]]
    <3> HIDE DEF S
    <3> QED  BY <2>1, ChannelsRemoved
  <2>3. Rows(e.channel, "unmade") \subseteq Rows(d.channel, "unmade")
    <3>1. e.channel \in ChannelTable
          /\ \A k \in 1..MaxChannels : e.channel[k].st = "unmade" => d.channel[k].st = "unmade"
      <4> HIDE DEF S
      <4>1. e.channel = Deleted(d.channel, S)  BY <2>2
      <4>2. \A k \in 1..MaxChannels :
              e.channel[k].st = IF k \in S THEN "deleted" ELSE d.channel[k].st
        BY <1>3, <4>1, DeletedRows
      <4>3. e.channel \in ChannelTable  BY <1>3, <4>1, DeletedRows
      <4> QED  BY <4>2, <4>3
    <3> QED  BY <1>3, <3>1 DEF Rows, ChannelTable
  <2>4. Grows(d, e)  BY <2>2, <2>3 DEF Grows
  <2>5. WithKey(d, "live", c.key) = {} /\ (WithKey(d, "deleted", c.key) # {} \/ NextRow(d.provider) = 0)
    <3>1. WithKey(d, "live", c.key) \subseteq 1..MaxProviders
      BY TableFields DEF WithKey, Rows, ProviderTable
    <3>2. 0 \notin WithKey(d, "live", c.key)  BY <3>1
    <3> HIDE DEF c, p
    <3>3. p = ProviderFor(d, c)  BY DEF p
    <3> QED  BY <1>2, <1>7, <3>2, <3>3, ProviderOf
  <2>6. Unserved(d, e, i)  BY <1>7, <2>2, <2>5 DEF Unserved
  <2> QED  BY <2>2, <2>4, <2>6 DEF e
<1>8. CASE Goes /\ p.id # 0
  <2> DEFINE live == WithKey(d, "live", c.key)
             gone == WithKey(d, "deleted", c.key)
             new  == NextRow(d.provider)
  <2>1. /\ p.db \in Tables /\ p.db.config = d.config /\ p.db.model = d.model
        /\ p.db.channel = d.channel /\ p.db.policy = d.policy /\ p.db.entry = d.entry
        /\ p.db.settings = d.settings
        /\ p.id \in 1..MaxProviders /\ Grows(d, p.db)
        /\ \/ live # {} /\ p.db = d /\ p.id = Lowest(live) /\ p.id \in live
           \/ /\ live = {} /\ gone = {} /\ p.id = new
              /\ p.db.provider = [d.provider EXCEPT ![new] = [st |-> "live", key |-> c.key, on |-> TRUE]]
    <3> HIDE DEF c, p
    <3>1. p = ProviderFor(d, c) /\ c \in ConfigRow  BY <1>2 DEF p
    <3>2. p.id \in 0..MaxProviders /\ p.id # 0 => p.id \in 1..MaxProviders  OBVIOUS
    <3> QED  BY <1>8, <3>1, <3>2, ProviderOf
  <2> HIDE DEF p
  <2>2. /\ m.db \in Tables /\ m.db.config = p.db.config /\ m.db.provider = p.db.provider
        /\ m.db.channel = p.db.channel /\ m.db.policy = p.db.policy /\ m.db.entry = p.db.entry
        /\ m.db.settings = p.db.settings
        /\ m.id \in 0..MaxModels /\ Grows(p.db, m.db)
        /\ \A k \in LiveOnes(p.db.model) : k \in LiveOnes(m.db.model) /\ Converted(p.db, m.db, k, c.runtime)
        /\ NextRow(p.db.model) # 0 =>
              m.id \in LiveOnes(m.db.model) /\ m.db.model[m.id].type = TypeOf[c.runtime]
    <3> HIDE DEF c, m
    <3>1. m = ModelFor(p.db, c) /\ c \in ConfigRow /\ c.runtime \in Runtimes  BY <1>2, <1>8 DEF m
    <3> QED  BY <2>1, <3>1, ModelIs
  <2> HIDE DEF m
  <2>3. own \in 0..MaxChannels
        /\ (own # 0 => own \in 1..MaxChannels /\ d.channel[own].config = i /\ d.channel[own].st = "live")
    BY ChannelIs
  <2>4. ch \in 0..MaxChannels /\ (own = 0 => NextRow(d.channel) \in 0..MaxChannels)
    BY <1>3, <2>3, RowsAre, CenterBounds
  <2>5. old \in ChannelRow /\ old.st = "live" /\ old.config = i
    <3>1. ASSUME own # 0 PROVE d.channel[own] \in ChannelRow
      BY <1>3, <2>3, <3>1 DEF ChannelTable
    <3>2. i \in 0..MaxConfigs  BY CenterBounds
    <3> QED  BY <2>3, <3>1, <3>2, NewChannelRow
  <2> HIDE DEF old
  <2>6. row = [st |-> "live", model |-> m.id, provider |-> p.id, config |-> i,
               runtime |-> c.runtime, on |-> c.on]
    <3>1. /\ m.id \in 0..MaxModels /\ p.id \in 0..MaxProviders /\ c.runtime \in Runtimes \cup {0}
          /\ c.on \in BOOLEAN
      BY <1>2, <1>8, <2>1, <2>2, CenterBounds DEF ConfigRow
    <3>2. row = Filled(old, m.id, p.id, c.runtime, c.on)  BY DEF Filled
    <3> HIDE DEF c, own, row
    <3> QED  BY <2>5, <3>1, <3>2, RowFilled
  <2>18. row \in ChannelRow /\ row.st # "unmade"
    <3>1. m.id \in 0..MaxModels /\ p.id \in 0..MaxProviders /\ c.runtime \in Runtimes \cup {0} /\ i \in 0..MaxConfigs
      BY <1>2, <1>8, <2>1, <2>2, CenterBounds
    <3>2. c.on \in BOOLEAN  BY <1>2 DEF ConfigRow
    <3> HIDE DEF row, c
    <3> QED  BY <2>6, <3>1, <3>2 DEF ChannelRow, States
  <2> HIDE DEF own, row, c, ch
  <2> DEFINE x == [d.channel EXCEPT ![ch] = row]
             b == m.db
  <2>7. x \in ChannelTable  BY <1>3, <2>18 DEF ChannelTable
  <2>8. e = [m.db EXCEPT !.channel = x]
    <3>1. e = [m.db EXCEPT !.channel[ch] = row]  BY <1>1, <1>8
    <3>2. [m.db EXCEPT !.channel[ch] = row] = [m.db EXCEPT !.channel = [m.db.channel EXCEPT ![ch] = row]]
      OBVIOUS
    <3>3. m.db.channel = d.channel  BY <2>1, <2>2
    <3> QED  BY <3>1, <3>2, <3>3
  <2>9. Rows(x, "unmade") \subseteq Rows(d.channel, "unmade")  BY <1>3, <2>18, MadeRows, CenterBounds
  <2> HIDE DEF x
  <2>10. /\ e \in Tables /\ e.channel = x /\ e.config = m.db.config /\ e.model = m.db.model
         /\ e.provider = m.db.provider /\ e.policy = m.db.policy /\ e.entry = m.db.entry
         /\ e.settings = m.db.settings
    BY <2>2, <2>7, <2>8, SetChannel
  <2>11. e.config = d.config /\ e.policy = d.policy /\ e.settings = d.settings /\ e.entry = d.entry
         /\ e.provider = p.db.provider
    BY <2>1, <2>2, <2>10
  <2>12. Grows(d, e)
    <3>1. Grows(d, m.db)  BY <2>1, <2>2, GrowsOn
    <3> QED  BY <2>9, <2>10, <3>1 DEF Grows
  <2>13. \A k \in LiveOnes(d.model) : k \in LiveOnes(e.model) /\ Converted(d, e, k, c.runtime)
    <3>1. p.db.model = d.model /\ p.db.channel = d.channel /\ m.db.model = e.model  BY <2>1, <2>10
    <3> QED  BY <2>2, <3>1 DEF Converted
  <2>14. NextRow(d.model) # 0 => m.id \in LiveOnes(e.model) /\ e.model[m.id].type = TypeOf[c.runtime]
    BY <2>1, <2>2, <2>10
  <2>15. \/ live # {} /\ e.provider = d.provider /\ p.id = Lowest(live) /\ p.id \in live
         \/ /\ live = {} /\ gone = {} /\ p.id = new /\ p.id # 0
            /\ e.provider = [d.provider EXCEPT ![p.id] = [st |-> "live", key |-> c.key, on |-> TRUE]]
    BY <1>8, <2>1, <2>11
  <2>16. Placed(d, e, i, ch, p.id, m.id)
    <3>1. e.channel = [d.channel EXCEPT ![ch] =
              [st |-> "live", model |-> m.id, provider |-> p.id, config |-> i,
               runtime |-> c.runtime, on |-> c.on]]
      BY <2>6, <2>10 DEF x
    <3> QED  BY <1>8, <2>11, <2>13, <2>14, <2>15, <3>1 DEF Placed, own, c, ch
  <2>17. p.id \in 1..MaxProviders /\ m.id \in 0..MaxModels  BY <2>1, <2>2
  <2> QED  BY <2>4, <2>10, <2>11, <2>12, <2>16, <2>17 DEF e
<1> QED  BY <1>5, <1>6, <1>7, <1>8

-----------------------------------------------------------------------------
(***************************************************************************)
(* A configuration keeps one channel, and no channel loses its provider.   *)
(***************************************************************************)

OneEach(d) ==
    /\ \A a, b \in 1..MaxChannels :
          d.channel[a].config # 0 /\ d.channel[a].config = d.channel[b].config => a = b
    /\ \A a \in 1..MaxChannels : d.channel[a].st = "unmade" => d.channel[a].config = 0

\* Live channels whose provider is not.
Orphans(d) == {ch \in LiveOnes(d.channel) : d.channel[ch].provider \notin LiveOnes(d.provider)}

\* A channel that was made stays, with its configuration.
Keeps(d, e) ==
    \A ch \in 1..MaxChannels : d.channel[ch].st # "unmade" =>
        /\ e.channel[ch].st # "unmade" /\ e.channel[ch].config = d.channel[ch].config

\* What two steps keep, both together keep.
LEMMA KeepsOn ==
    ASSUME NEW d, NEW e, NEW f, Keeps(d, e), Keeps(e, f)
    PROVE  Keeps(d, f)
BY DEF Keeps

\* A live channel is a row that says so.
LEMMA LiveChannels ==
    ASSUME NEW d \in Tables, NEW ch
    PROVE  ch \in LiveOnes(d.channel) <=> ch \in 1..MaxChannels /\ d.channel[ch].st = "live"
BY TableFields DEF LiveOnes, Rows, ChannelTable

\* A live provider is a row that says so.
LEMMA LiveProviders ==
    ASSUME NEW d \in Tables, NEW p
    PROVE  p \in LiveOnes(d.provider) <=> p \in 1..MaxProviders /\ d.provider[p].st = "live"
BY TableFields DEF LiveOnes, Rows, ProviderTable

\* A live configuration is a row that says so.
LEMMA LiveConfigs ==
    ASSUME NEW d \in Tables, NEW i
    PROVE  i \in LiveOnes(d.config) <=> i \in 1..MaxConfigs /\ d.config[i].st = "live"
BY TableFields DEF LiveOnes, Rows, ConfigTable

\* The rows a placed channel leaves and writes.
LEMMA PlacedRows ==
    ASSUME NEW d \in Tables, NEW e \in Tables, NEW i \in 1..MaxConfigs, NEW ch \in 0..MaxChannels,
           NEW p \in 1..MaxProviders, NEW m \in 0..MaxModels, Placed(d, e, i, ch, p, m)
    PROVE  /\ \A k \in 1..MaxChannels : k # ch => e.channel[k] = d.channel[k]
           /\ ch \in 1..MaxChannels =>
                 /\ e.channel[ch].st = "live" /\ e.channel[ch].model = m /\ e.channel[ch].provider = p
                 /\ e.channel[ch].config = i /\ e.channel[ch].runtime = d.config[i].runtime
                 /\ e.channel[ch].on = d.config[i].on
                 /\ \/ d.channel[ch].config = i /\ d.channel[ch].st = "live"
                    \/ /\ d.channel[ch].st = "unmade"
                       /\ \A k \in 1..MaxChannels : d.channel[k].st # "unmade" => d.channel[k].config # i
           /\ \A k \in LiveOnes(d.provider) : k \in LiveOnes(e.provider) /\ e.provider[k] = d.provider[k]
           /\ p \in LiveOnes(e.provider)
<1> DEFINE own == ChannelOf(d, i)
           c   == d.config[i]
           old == WithKey(d, "live", c.key)
           row == [st |-> "live", model |-> m, provider |-> p, config |-> i, runtime |-> c.runtime, on |-> c.on]
<1>1. d.channel \in ChannelTable /\ DOMAIN d.channel = 1..MaxChannels
      /\ d.provider \in ProviderTable /\ DOMAIN d.provider = 1..MaxProviders
      /\ e.provider \in ProviderTable /\ DOMAIN e.provider = 1..MaxProviders
  BY TableFields DEF ChannelTable, ProviderTable
<1>2. e.channel = [d.channel EXCEPT ![ch] = row]  BY DEF Placed
<1>3. /\ row.st = "live" /\ row.model = m /\ row.provider = p /\ row.config = i
      /\ row.runtime = c.runtime /\ row.on = c.on
  OBVIOUS
<1> HIDE DEF row
<1>4. \A k \in 1..MaxChannels : k # ch => e.channel[k] = d.channel[k]  BY <1>1, <1>2
<1>5. ch \in 1..MaxChannels => e.channel[ch] = row  BY <1>1, <1>2
<1>6. ASSUME ch \in 1..MaxChannels
      PROVE  \/ d.channel[ch].config = i /\ d.channel[ch].st = "live"
             \/ /\ d.channel[ch].st = "unmade"
                /\ \A k \in 1..MaxChannels : d.channel[k].st # "unmade" => d.channel[k].config # i
  <2>1. CASE own # 0
    <3>1. ch = own  BY <2>1 DEF Placed
    <3> QED  BY <2>1, <3>1, ChannelIs
  <2>2. CASE own = 0
    <3>1. ch = NextRow(d.channel) /\ Dropped(d, i) = {}  BY <2>2 DEF Placed
    <3>2. ch \in Rows(d.channel, "unmade")
      <4>1. ch # 0  BY <1>6
      <4> QED  BY <1>1, <3>1, <4>1, RowsAre, CenterBounds
    <3>3. d.channel[ch].st = "unmade"  BY <3>2 DEF Rows
    <3>4. \A k \in 1..MaxChannels : d.channel[k].st = "live" => d.channel[k].config # i
      BY <2>2, ChannelIs, LiveChannels
    <3>5. \A k \in 1..MaxChannels : d.channel[k].st = "deleted" => d.channel[k].config # i
      BY <1>1, <3>1 DEF Dropped, Rows
    <3>6. \A k \in 1..MaxChannels : d.channel[k].st \in States  BY <1>1 DEF ChannelTable, ChannelRow
    <3> QED  BY <3>3, <3>4, <3>5, <3>6 DEF States
  <2> QED  BY <2>1, <2>2
<1>7. /\ \A k \in LiveOnes(d.provider) : k \in LiveOnes(e.provider) /\ e.provider[k] = d.provider[k]
      /\ p \in LiveOnes(e.provider)
  <2>1. CASE old # {} /\ e.provider = d.provider /\ p \in old
    <3>1. p \in LiveOnes(d.provider)  BY <2>1 DEF WithKey, LiveOnes
    <3> QED  BY <2>1, <3>1
  <2>2. CASE /\ p = NextRow(d.provider) /\ p # 0
             /\ e.provider = [d.provider EXCEPT ![p] = [st |-> "live", key |-> c.key, on |-> TRUE]]
    <3>1. p \in Rows(d.provider, "unmade")  BY <1>1, <2>2, RowsAre, CenterBounds
    <3>2. d.provider[p].st = "unmade"  BY <3>1 DEF Rows
    <3>3. e.provider[p].st = "live"
      <4> DEFINE r == [st |-> "live", key |-> c.key, on |-> TRUE]
      <4>1. r.st = "live"  OBVIOUS
      <4> HIDE DEF r
      <4>2. e.provider = [d.provider EXCEPT ![p] = r]  BY <2>2 DEF r
      <4> QED  BY <1>1, <4>1, <4>2
    <3>4. \A k \in 1..MaxProviders : k # p => e.provider[k] = d.provider[k]  BY <1>1, <2>2
    <3> QED  BY <3>2, <3>3, <3>4, LiveProviders
  <2> QED  BY <2>1, <2>2 DEF Placed
<1> QED  BY <1>3, <1>4, <1>5, <1>6, <1>7

\* The step of one configuration makes no second channel and takes no provider away.
LEMMA SyncKeeps ==
    ASSUME NEW d \in Tables, NEW i \in 1..MaxConfigs, MadeConfigs(d), OneEach(d)
    PROVE  LET e == SyncConfig(d, i)
           IN  OneEach(e) /\ Keeps(d, e) /\ Orphans(e) \subseteq Orphans(d)
<1> DEFINE e == SyncConfig(d, i)
<1>1. e \in Tables
      /\ \/ Skipped(d, e, i) \/ Buried(d, e, i) \/ Unserved(d, e, i)
         \/ \E ch \in 0..MaxChannels, p \in 1..MaxProviders, m \in 0..MaxModels :
               Placed(d, e, i, ch, p, m)
  BY SyncIs
<1> HIDE DEF e
<1>2. CASE Skipped(d, e, i) \/ Buried(d, e, i)
  <2>1. e.channel = d.channel /\ e.provider = d.provider  BY <1>2 DEF Skipped, Buried
  <2> QED  BY <2>1 DEF OneEach, Keeps, Orphans, e
<1>3. CASE Unserved(d, e, i)
  <2>1. PICK S : e.channel = Deleted(d.channel, S)  BY <1>3 DEF Unserved
  <2>2. e.provider = d.provider  BY <1>3 DEF Unserved
  <2>3. \A ch \in 1..MaxChannels :
           /\ e.channel[ch].st = IF ch \in S THEN "deleted" ELSE d.channel[ch].st
           /\ e.channel[ch].config = d.channel[ch].config
           /\ e.channel[ch].provider = d.channel[ch].provider
    BY <2>1, DeletedRows, TableFields
  <2>4. OneEach(e)  BY <2>3 DEF OneEach
  <2>5. Keeps(d, e)  BY <2>3 DEF Keeps
  <2>6. Orphans(e) \subseteq Orphans(d)
    BY <1>1, <2>2, <2>3, LiveChannels DEF Orphans
  <2> QED  BY <2>4, <2>5, <2>6 DEF e
<1>4. ASSUME NEW ch \in 0..MaxChannels, NEW p \in 1..MaxProviders, NEW m \in 0..MaxModels,
             Placed(d, e, i, ch, p, m)
      PROVE  OneEach(e) /\ Keeps(d, e) /\ Orphans(e) \subseteq Orphans(d)
  <2>1. /\ \A k \in 1..MaxChannels : k # ch => e.channel[k] = d.channel[k]
        /\ ch \in 1..MaxChannels =>
              /\ e.channel[ch].st = "live" /\ e.channel[ch].provider = p
              /\ e.channel[ch].config = i
              /\ \/ d.channel[ch].config = i /\ d.channel[ch].st = "live"
                 \/ /\ d.channel[ch].st = "unmade"
                    /\ \A k \in 1..MaxChannels : d.channel[k].st # "unmade" => d.channel[k].config # i
        /\ \A k \in LiveOnes(d.provider) : k \in LiveOnes(e.provider)
        /\ p \in LiveOnes(e.provider)
    BY <1>1, <1>4, PlacedRows
  <2>2. i # 0  OBVIOUS
  <2>3. \A k \in 1..MaxChannels : k # ch /\ ch \in 1..MaxChannels => d.channel[k].config # i
    BY <2>1, <2>2 DEF OneEach
  <2>4. OneEach(e)  BY <2>1, <2>2, <2>3 DEF OneEach
  <2>5. Keeps(d, e)  BY <2>1, <2>2 DEF Keeps
  <2>6. Orphans(e) \subseteq Orphans(d)
    BY <1>1, <2>1, LiveChannels DEF Orphans
  <2> QED  BY <2>4, <2>5, <2>6
<1> QED  BY <1>1, <1>2, <1>3, <1>4 DEF e

-----------------------------------------------------------------------------
(***************************************************************************)
(* What a synchronisation settles.                                         *)
(***************************************************************************)

\* A configuration has its channel, or a deleted one, or its provider was deleted.
HasChannel(d, i, ch) ==
    LET c == d.config[i]
        x == d.channel[ch]
    IN  /\ x.st = "live" /\ x.config = i /\ x.runtime = c.runtime /\ x.on = c.on
        /\ WithKey(d, "live", c.key) # {} /\ x.provider = Lowest(WithKey(d, "live", c.key))
        /\ x.model \in LiveOnes(d.model) /\ d.model[x.model].type = TypeOf[c.runtime]

LostChannel(d, i, ch) ==
    /\ d.channel[ch].st = "deleted" /\ d.channel[ch].config = i
    /\ \A t \in Types : d.entry[t][ch] = NoEntry

NoService(d, i) ==
    /\ \A ch \in 1..MaxChannels : d.channel[ch].config # i
    /\ WithKey(d, "live", d.config[i].key) = {} /\ WithKey(d, "deleted", d.config[i].key) # {}

ConfigSettled(d, i) ==
    \/ \E ch \in 1..MaxChannels : HasChannel(d, i, ch)
    \/ \E ch \in 1..MaxChannels : LostChannel(d, i, ch)
    \/ NoService(d, i)

Room(d) == NextRow(d.provider) # 0 /\ NextRow(d.model) # 0 /\ NextRow(d.channel) # 0

\* A live model is a row that says so.
LEMMA LiveModels ==
    ASSUME NEW d \in Tables, NEW m
    PROVE  m \in LiveOnes(d.model) <=> m \in 1..MaxModels /\ d.model[m].st = "live"
BY TableFields DEF LiveOnes, Rows, ModelTable

\* The providers of a key are the rows with it.
LEMMA KeyRows ==
    ASSUME NEW d \in Tables, NEW st, NEW key
    PROVE  \A p : p \in WithKey(d, st, key)
                  <=> p \in 1..MaxProviders /\ d.provider[p].st = st /\ d.provider[p].key = key
BY TableFields DEF WithKey, Rows, ProviderTable

\* A new provider is the only one with its key, and touches no other key.
LEMMA KeysPlaced ==
    ASSUME NEW d \in Tables, NEW e \in Tables, NEW i \in 1..MaxConfigs, NEW ch \in 0..MaxChannels,
           NEW p \in 1..MaxProviders, NEW m \in 0..MaxModels, Placed(d, e, i, ch, p, m)
    PROVE  /\ WithKey(e, "live", d.config[i].key) # {}
           /\ p = Lowest(WithKey(e, "live", d.config[i].key))
           /\ \A key : WithKey(d, "live", key) # {} \/ WithKey(d, "deleted", key) # {} =>
                 WithKey(e, "live", key) = WithKey(d, "live", key)
           /\ \A key : WithKey(e, "deleted", key) = WithKey(d, "deleted", key)
<1> DEFINE c   == d.config[i]
           old == WithKey(d, "live", c.key)
           row == [st |-> "live", key |-> c.key, on |-> TRUE]
<1>1. CASE old # {} /\ e.provider = d.provider /\ p = Lowest(old)
  <2>1. \A st, key : WithKey(e, st, key) = WithKey(d, st, key)  BY <1>1 DEF WithKey
  <2> QED  BY <1>1, <2>1
<1>2. CASE /\ old = {} /\ WithKey(d, "deleted", c.key) = {} /\ p = NextRow(d.provider) /\ p # 0
           /\ e.provider = [d.provider EXCEPT ![p] = row]
  <2>1. DOMAIN d.provider = 1..MaxProviders  BY TableFields DEF ProviderTable
  <2>2. p \in Rows(d.provider, "unmade")  BY <1>2, <2>1, RowsAre, CenterBounds
  <2>3. d.provider[p].st = "unmade"  BY <2>2 DEF Rows
  <2>4. row.st = "live" /\ row.key = c.key  OBVIOUS
  <2> HIDE DEF row
  <2>5. e.provider[p] = row /\ \A k \in 1..MaxProviders : k # p => e.provider[k] = d.provider[k]
    BY <1>2, <2>1
  <2>6. ASSUME NEW key, NEW q
        PROVE  /\ key # c.key => (q \in WithKey(e, "live", key) <=> q \in WithKey(d, "live", key))
               /\ q \in WithKey(e, "live", c.key) <=> q = p
               /\ q \in WithKey(e, "deleted", key) <=> q \in WithKey(d, "deleted", key)
    <3>1. q \in WithKey(e, "live", c.key) /\ q # p => q \in old  BY <2>5, KeyRows
    <3>2. p \in WithKey(e, "live", c.key)  BY <2>4, <2>5, KeyRows
    <3>3. q \in WithKey(e, "live", c.key) <=> q = p  BY <1>2, <3>1, <3>2
    <3>4. q # p => (q \in WithKey(e, "live", key) <=> q \in WithKey(d, "live", key))
                   /\ (q \in WithKey(e, "deleted", key) <=> q \in WithKey(d, "deleted", key))
      BY <2>5, KeyRows
    <3>5. p \notin WithKey(d, "live", key) /\ p \notin WithKey(d, "deleted", key)  BY <2>3, KeyRows
    <3>6. (key # c.key => p \notin WithKey(e, "live", key)) /\ p \notin WithKey(e, "deleted", key)
      BY <2>4, <2>5, KeyRows
    <3> QED  BY <3>3, <3>4, <3>5, <3>6
  <2>7. WithKey(e, "live", c.key) = {p}  BY <2>6
  <2>8. Lowest({p}) = p
    <3>1. {p} \in SUBSET Nat  OBVIOUS
    <3> QED  BY <3>1, LowestIn
  <2>9. ASSUME NEW key, WithKey(d, "live", key) # {} \/ WithKey(d, "deleted", key) # {}
        PROVE  WithKey(e, "live", key) = WithKey(d, "live", key)
    <3>1. key # c.key  BY <1>2, <2>9
    <3> QED  BY <2>6, <3>1
  <2>10. \A key : WithKey(e, "deleted", key) = WithKey(d, "deleted", key)  BY <2>6
  <2> QED  BY <2>7, <2>8, <2>9, <2>10
<1> QED  BY <1>1, <1>2 DEF Placed

\* A configuration is settled by its own step.
LEMMA SyncSettlesOne ==
    ASSUME NEW d \in Tables, NEW i \in 1..MaxConfigs, MadeConfigs(d), OneEach(d), Room(d),
           i \in LiveOnes(d.config)
    PROVE  ConfigSettled(SyncConfig(d, i), i)
<1> DEFINE e == SyncConfig(d, i)
           c == d.config[i]
<1>1. e \in Tables /\ e.config = d.config
      /\ \/ Skipped(d, e, i) \/ Buried(d, e, i) \/ Unserved(d, e, i)
         \/ \E ch \in 0..MaxChannels, p \in 1..MaxProviders, m \in 0..MaxModels :
               Placed(d, e, i, ch, p, m)
  BY SyncIs
<1>2. \A ch : ch \in Dropped(d, i) <=>
                ch \in 1..MaxChannels /\ d.channel[ch].st = "deleted" /\ d.channel[ch].config = i
  BY TableFields DEF Dropped, Rows, ChannelTable
<1> HIDE DEF e
<1>3. CASE Buried(d, e, i)
  <2>1. PICK ch : ch \in Dropped(d, i)  BY <1>3 DEF Buried
  <2>2. ch \in 1..MaxChannels /\ e.channel[ch].st = "deleted" /\ e.channel[ch].config = i
    BY <1>2, <1>3, <2>1 DEF Buried
  <2>3. \A t \in Types : e.entry[t][ch] = NoEntry  BY <1>3, <2>1, <2>2 DEF Buried
  <2>4. LostChannel(e, i, ch)  BY <2>2, <2>3 DEF LostChannel
  <2> QED  BY <2>2, <2>4 DEF ConfigSettled, e
<1>4. CASE Unserved(d, e, i)
  <2> DEFINE own == ChannelOf(d, i)
             S   == {own} \ {0}
  <2>1. /\ e.channel = Deleted(d.channel, S) /\ e.provider = d.provider
        /\ e.entry = [t \in Types |-> [ch \in 1..MaxChannels |->
                         IF ch \in S THEN NoEntry ELSE d.entry[t][ch]]]
        /\ (own = 0 => Dropped(d, i) = {})
    BY <1>4 DEF Unserved
  <2>2. WithKey(e, "live", c.key) = {} /\ WithKey(e, "deleted", c.key) # {}
    <3>1. \A st, key : WithKey(e, st, key) = WithKey(d, st, key)  BY <2>1 DEF WithKey
    <3> QED  BY <1>4, <3>1 DEF Unserved, Room
  <2>3. CASE own = 0
    <3>1. S = {}  BY <2>3
    <3>2. \A ch \in 1..MaxChannels : e.channel[ch].config = d.channel[ch].config
      BY <2>1, DeletedRows, TableFields
    <3>3. \A ch \in 1..MaxChannels : d.channel[ch].st = "live" => d.channel[ch].config # i
      BY <2>3, ChannelIs, LiveChannels
    <3>4. \A ch \in 1..MaxChannels : d.channel[ch].st = "deleted" => d.channel[ch].config # i
      BY <1>2, <2>1, <2>3
    <3>5. \A ch \in 1..MaxChannels : d.channel[ch].st = "unmade" => d.channel[ch].config # i
      <4>1. i # 0  OBVIOUS
      <4> QED  BY <4>1 DEF OneEach
    <3>6. \A ch \in 1..MaxChannels : d.channel[ch].st \in States
      BY TableFields DEF ChannelTable, ChannelRow
    <3>7. NoService(e, i)  BY <1>1, <2>2, <3>2, <3>3, <3>4, <3>5, <3>6 DEF NoService, States
    <3> QED  BY <3>7 DEF ConfigSettled, e
  <2>4. CASE own # 0
    <3>1. own \in S /\ own \in 1..MaxChannels /\ d.channel[own].config = i  BY <2>4, ChannelIs
    <3> HIDE DEF S, own
    <3>2. e.channel[own].st = "deleted" /\ e.channel[own].config = i
      BY <2>1, <3>1, DeletedRows, TableFields
    <3>3. \A t \in Types : e.entry[t][own] = NoEntry  BY <2>1, <3>1
    <3>4. LostChannel(e, i, own)  BY <3>2, <3>3 DEF LostChannel
    <3> QED  BY <3>1, <3>4 DEF ConfigSettled, e
  <2> QED  BY <2>3, <2>4
<1>5. ASSUME NEW ch \in 0..MaxChannels, NEW p \in 1..MaxProviders, NEW m \in 0..MaxModels,
             Placed(d, e, i, ch, p, m)
      PROVE  ConfigSettled(e, i)
  <2>1. ch \in 1..MaxChannels
    <3>1. ch # 0  BY <1>5 DEF Placed, Room
    <3> QED  BY <3>1
  <2>2. /\ e.channel[ch].st = "live" /\ e.channel[ch].model = m /\ e.channel[ch].provider = p
        /\ e.channel[ch].config = i /\ e.channel[ch].runtime = c.runtime
        /\ e.channel[ch].on = c.on
    BY <1>1, <1>5, <2>1, PlacedRows
  <2>3. WithKey(e, "live", c.key) # {} /\ p = Lowest(WithKey(e, "live", c.key))
    BY <1>1, <1>5, KeysPlaced
  <2>4. m \in LiveOnes(e.model) /\ e.model[m].type = TypeOf[c.runtime]  BY <1>5 DEF Placed, Room
  <2>5. HasChannel(e, i, ch)  BY <1>1, <2>2, <2>3, <2>4 DEF HasChannel
  <2> QED  BY <2>1, <2>5 DEF ConfigSettled
<1>6. ~Skipped(d, e, i)  BY DEF Skipped
<1> QED  BY <1>1, <1>3, <1>4, <1>5, <1>6 DEF e

\* The step of one configuration leaves the others settled.
LEMMA SyncLeavesSettled ==
    ASSUME NEW d \in Tables, NEW i \in 1..MaxConfigs, MadeConfigs(d), OneEach(d), Room(d),
           NEW j \in 1..MaxConfigs, j # i, ConfigSettled(d, j)
    PROVE  ConfigSettled(SyncConfig(d, i), j)
<1> DEFINE e == SyncConfig(d, i)
           c == d.config[j]
<1>1. e \in Tables /\ e.config = d.config
      /\ \/ Skipped(d, e, i) \/ Buried(d, e, i) \/ Unserved(d, e, i)
         \/ \E ch \in 0..MaxChannels, p \in 1..MaxProviders, m \in 0..MaxModels :
               Placed(d, e, i, ch, p, m)
  BY SyncIs
<1> HIDE DEF e
<1>2. CASE Skipped(d, e, i)  BY <1>2 DEF Skipped, e
<1>3. CASE Buried(d, e, i)
  <2>1. /\ e.model = d.model /\ e.provider = d.provider /\ e.channel = d.channel
        /\ \A t \in Types, ch \in 1..MaxChannels : d.entry[t][ch] = NoEntry => e.entry[t][ch] = NoEntry
    BY <1>3 DEF Buried
  <2>2. \A st, key : WithKey(e, st, key) = WithKey(d, st, key)  BY <2>1 DEF WithKey
  <2>3. \A ch \in 1..MaxChannels : HasChannel(d, j, ch) => HasChannel(e, j, ch)
    BY <1>1, <2>1, <2>2 DEF HasChannel
  <2>4. \A ch \in 1..MaxChannels : LostChannel(d, j, ch) => LostChannel(e, j, ch)
    BY <2>1 DEF LostChannel
  <2>5. NoService(d, j) => NoService(e, j)  BY <1>1, <2>1, <2>2 DEF NoService
  <2> QED  BY <2>3, <2>4, <2>5 DEF ConfigSettled, e
<1>4. CASE Unserved(d, e, i)
  <2>1. PICK S : /\ S = {ChannelOf(d, i)} \ {0} /\ e.channel = Deleted(d.channel, S)
                 /\ e.provider = d.provider /\ e.model = d.model
                 /\ \A t \in Types, ch \in 1..MaxChannels :
                       d.entry[t][ch] = NoEntry => e.entry[t][ch] = NoEntry
    BY <1>4 DEF Unserved
  <2>2. \A st, key : WithKey(e, st, key) = WithKey(d, st, key)  BY <2>1 DEF WithKey
  <2>3. \A ch \in S : d.channel[ch].config = i /\ d.channel[ch].st = "live"  BY <2>1, ChannelIs
  <2>4. \A ch \in 1..MaxChannels :
           /\ e.channel[ch].config = d.channel[ch].config
           /\ d.channel[ch].config = j => e.channel[ch] = d.channel[ch]
    BY <2>1, <2>3, DeletedRows, TableFields
  <2>5. ASSUME NEW ch \in 1..MaxChannels, HasChannel(d, j, ch) PROVE HasChannel(e, j, ch)
    <3>1. e.channel[ch] = d.channel[ch]  BY <2>4, <2>5 DEF HasChannel
    <3>2. WithKey(e, "live", c.key) = WithKey(d, "live", c.key)  BY <2>2
    <3> QED  BY <1>1, <2>1, <2>5, <3>1, <3>2 DEF HasChannel
  <2>6. \A ch \in 1..MaxChannels : LostChannel(d, j, ch) => LostChannel(e, j, ch)
    BY <2>1, <2>4 DEF LostChannel
  <2>7. NoService(d, j) => NoService(e, j)  BY <1>1, <2>2, <2>4 DEF NoService
  <2> QED  BY <2>5, <2>6, <2>7 DEF ConfigSettled, e
<1>5. ASSUME NEW ch \in 0..MaxChannels, NEW p \in 1..MaxProviders, NEW m \in 0..MaxModels,
             Placed(d, e, i, ch, p, m)
      PROVE  ConfigSettled(e, j)
  <2>1. /\ \A k \in 1..MaxChannels : k # ch => e.channel[k] = d.channel[k]
        /\ ch \in 1..MaxChannels => e.channel[ch].config = i
        /\ ch \in 1..MaxChannels => d.channel[ch].config = i \/ d.channel[ch].st = "unmade"
    BY <1>1, <1>5, PlacedRows
  <2>2. /\ \A key : WithKey(d, "live", key) # {} \/ WithKey(d, "deleted", key) # {} =>
              WithKey(e, "live", key) = WithKey(d, "live", key)
        /\ \A key : WithKey(e, "deleted", key) = WithKey(d, "deleted", key)
    BY <1>1, <1>5, KeysPlaced
  <2>3. e.entry = d.entry
        /\ \A k \in LiveOnes(d.model) : k \in LiveOnes(e.model) /\ Converted(d, e, k, d.config[i].runtime)
    BY <1>5 DEF Placed
  <2>4. ASSUME NEW k \in 1..MaxChannels, HasChannel(d, j, k) PROVE HasChannel(e, j, k)
    <3>1. k # ch  BY <2>1, <2>4 DEF HasChannel
    <3>2. e.channel[k] = d.channel[k]  BY <2>1, <3>1
    <3>3. WithKey(e, "live", c.key) = WithKey(d, "live", c.key)  BY <2>2, <2>4 DEF HasChannel
    <3>4. e.model[d.channel[k].model].type = TypeOf[c.runtime]
      <4>1. d.channel[k].model \in LiveOnes(d.model) /\ k \in LiveOnes(d.channel)
            /\ d.model[d.channel[k].model].type = TypeOf[c.runtime] /\ d.channel[k].runtime = c.runtime
        BY <2>4, LiveChannels DEF HasChannel
      <4> QED  BY <2>3, <4>1 DEF Converted
    <3> QED  BY <1>1, <2>3, <2>4, <3>2, <3>3, <3>4 DEF HasChannel
  <2>5. ASSUME NEW k \in 1..MaxChannels, LostChannel(d, j, k) PROVE LostChannel(e, j, k)
    <3>1. k # ch  BY <2>1, <2>5 DEF LostChannel
    <3> QED  BY <2>1, <2>3, <2>5, <3>1 DEF LostChannel
  <2>6. ASSUME NoService(d, j) PROVE NoService(e, j)
    <3>1. \A k \in 1..MaxChannels : e.channel[k].config # j  BY <2>1, <2>6 DEF NoService
    <3> QED  BY <1>1, <2>2, <2>6, <3>1 DEF NoService
  <2> QED  BY <2>4, <2>5, <2>6 DEF ConfigSettled
<1> QED  BY <1>1, <1>2, <1>3, <1>4, <1>5 DEF e

-----------------------------------------------------------------------------
(***************************************************************************)
(* The configurations one after the other.                                 *)
(***************************************************************************)

SoundTables == {d \in Tables : MadeConfigs(d)}

\* The function over the configurations is defined, typed and goes step by step.
LEMMA SyncConfigsSteps ==
    ASSUME NEW d \in SoundTables
    PROVE  LET s == SyncConfigs(d)
           IN  /\ s[0] = d /\ \A n \in 0..MaxConfigs : s[n] \in SoundTables
               /\ \A n \in 1..MaxConfigs : s[n] = SyncConfig(s[n - 1], n)
<1> DEFINE op == [n \in 1..MaxConfigs |-> [x \in SoundTables |-> SyncConfig(x, n)]]
           Is(f) == f = [n \in 0..MaxConfigs |-> IF n = 0 THEN d ELSE SyncConfig(f[n - 1], n)]
           s == SyncConfigs(d)
<1>1. ASSUME NEW x \in SoundTables, NEW n \in 1..MaxConfigs PROVE SyncConfig(x, n) \in SoundTables
  BY <1>1, SyncIs DEF SoundTables, MadeConfigs
<1>2. op \in [1..MaxConfigs -> [SoundTables -> SoundTables]]  BY <1>1
<1>3. \E f : Is(f)
  <2>0. PICK f : Stepped(MaxConfigs, SoundTables, d, op, f)
    <3> HIDE DEF op
    <3> QED  BY <1>2, CenterBounds, StepByStep
  <2>1. /\ f \in [0..MaxConfigs -> SoundTables]
        /\ f = [n \in 0..MaxConfigs |-> IF n = 0 THEN d ELSE op[n][f[n - 1]]]
    BY <2>0 DEF Stepped
  <2>2. ASSUME NEW n \in 0..MaxConfigs, n # 0 PROVE op[n][f[n - 1]] = SyncConfig(f[n - 1], n)
    <3>1. n \in 1..MaxConfigs /\ n - 1 \in 0..MaxConfigs  BY <2>2, CenterBounds
    <3>2. f[n - 1] \in SoundTables  BY <2>1, <3>1
    <3> QED  BY <3>1, <3>2
  <2> HIDE DEF op
  <2>3. f = [n \in 0..MaxConfigs |-> IF n = 0 THEN d ELSE SyncConfig(f[n - 1], n)]  BY <2>1, <2>2
  <2> QED  BY <2>3
<1>4. s = CHOOSE f : Is(f)  BY DEF SyncConfigs
<1> HIDE DEF s
<1>5. Is(s)
  <2> HIDE DEF Is
  <2> QED  BY <1>3, <1>4
<1>6. s[0] = d  BY <1>5, CenterBounds
<1>7. ASSUME NEW n \in 1..MaxConfigs PROVE s[n] = SyncConfig(s[n - 1], n)
  <2>1. n \in 0..MaxConfigs /\ n # 0  BY CenterBounds
  <2> QED  BY <1>5, <2>1
<1> HIDE DEF Is
<1>8. ASSUME NEW n \in 0..MaxConfigs PROVE s[n] \in SoundTables
  <2> DEFINE P == {k \in 0..MaxConfigs : s[k] \in SoundTables}
  <2>1. 0 \in P  BY <1>6, CenterBounds
  <2>2. ASSUME NEW k \in 0..MaxConfigs, k # 0, k - 1 \in P PROVE k \in P
    <3>1. k \in 1..MaxConfigs /\ s[k - 1] \in SoundTables  BY <2>2, CenterBounds
    <3>2. s[k] = SyncConfig(s[k - 1], k)  BY <1>7, <3>1
    <3>3. s[k] \in SoundTables  BY <1>1, <3>1, <3>2
    <3> QED  BY <3>3
  <2> HIDE DEF P
  <2>3. 0..MaxConfigs \subseteq P  BY <2>1, <2>2, CountsUp, CenterBounds
  <2> QED  BY <2>3 DEF P
<1> QED  BY <1>6, <1>7, <1>8 DEF s

\* What the steps for the configurations keep, and with room what they settle.
LEMMA SyncConfigsKeep ==
    ASSUME NEW d \in SoundTables, OneEach(d)
    PROVE  LET e == SyncConfigs(d)[MaxConfigs]
           IN  /\ e \in SoundTables /\ e.config = d.config /\ e.settings = d.settings /\ e.policy = d.policy
               /\ OneEach(e) /\ Keeps(d, e) /\ Grows(d, e)
               /\ Orphans(e) \subseteq Orphans(d)
               /\ Room(e) => \A i \in LiveOnes(d.config) : ConfigSettled(e, i)
<1> DEFINE s == SyncConfigs(d)
<1>1. /\ s[0] = d /\ \A n \in 0..MaxConfigs : s[n] \in SoundTables
      /\ \A n \in 1..MaxConfigs : s[n] = SyncConfig(s[n - 1], n)
  BY SyncConfigsSteps
<1> HIDE DEF s
<1>2. ASSUME NEW n \in 1..MaxConfigs
      PROVE  /\ n - 1 \in 0..MaxConfigs /\ n \in 0..MaxConfigs
             /\ s[n - 1] \in Tables /\ MadeConfigs(s[n - 1]) /\ s[n] \in Tables
             /\ s[n] = SyncConfig(s[n - 1], n)
  <2>1. n - 1 \in 0..MaxConfigs /\ n \in 0..MaxConfigs  BY CenterBounds
  <2> QED  BY <1>1, <2>1 DEF SoundTables
<1> DEFINE Good(n) ==
             /\ s[n].config = d.config /\ s[n].settings = d.settings /\ s[n].policy = d.policy
             /\ OneEach(s[n]) /\ Keeps(d, s[n]) /\ Grows(d, s[n])
             /\ Orphans(s[n]) \subseteq Orphans(d)
           Settles(n) == Room(s[n]) => \A i \in LiveOnes(d.config) : i <= n => ConfigSettled(s[n], i)
           P == {n \in 0..MaxConfigs : Good(n) /\ Settles(n)}
<1>3. 0 \in P
  <2>1. Good(0)  BY <1>1 DEF Keeps, Grows
  <2>2. Settles(0)
    <3>1. \A i \in LiveOnes(d.config) : ~(i <= 0)  BY LiveConfigs DEF SoundTables
    <3> QED  BY <3>1
  <2> QED  BY <2>1, <2>2, CenterBounds
<1>4. ASSUME NEW n \in 0..MaxConfigs, n # 0, n - 1 \in P PROVE n \in P
  <2>1. n \in 1..MaxConfigs /\ Good(n - 1) /\ Settles(n - 1)  BY <1>4, CenterBounds
  <2> DEFINE b == s[n - 1]
  <2>2. b \in Tables /\ MadeConfigs(b) /\ s[n] \in Tables /\ s[n] = SyncConfig(b, n) /\ OneEach(b)
        /\ b.config = d.config
    BY <1>2, <2>1
  <2> HIDE DEF b
  <2>3. /\ s[n].config = b.config /\ s[n].policy = b.policy /\ s[n].settings = b.settings
        /\ Grows(b, s[n])
    BY <2>1, <2>2, SyncIs
  <2>4. OneEach(s[n]) /\ Keeps(b, s[n]) /\ Orphans(s[n]) \subseteq Orphans(b)
    BY <2>1, <2>2, SyncKeeps
  <2>5. Grows(d, s[n]) /\ Keeps(d, s[n])  BY <2>1, <2>3, <2>4, GrowsOn, KeepsOn DEF b
  <2>6. Good(n)  BY <2>1, <2>3, <2>4, <2>5 DEF b
  <2>7. ASSUME Room(s[n]) PROVE \A i \in LiveOnes(d.config) : i <= n => ConfigSettled(s[n], i)
    <3>1. Room(b)
      <4>1. /\ DOMAIN b.provider = 1..MaxProviders /\ DOMAIN s[n].provider = 1..MaxProviders
            /\ DOMAIN b.model = 1..MaxModels /\ DOMAIN s[n].model = 1..MaxModels
            /\ DOMAIN b.channel = 1..MaxChannels /\ DOMAIN s[n].channel = 1..MaxChannels
        BY <2>2, TableFields DEF ProviderTable, ModelTable, ChannelTable
      <4>2. /\ Rows(s[n].provider, "unmade") # {} /\ Rows(s[n].model, "unmade") # {}
            /\ Rows(s[n].channel, "unmade") # {}
        <5>1. /\ NextRow(s[n].provider) \in Rows(s[n].provider, "unmade")
              /\ NextRow(s[n].model) \in Rows(s[n].model, "unmade")
              /\ NextRow(s[n].channel) \in Rows(s[n].channel, "unmade")
          BY <2>7, <4>1, RowsAre, CenterBounds DEF Room
        <5> QED  BY <5>1
      <4>3. /\ Rows(b.provider, "unmade") # {} /\ Rows(b.model, "unmade") # {}
            /\ Rows(b.channel, "unmade") # {}
        BY <2>3, <4>2 DEF Grows
      <4> QED  BY <4>1, <4>3, RowsAre, CenterBounds DEF Room
    <3>2. ASSUME NEW i \in LiveOnes(d.config), i <= n PROVE ConfigSettled(s[n], i)
      <4>1. i \in 1..MaxConfigs /\ i \in LiveOnes(b.config)  BY <2>2, LiveConfigs DEF SoundTables
      <4>2. CASE i = n  BY <2>1, <2>2, <3>1, <4>1, <4>2, SyncSettlesOne
      <4>3. CASE i # n
        <5>1. i <= n - 1  BY <2>1, <3>2, <4>1, <4>3
        <5>2. ConfigSettled(b, i)  BY <2>1, <3>1, <5>1 DEF b
        <5> QED  BY <2>1, <2>2, <3>1, <4>1, <4>3, <5>2, SyncLeavesSettled
      <4> QED  BY <4>2, <4>3
    <3> QED  BY <3>2
  <2> QED  BY <2>6, <2>7
<1> HIDE DEF P
<1>5. 0..MaxConfigs \subseteq P  BY <1>3, <1>4, CountsUp, CenterBounds
<1>6. MaxConfigs \in P  BY <1>5, CenterBounds
<1>7. Good(MaxConfigs) /\ Settles(MaxConfigs)  BY <1>6 DEF P
<1>8. \A i \in LiveOnes(d.config) : i <= MaxConfigs  BY LiveConfigs, CenterBounds DEF SoundTables
<1>9. s[MaxConfigs] \in SoundTables  BY <1>1, CenterBounds
<1> HIDE DEF Good, Settles
<1>10. /\ s[MaxConfigs] \in SoundTables /\ s[MaxConfigs].config = d.config
       /\ s[MaxConfigs].settings = d.settings /\ s[MaxConfigs].policy = d.policy
       /\ OneEach(s[MaxConfigs]) /\ Keeps(d, s[MaxConfigs]) /\ Grows(d, s[MaxConfigs])
       /\ Orphans(s[MaxConfigs]) \subseteq Orphans(d)
  BY <1>7, <1>9 DEF Good
<1>11. Room(s[MaxConfigs]) => \A i \in LiveOnes(d.config) : ConfigSettled(s[MaxConfigs], i)
  BY <1>7, <1>8 DEF Settles
<1> QED  BY <1>10, <1>11 DEF s

-----------------------------------------------------------------------------
(***************************************************************************)
(* The policies, and the whole synchronisation.                            *)
(***************************************************************************)

\* The model of a configuration is a row, or 0.
LEMMA ModelOfTyped ==
    ASSUME NEW d \in Tables, NEW i
    PROVE  ModelOf(d, i) \in 0..MaxModels
<1> DEFINE S == {ch \in LiveOnes(d.channel) : i # 0 /\ d.channel[ch].config = i}
<1>1. S \subseteq 1..MaxChannels  BY LiveChannels
<1>2. S \in SUBSET Nat  BY <1>1
<1>3. ChannelOf(d, i) = Lowest(S)  BY DEF ChannelOf
<1> HIDE DEF S
<1>4. S # {} => Lowest(S) \in S  BY <1>2, LowestIn
<1>5. S = {} => Lowest(S) = 0  BY <1>2, LowestIn
<1>6. ChannelOf(d, i) = 0 \/ ChannelOf(d, i) \in 1..MaxChannels  BY <1>1, <1>3, <1>4, <1>5
<1>7. \A ch \in 1..MaxChannels : d.channel[ch].model \in 0..MaxModels
  BY TableFields DEF ChannelTable, ChannelRow
<1> QED  BY <1>6, <1>7, CenterBounds DEF ModelOf

\* So are the default and the spare model of a modality.
LEMMA DefaultTyped ==
    ASSUME NEW d \in Tables, NEW t \in Types
    PROVE  DefaultOf(d, t) \in 0..MaxModels /\ SpareOf(d, t) \in 0..MaxModels
<1> DEFINE S == {m \in LiveOnes(d.model) : d.model[m].type = t}
<1>1. S \subseteq 1..MaxModels  BY LiveModels
<1>2. S \in SUBSET Nat  BY <1>1
<1> HIDE DEF S
<1>3. Lowest(S) \in 0..MaxModels
  <2>1. S = {} => Lowest(S) = 0  BY <1>2, LowestIn
  <2>2. S # {} => Lowest(S) \in S  BY <1>2, LowestIn
  <2>3. 0 \in 0..MaxModels  BY CenterBounds
  <2>4. 1..MaxModels \subseteq 0..MaxModels  BY CenterBounds
  <2> QED  BY <1>1, <2>1, <2>2, <2>3, <2>4
<1>4. DefaultOf(d, t) \in 0..MaxModels  BY <1>3, ModelOfTyped DEF DefaultOf, S
<1> QED  BY <1>4, ModelOfTyped DEF SpareOf

\* A policy that already is what a synchronisation makes of it.
PolicySet(d, t) ==
    \/ d.policy[t].source = "center" \/ DefaultOf(d, t) = 0
    \/ /\ d.policy[t] = [source |-> "legacy", def |-> DefaultOf(d, t), fallback |-> SpareOf(d, t),
                         routing |-> d.settings.routing]
       /\ \A ch \in Routed(d, t) :
             d.entry[t][ch] = [model |-> d.channel[ch].model, on |-> d.channel[ch].on]

\* What of the tables the policies are made from.
SameBase(d, e) ==
    /\ e.config = d.config /\ e.model = d.model /\ e.provider = d.provider /\ e.channel = d.channel
    /\ e.settings = d.settings

\* A policy depends on channels, models, configurations and settings alone.
LEMMA SamePolicies ==
    ASSUME NEW d, NEW e, SameBase(d, e), NEW t
    PROVE  DefaultOf(e, t) = DefaultOf(d, t) /\ SpareOf(e, t) = SpareOf(d, t) /\ Routed(e, t) = Routed(d, t)
<1>1. \A i : ChannelOf(e, i) = ChannelOf(d, i)  BY DEF ChannelOf, SameBase
<1>2. \A i : ModelOf(e, i) = ModelOf(d, i)  BY <1>1 DEF ModelOf, SameBase
<1>3. DefaultOf(e, t) = DefaultOf(d, t)  BY <1>2 DEF DefaultOf, SameBase
<1> QED  BY <1>2, <1>3 DEF SpareOf, SameBase, Routed

\* SyncPolicy sets the policy of its modality, and leaves the rest.
LEMMA PolicyIs ==
    ASSUME NEW d \in Tables, NEW t \in Types
    PROVE  LET e == SyncPolicy(d, t)
           IN  /\ e \in Tables /\ SameBase(d, e) /\ PolicySet(e, t)
               /\ \A u \in Types : u # t => e.policy[u] = d.policy[u] /\ e.entry[u] = d.entry[u]
               /\ \A u \in Types, ch \in 1..MaxChannels :
                     d.channel[ch].st # "live" => e.entry[u][ch] = d.entry[u][ch]
               /\ PolicySet(d, t) => e = d
<1> DEFINE e    == SyncPolicy(d, t)
           pol  == [source |-> "legacy", def |-> DefaultOf(d, t), fallback |-> SpareOf(d, t),
                    routing |-> d.settings.routing]
           line == [ch \in 1..MaxChannels |->
                IF ch \in Routed(d, t) THEN [model |-> d.channel[ch].model, on |-> d.channel[ch].on]
                ELSE d.entry[t][ch]]
           x    == [d.policy EXCEPT ![t] = pol]
           y    == [d.entry EXCEPT ![t] = line]
           b    == [d EXCEPT !.policy = x]
           f    == [b EXCEPT !.entry = y]
<1>1. CASE d.policy[t].source = "center" \/ DefaultOf(d, t) = 0
  <2>1. e = d  BY <1>1 DEF SyncPolicy
  <2> QED  BY <1>1, <2>1 DEF SameBase, PolicySet
<1>2. CASE ~(d.policy[t].source = "center" \/ DefaultOf(d, t) = 0)
  <2>1. /\ d.policy \in PolicyTable /\ d.entry \in EntryTable /\ d.channel \in ChannelTable
        /\ d.settings.routing \in BOOLEAN /\ DOMAIN d.channel = 1..MaxChannels
    BY TableFields DEF SettingsRow, ChannelTable
  <2>2. e = f
    <3>1. e = [d EXCEPT !.policy[t] = pol, !.entry[t] = line]
      BY <1>2, <2>1 DEF SyncPolicy
    <3> HIDE DEF pol, line
    <3>2. [d EXCEPT !.policy[t] = pol, !.entry[t] = line] = [[d EXCEPT !.policy = x] EXCEPT !.entry[t] = line]
      OBVIOUS
    <3>3. b.entry = d.entry  BY DEF Tables
    <3>4. [b EXCEPT !.entry[t] = line] = [b EXCEPT !.entry = [b.entry EXCEPT ![t] = line]]  OBVIOUS
    <3> HIDE DEF b
    <3> QED  BY <3>1, <3>2, <3>3, <3>4 DEF b
  <2>3. pol \in PolicyRow  BY <2>1, DefaultTyped DEF PolicyRow
  <2>4. line \in [1..MaxChannels -> EntryRow]
    <3>1. ASSUME NEW ch \in 1..MaxChannels
          PROVE  [model |-> d.channel[ch].model, on |-> d.channel[ch].on] \in EntryRow
                 /\ d.entry[t][ch] \in EntryRow
      BY <2>1 DEF ChannelTable, ChannelRow, EntryTable, EntryRow
    <3> QED  BY <3>1
  <2>5. \A ch \in Routed(d, t) : d.channel[ch].st = "live" /\ ch \in 1..MaxChannels
    BY LiveChannels DEF Routed
  <2>6. \A ch \in 1..MaxChannels :
          /\ ch \in Routed(d, t) => line[ch] = [model |-> d.channel[ch].model, on |-> d.channel[ch].on]
          /\ d.channel[ch].st # "live" => line[ch] = d.entry[t][ch]
    BY <2>5
  <2> DEFINE Same == /\ pol = d.policy[t]
                     /\ \A ch \in Routed(d, t) : d.entry[t][ch] =
                           [model |-> d.channel[ch].model, on |-> d.channel[ch].on]
  <2>7. PolicySet(d, t) => Same  BY <1>2 DEF PolicySet
  <2>8. Same => line = d.entry[t]
    <3>1. d.entry[t] = [ch \in 1..MaxChannels |-> d.entry[t][ch]]  BY <2>1 DEF EntryTable
    <3> QED  BY <3>1
  <2> HIDE DEF line
  <2>9. /\ x \in PolicyTable /\ x[t] = pol /\ \A u \in Types : u # t => x[u] = d.policy[u]
    BY <2>1, <2>3 DEF PolicyTable
  <2>10. /\ y \in EntryTable /\ y[t] = line /\ \A u \in Types : u # t => y[u] = d.entry[u]
    BY <2>1, <2>4 DEF EntryTable
  <2>11. Same => x = d.policy /\ y = d.entry
    <3>1. Same => \A u \in Types : x[u] = d.policy[u] /\ y[u] = d.entry[u]
      BY <2>8, <2>9, <2>10
    <3>2. x = [u \in Types |-> x[u]] /\ d.policy = [u \in Types |-> d.policy[u]]
          /\ y = [u \in Types |-> y[u]] /\ d.entry = [u \in Types |-> d.entry[u]]
      BY <2>1, <2>9, <2>10 DEF PolicyTable, EntryTable
    <3> HIDE DEF Same, x, y
    <3> QED  BY <3>1, <3>2
  <2> HIDE DEF x, y, pol
  <2>12. b \in Tables /\ SameBase(d, b) /\ b.policy = x  BY <2>9 DEF Tables, SameBase
  <2> HIDE DEF b
  <2>13. f \in Tables /\ SameBase(d, f) /\ f.policy = x /\ f.entry = y
    <3>1. /\ f \in Tables /\ f.entry = y /\ f.config = b.config /\ f.model = b.model /\ f.provider = b.provider
          /\ f.policy = b.policy /\ f.channel = b.channel /\ f.settings = b.settings
      BY <2>10, <2>12, SetEntry
    <3> HIDE DEF f
    <3> QED  BY <2>12, <3>1 DEF SameBase
  <2> HIDE DEF f, e
  <2>14. PolicySet(f, t)
    <3>1. f.policy[t] = [source |-> "legacy", def |-> DefaultOf(f, t), fallback |-> SpareOf(f, t),
                         routing |-> f.settings.routing]
      BY <2>9, <2>13, SamePolicies DEF pol, SameBase
    <3>2. \A ch \in Routed(f, t) :
             f.entry[t][ch] = [model |-> f.channel[ch].model, on |-> f.channel[ch].on]
      BY <2>5, <2>6, <2>10, <2>13, SamePolicies DEF SameBase
    <3> QED  BY <3>1, <3>2 DEF PolicySet
  <2>15. \A u \in Types, ch \in 1..MaxChannels :
            d.channel[ch].st # "live" => f.entry[u][ch] = d.entry[u][ch]
    BY <2>6, <2>10, <2>13
  <2>16. \A u \in Types : u # t => f.policy[u] = d.policy[u] /\ f.entry[u] = d.entry[u]
    BY <2>9, <2>10, <2>13
  <2>17. PolicySet(d, t) => f = d
    <3>1. PolicySet(d, t) => f.policy = d.policy /\ f.entry = d.entry  BY <2>7, <2>11, <2>13
    <3> QED  BY <2>13, <3>1, SameTables DEF SameBase
  <2> QED  BY <2>2, <2>13, <2>14, <2>15, <2>16, <2>17 DEF e
<1> QED  BY <1>1, <1>2

\* The policy of images stays set when that of videos is.
LEMMA PolicySetStays ==
    ASSUME NEW d \in Tables, PolicySet(d, "image")
    PROVE  PolicySet(SyncPolicy(d, "video"), "image")
<1> DEFINE e == SyncPolicy(d, "video")
<1>1. "video" \in Types /\ "image" \in Types /\ "image" # "video"  BY DEF Types
<1>2. SameBase(d, e) /\ e.policy["image"] = d.policy["image"] /\ e.entry["image"] = d.entry["image"]
  BY <1>1, PolicyIs
<1> HIDE DEF e
<1>3. PolicySet(e, "image")  BY <1>2, SamePolicies DEF PolicySet, SameBase
<1> QED  BY <1>3 DEF e

Policies(d) == SyncPolicy(SyncPolicy(d, "image"), "video")

\* Both policies are set, and setting them again changes nothing.
LEMMA PoliciesAre ==
    ASSUME NEW d \in Tables
    PROVE  LET e == Policies(d)
           IN  /\ e \in Tables /\ SameBase(d, e) /\ PolicySet(e, "image") /\ PolicySet(e, "video")
               /\ \A u \in Types, ch \in 1..MaxChannels :
                     d.channel[ch].st # "live" => e.entry[u][ch] = d.entry[u][ch]
               /\ PolicySet(d, "image") /\ PolicySet(d, "video") => e = d
<1> DEFINE b == SyncPolicy(d, "image")
           e == SyncPolicy(b, "video")
<1>1. "video" \in Types /\ "image" \in Types  BY DEF Types
<1>2. /\ b \in Tables /\ SameBase(d, b) /\ PolicySet(b, "image")
      /\ \A u \in Types, ch \in 1..MaxChannels :
            d.channel[ch].st # "live" => b.entry[u][ch] = d.entry[u][ch]
      /\ PolicySet(d, "image") => b = d
  BY <1>1, PolicyIs
<1> HIDE DEF b
<1>3. /\ e \in Tables /\ SameBase(b, e) /\ PolicySet(e, "video")
      /\ \A u \in Types, ch \in 1..MaxChannels :
            b.channel[ch].st # "live" => e.entry[u][ch] = b.entry[u][ch]
      /\ PolicySet(b, "video") => e = b
  BY <1>1, <1>2, PolicyIs
<1>4. PolicySet(e, "image")  BY <1>2, PolicySetStays
<1>5. Policies(d) = e  BY DEF Policies, b
<1> HIDE DEF e
<1> QED  BY <1>2, <1>3, <1>4, <1>5 DEF SameBase

\* Setting policies unsettles no configuration.
LEMMA PoliciesSettle ==
    ASSUME NEW m \in Tables, NEW i, ConfigSettled(m, i)
    PROVE  ConfigSettled(Policies(m), i)
<1> DEFINE e == Policies(m)
<1>1. /\ SameBase(m, e)
      /\ \A u \in Types, ch \in 1..MaxChannels :
            m.channel[ch].st # "live" => e.entry[u][ch] = m.entry[u][ch]
  BY PoliciesAre
<1> HIDE DEF e
<1>2. \A st, key : WithKey(e, st, key) = WithKey(m, st, key)  BY <1>1 DEF WithKey, SameBase
<1>3. \A ch : HasChannel(m, i, ch) => HasChannel(e, i, ch)  BY <1>1, <1>2 DEF HasChannel, SameBase
<1>4. \A ch \in 1..MaxChannels : LostChannel(m, i, ch) => LostChannel(e, i, ch)
  BY <1>1 DEF LostChannel, SameBase
<1>5. NoService(m, i) => NoService(e, i)  BY <1>1, <1>2 DEF NoService, SameBase
<1>6. ConfigSettled(e, i)  BY <1>3, <1>4, <1>5 DEF ConfigSettled
<1> QED  BY <1>6 DEF e

\* A synchronisation: what it keeps, and with room for it what it settles.
Settled(d) == \A i \in LiveOnes(d.config) : ConfigSettled(d, i)

\* What a whole synchronisation keeps, and with room what it settles.
LEMMA SyncCenterIs ==
    ASSUME NEW d \in SoundTables, OneEach(d)
    PROVE  LET e == SyncCenter(d)
           IN  /\ e \in SoundTables /\ e.config = d.config /\ e.settings = d.settings
               /\ OneEach(e) /\ Keeps(d, e) /\ Grows(d, e)
               /\ Orphans(e) \subseteq Orphans(d)
               /\ PolicySet(e, "image") /\ PolicySet(e, "video")
               /\ Roomy(d) => Settled(e)
<1> DEFINE m == SyncConfigs(d)[MaxConfigs]
           e == SyncCenter(d)
<1>1. /\ m \in SoundTables /\ m.config = d.config /\ m.settings = d.settings
      /\ OneEach(m) /\ Keeps(d, m) /\ Grows(d, m)
      /\ Orphans(m) \subseteq Orphans(d)
      /\ Room(m) => \A i \in LiveOnes(d.config) : ConfigSettled(m, i)
  BY SyncConfigsKeep
<1>2. e = Policies(m)  BY DEF SyncCenter, Policies
<1> HIDE DEF m, e
<1>3. /\ e \in Tables /\ SameBase(m, e) /\ PolicySet(e, "image") /\ PolicySet(e, "video")
      /\ \A u \in Types, ch \in 1..MaxChannels :
            m.channel[ch].st # "live" => e.entry[u][ch] = m.entry[u][ch]
  BY <1>1, <1>2, PoliciesAre DEF SoundTables
<1>4. Roomy(d) => Room(m)  BY <1>3 DEF Roomy, Room, SameBase, e
<1>5. \A i : ConfigSettled(m, i) => ConfigSettled(e, i)  BY <1>1, <1>2, PoliciesSettle DEF SoundTables
<1>6. Roomy(d) => Settled(e)  BY <1>1, <1>3, <1>4, <1>5 DEF Settled, SameBase
<1>7. /\ e \in SoundTables /\ e.config = d.config /\ e.settings = d.settings
      /\ OneEach(e) /\ Keeps(d, e) /\ Grows(d, e) /\ Orphans(e) \subseteq Orphans(d)
  BY <1>1, <1>3 DEF SoundTables, SameBase, MadeConfigs, OneEach, Keeps, Grows, Orphans
<1> QED  BY <1>3, <1>6, <1>7 DEF e

-----------------------------------------------------------------------------
(***************************************************************************)
(* The synchronisation of settled tables: channels join the models of the  *)
(* oldest ones with their runtimes, and then nothing is left to do.        *)
(***************************************************************************)

SharedIn(d) == \E ch \in LiveOnes(d.channel), i \in LiveOnes(d.config) :
    d.channel[ch].config \notin LiveOnes(d.config) /\ d.channel[ch].runtime = d.config[i].runtime

\* The model of the oldest channel with a runtime.
OldestModel(d, r) == d.channel[OldestOf(d, r)].model

Joins(d, ch) == ch \in LiveOnes(d.channel) /\ d.channel[ch].config \in LiveOnes(d.config)

\* From d to e some channels, of configurations up to n, joined the oldest models.
JoinedTo(d, e, n) ==
    /\ e.config = d.config /\ e.model = d.model /\ e.provider = d.provider /\ e.settings = d.settings
    /\ e.policy = d.policy /\ e.entry = d.entry
    /\ \A ch \in 1..MaxChannels :
          /\ e.channel[ch].st = d.channel[ch].st /\ e.channel[ch].provider = d.channel[ch].provider
          /\ e.channel[ch].config = d.channel[ch].config /\ e.channel[ch].on = d.channel[ch].on
          /\ e.channel[ch].runtime = d.channel[ch].runtime
          /\ e.channel[ch].model = (IF Joins(d, ch) /\ d.channel[ch].config <= n
                                    THEN OldestModel(d, d.channel[ch].runtime) ELSE d.channel[ch].model)

\* Settled tables, in which only configurations share the runtimes of configurations.
Quiet(d) == d \in SoundTables /\ OneEach(d) /\ Settled(d) /\ ~SharedIn(d)

\* The oldest channel with the runtime of a configuration has a model that fits.
LEMMA OldestFits ==
    ASSUME NEW d, Quiet(d), NEW ch, Joins(d, ch)
    PROVE  LET r == d.channel[ch].runtime
               o == OldestOf(d, r)
           IN  /\ o # 0 /\ Joins(d, o) /\ d.channel[o].runtime = r
               /\ r = d.config[d.channel[ch].config].runtime
               /\ OldestModel(d, r) \in LiveOnes(d.model)
               /\ d.model[OldestModel(d, r)].type = TypeOf[r]
<1> DEFINE r == d.channel[ch].runtime
           o == OldestOf(d, r)
           i == d.channel[ch].config
<1>1. d \in Tables /\ OneEach(d) /\ Settled(d) /\ ~SharedIn(d)  BY DEF Quiet, SoundTables
<1>2. ASSUME NEW k, Joins(d, k)
      PROVE  /\ HasChannel(d, d.channel[k].config, k)
             /\ d.channel[k].runtime = d.config[d.channel[k].config].runtime
  <2>1. k \in 1..MaxChannels /\ d.channel[k].st = "live" /\ d.channel[k].config \in LiveOnes(d.config)
        /\ d.channel[k].config # 0
    BY <1>1, <1>2, LiveChannels, LiveConfigs DEF Joins
  <2>2. ConfigSettled(d, d.channel[k].config)  BY <1>1, <2>1 DEF Settled
  <2>3. HasChannel(d, d.channel[k].config, k)
    <3>1. \A a \in 1..MaxChannels : HasChannel(d, d.channel[k].config, a) => a = k
      BY <1>1, <2>1 DEF HasChannel, OneEach
    <3>2. \A a \in 1..MaxChannels : ~LostChannel(d, d.channel[k].config, a)
      BY <1>1, <2>1 DEF LostChannel, OneEach
    <3>3. ~NoService(d, d.channel[k].config)  BY <2>1 DEF NoService
    <3> QED  BY <2>2, <3>1, <3>2, <3>3 DEF ConfigSettled
  <2> QED  BY <2>3 DEF HasChannel
<1>3. ch \in LiveOnes(d.channel) /\ i \in LiveOnes(d.config) /\ r = d.config[i].runtime
  BY <1>2 DEF Joins
<1>4. o # 0 /\ o \in LiveOnes(d.channel) /\ d.channel[o].runtime = r
  <2>1. LET S == {k \in LiveOnes(d.channel) : d.channel[k].runtime = r}
        IN  (o = 0 <=> S = {}) /\ (o # 0 => o \in S)
    BY <1>1, OldestIs
  <2> HIDE DEF o
  <2> QED  BY <1>3, <2>1
<1> HIDE DEF o
<1>5. Joins(d, o)  BY <1>1, <1>3, <1>4 DEF Joins, SharedIn
<1>6. HasChannel(d, d.channel[o].config, o) /\ r = d.config[d.channel[o].config].runtime
  BY <1>2, <1>4, <1>5
<1>7. d.channel[o].model \in LiveOnes(d.model) /\ d.model[d.channel[o].model].type = TypeOf[r]
  BY <1>6 DEF HasChannel
<1> QED  BY <1>3, <1>4, <1>5, <1>7 DEF o, OldestModel

\* What joining keeps: the oldest channels and their models, and that all is settled.
LEMMA JoinedSame ==
    ASSUME NEW d, Quiet(d), NEW e \in SoundTables, NEW n, JoinedTo(d, e, n)
    PROVE  /\ \A ch : Joins(e, ch) <=> Joins(d, ch)
           /\ \A i : ChannelOf(e, i) = ChannelOf(d, i)
           /\ \A i : Dropped(e, i) = Dropped(d, i)
           /\ \A st, key : WithKey(e, st, key) = WithKey(d, st, key)
           /\ \A r : OldestOf(e, r) = OldestOf(d, r)
           /\ \A ch : Joins(d, ch) =>
                 OldestModel(e, d.channel[ch].runtime) = OldestModel(d, d.channel[ch].runtime)
           /\ Quiet(e)
<1>1. d \in Tables /\ e \in Tables  BY DEF Quiet, SoundTables
<1>2. \A ch \in 1..MaxChannels :
          /\ e.channel[ch].st = d.channel[ch].st /\ e.channel[ch].provider = d.channel[ch].provider
          /\ e.channel[ch].config = d.channel[ch].config /\ e.channel[ch].on = d.channel[ch].on
          /\ e.channel[ch].runtime = d.channel[ch].runtime
  BY DEF JoinedTo
<1>3. e.config = d.config /\ e.model = d.model /\ e.provider = d.provider /\ e.entry = d.entry
  BY DEF JoinedTo
<1>4. DOMAIN d.channel = 1..MaxChannels /\ DOMAIN e.channel = 1..MaxChannels
  BY <1>1, TableFields DEF ChannelTable
<1>5. \A st : Rows(e.channel, st) = Rows(d.channel, st) /\ Rows(d.channel, st) \subseteq 1..MaxChannels
  BY <1>2, <1>4 DEF Rows
<1>6. LiveOnes(e.channel) = LiveOnes(d.channel) /\ LiveOnes(d.channel) \subseteq 1..MaxChannels
  BY <1>5 DEF LiveOnes
<1>7. \A ch : Joins(e, ch) <=> Joins(d, ch)  BY <1>2, <1>3, <1>6 DEF Joins
<1>8. ASSUME NEW i PROVE ChannelOf(e, i) = ChannelOf(d, i) /\ Dropped(e, i) = Dropped(d, i)
  <2>1. {ch \in LiveOnes(e.channel) : i # 0 /\ e.channel[ch].config = i}
        = {ch \in LiveOnes(d.channel) : i # 0 /\ d.channel[ch].config = i}
    BY <1>2, <1>6
  <2>2. Dropped(e, i) = Dropped(d, i)  BY <1>2, <1>5 DEF Dropped
  <2> QED  BY <2>1, <2>2 DEF ChannelOf
<1>9. \A st, key : WithKey(e, st, key) = WithKey(d, st, key)  BY <1>3 DEF WithKey
<1>10. ASSUME NEW r PROVE OldestOf(e, r) = OldestOf(d, r)
  <2>1. {ch \in LiveOnes(e.channel) : e.channel[ch].runtime = r}
        = {ch \in LiveOnes(d.channel) : d.channel[ch].runtime = r}
    BY <1>2, <1>6
  <2> QED  BY <2>1 DEF OldestOf
<1>11. ASSUME NEW ch, Joins(d, ch)
       PROVE  OldestModel(e, d.channel[ch].runtime) = OldestModel(d, d.channel[ch].runtime)
  <2> DEFINE r == d.channel[ch].runtime
             o == OldestOf(d, r)
  <2>1. Joins(d, o) /\ d.channel[o].runtime = r  BY <1>11, OldestFits
  <2> HIDE DEF o
  <2>2. o \in 1..MaxChannels  BY <1>6, <2>1 DEF Joins
  <2>3. e.channel[o].model = OldestModel(d, r) \/ e.channel[o].model = d.channel[o].model
    BY <2>1, <2>2 DEF JoinedTo
  <2>4. OldestModel(d, r) = d.channel[o].model /\ OldestModel(e, r) = e.channel[o].model
    BY <1>10 DEF OldestModel, o
  <2> QED  BY <2>3, <2>4
<1>12. Quiet(e)
  <2>1. OneEach(e)  BY <1>2 DEF Quiet, OneEach
  <2>2. ~SharedIn(e)  BY <1>2, <1>3, <1>6 DEF Quiet, SharedIn
  <2>3. ASSUME NEW i \in LiveOnes(d.config) PROVE ConfigSettled(e, i)
    <3>1. ConfigSettled(d, i)  BY <2>3 DEF Quiet, Settled
    <3>2. ASSUME NEW ch \in 1..MaxChannels, HasChannel(d, i, ch) PROVE HasChannel(e, i, ch)
      <4>1. Joins(d, ch)  BY <1>1, <2>3, <3>2, LiveChannels DEF HasChannel, Joins
      <4>2. OldestModel(d, d.channel[ch].runtime) \in LiveOnes(d.model)
            /\ d.model[OldestModel(d, d.channel[ch].runtime)].type = TypeOf[d.channel[ch].runtime]
        BY <4>1, OldestFits
      <4>3. d.channel[ch].runtime = d.config[i].runtime  BY <3>2 DEF HasChannel
      <4>4. e.channel[ch].model \in LiveOnes(d.model)
            /\ d.model[e.channel[ch].model].type = TypeOf[d.config[i].runtime]
        BY <3>2, <4>1, <4>2, <4>3 DEF JoinedTo, HasChannel
      <4> QED  BY <1>2, <1>3, <1>9, <3>2, <4>4 DEF HasChannel
    <3>3. \A ch \in 1..MaxChannels : LostChannel(d, i, ch) => LostChannel(e, i, ch)
      BY <1>2, <1>3 DEF LostChannel
    <3>4. NoService(d, i) => NoService(e, i)  BY <1>2, <1>3, <1>9 DEF NoService
    <3> QED  BY <3>1, <3>2, <3>3, <3>4 DEF ConfigSettled
  <2> QED  BY <1>3, <2>1, <2>2, <2>3 DEF Quiet, Settled
<1> QED  BY <1>7, <1>8, <1>9, <1>10, <1>11, <1>12

\* In a settled centre, the step of a configuration only joins its channel to a model.
LEMMA JoinStep ==
    ASSUME NEW d, Quiet(d), NEW n \in 1..MaxConfigs
    PROVE  LET e == SyncConfig(d, n)
           IN  /\ e \in SoundTables
               /\ e.config = d.config /\ e.model = d.model /\ e.provider = d.provider /\ e.settings = d.settings
               /\ e.policy = d.policy /\ e.entry = d.entry
               /\ \A ch \in 1..MaxChannels :
                     /\ e.channel[ch].st = d.channel[ch].st /\ e.channel[ch].provider = d.channel[ch].provider
                     /\ e.channel[ch].config = d.channel[ch].config /\ e.channel[ch].on = d.channel[ch].on
                     /\ e.channel[ch].runtime = d.channel[ch].runtime
                     /\ e.channel[ch].model = (IF Joins(d, ch) /\ d.channel[ch].config = n
                                               THEN OldestModel(d, d.channel[ch].runtime)
                                               ELSE d.channel[ch].model)
<1> DEFINE e   == SyncConfig(d, n)
           c   == d.config[n]
           own == ChannelOf(d, n)
           p   == ProviderFor(d, c)
           m   == ModelFor(p.db, c)
           k   == IF own # 0 THEN own ELSE NextRow(d.channel)
           old == IF own # 0 THEN d.channel[own] ELSE [NoChannel EXCEPT !.st = "live", !.config = n]
           row == [old EXCEPT !.model = m.id, !.provider = p.id, !.runtime = c.runtime, !.on = c.on]
<1>1. d \in Tables /\ OneEach(d) /\ Settled(d) /\ d \in SoundTables  BY DEF Quiet, SoundTables
<1>2. e = IF n \notin LiveOnes(d.config) THEN d
          ELSE IF own = 0 /\ Dropped(d, n) # {} THEN DropEntries(d, Dropped(d, n))
          ELSE IF p.id = 0 THEN RemoveChannels(d, {own} \ {0})
          ELSE [m.db EXCEPT !.channel[k] = row]
  BY DEF SyncConfig
<1>3. c \in ConfigRow /\ c.runtime \in Runtimes \cup {0} /\ c.on \in BOOLEAN
  BY <1>1, TableFields DEF ConfigTable, ConfigRow
<1>4. d.channel \in ChannelTable /\ DOMAIN d.channel = 1..MaxChannels
      /\ d.entry \in EntryTable
  BY <1>1, TableFields DEF ChannelTable
<1> HIDE DEF e
\* In all cases but one nothing happens.
<1>5. ASSUME e = d, \A ch \in 1..MaxChannels : ~(Joins(d, ch) /\ d.channel[ch].config = n)
      PROVE  /\ e \in SoundTables
             /\ e.config = d.config /\ e.model = d.model /\ e.provider = d.provider
             /\ e.settings = d.settings /\ e.policy = d.policy /\ e.entry = d.entry
             /\ \A ch \in 1..MaxChannels :
                     /\ e.channel[ch].st = d.channel[ch].st /\ e.channel[ch].provider = d.channel[ch].provider
                     /\ e.channel[ch].config = d.channel[ch].config /\ e.channel[ch].on = d.channel[ch].on
                     /\ e.channel[ch].runtime = d.channel[ch].runtime
                     /\ e.channel[ch].model = (IF Joins(d, ch) /\ d.channel[ch].config = n
                                               THEN OldestModel(d, d.channel[ch].runtime)
                                               ELSE d.channel[ch].model)
  BY <1>1, <1>5
<1>6. CASE n \notin LiveOnes(d.config)
  <2>1. e = d  BY <1>2, <1>6
  <2>2. \A ch \in 1..MaxChannels : ~(Joins(d, ch) /\ d.channel[ch].config = n)  BY <1>6 DEF Joins
  <2> QED  BY <1>5, <2>1, <2>2 DEF e
<1>7. ASSUME n \in LiveOnes(d.config), NEW x \in 1..MaxChannels, LostChannel(d, n, x)
      PROVE  e = d /\ \A ch \in 1..MaxChannels : ~(Joins(d, ch) /\ d.channel[ch].config = n)
  <2>1. \A ch \in 1..MaxChannels : d.channel[ch].config = n => ch = x
    BY <1>1, <1>7, CenterBounds DEF OneEach, LostChannel
  <2>2. \A ch \in 1..MaxChannels : ~(Joins(d, ch) /\ d.channel[ch].config = n)
    BY <1>1, <1>7, <2>1, LiveChannels DEF LostChannel, Joins
  <2>3. own = 0  BY <1>1, <1>7, <2>1, ChannelIs DEF LostChannel
  <2>4. x \in Dropped(d, n)  BY <1>4, <1>7 DEF Dropped, LostChannel, Rows
  <2>5. \A ch \in Dropped(d, n) : ch = x  BY <1>4, <2>1 DEF Dropped, Rows
  <2>6. e = DropEntries(d, Dropped(d, n))  BY <1>2, <1>7, <2>3, <2>4
  <2>7. /\ e \in Tables /\ e.config = d.config /\ e.model = d.model /\ e.provider = d.provider
        /\ e.channel = d.channel /\ e.policy = d.policy /\ e.settings = d.settings
        /\ e.entry = [t \in Types |-> [ch \in 1..MaxChannels |->
                         IF ch \in Dropped(d, n) THEN NoEntry ELSE d.entry[t][ch]]]
    BY <1>1, <2>6, EntriesDropped
  <2>8. e.entry = d.entry
    <3>1. \A t \in Types : [ch \in 1..MaxChannels |->
                         IF ch \in Dropped(d, n) THEN NoEntry ELSE d.entry[t][ch]] = d.entry[t]
      <4>1. ASSUME NEW t \in Types, NEW ch \in 1..MaxChannels
            PROVE  (IF ch \in Dropped(d, n) THEN NoEntry ELSE d.entry[t][ch]) = d.entry[t][ch]
        BY <1>7, <2>5 DEF LostChannel
      <4>2. \A t \in Types : d.entry[t] = [ch \in 1..MaxChannels |-> d.entry[t][ch]]
        BY <1>4 DEF EntryTable
      <4> QED  BY <4>1, <4>2
    <3>2. d.entry = [t \in Types |-> d.entry[t]]  BY <1>4 DEF EntryTable
    <3> QED  BY <2>7, <3>1, <3>2
  <2>9. e = d  BY <1>1, <2>7, <2>8, SameTables
  <2> QED  BY <2>2, <2>9
<1>8. ASSUME n \in LiveOnes(d.config), NoService(d, n)
      PROVE  e = d /\ \A ch \in 1..MaxChannels : ~(Joins(d, ch) /\ d.channel[ch].config = n)
  <2>1. \A ch \in 1..MaxChannels : d.channel[ch].config # n  BY <1>8 DEF NoService
  <2>2. own = 0  BY <1>1, <2>1, ChannelIs
  <2>3. Dropped(d, n) = {}  BY <1>4, <2>1 DEF Dropped, Rows
  <2>4. p.id = 0
    <3>1. p = [db |-> d, id |-> 0]  BY <1>8 DEF ProviderFor, NoService
    <3> QED  BY <3>1
  <2>5. e = RemoveChannels(d, {})
    <3>1. {own} \ {0} = {}  BY <2>2
    <3> QED  BY <1>2, <1>8, <2>2, <2>3, <2>4, <3>1
  <2>6. /\ e \in Tables /\ e.config = d.config /\ e.model = d.model /\ e.provider = d.provider
        /\ e.policy = d.policy /\ e.settings = d.settings
        /\ e.channel = Deleted(d.channel, {})
        /\ e.entry = [t \in Types |-> [ch \in 1..MaxChannels |->
                         IF ch \in {} THEN NoEntry ELSE d.entry[t][ch]]]
    BY <1>1, <2>5, ChannelsRemoved
  <2>7. e.entry = d.entry
    <3>1. d.entry = [t \in Types |-> [ch \in 1..MaxChannels |-> d.entry[t][ch]]]
      BY <1>4 DEF EntryTable
    <3> QED  BY <2>6, <3>1
  <2>8. e.channel = d.channel
    <3>1. e.channel = [ch \in 1..MaxChannels |-> d.channel[ch]]  BY <1>4, <2>6 DEF Deleted
    <3> QED  BY <1>4, <3>1 DEF ChannelTable
  <2>9. e = d  BY <1>1, <2>6, <2>7, <2>8, SameTables
  <2> QED  BY <2>1, <2>9
<1>9. ASSUME n \in LiveOnes(d.config), NEW x \in 1..MaxChannels, HasChannel(d, n, x)
      PROVE  /\ e \in SoundTables
             /\ e.config = d.config /\ e.model = d.model /\ e.provider = d.provider
             /\ e.settings = d.settings /\ e.policy = d.policy /\ e.entry = d.entry
             /\ \A ch \in 1..MaxChannels :
                     /\ e.channel[ch].st = d.channel[ch].st /\ e.channel[ch].provider = d.channel[ch].provider
                     /\ e.channel[ch].config = d.channel[ch].config /\ e.channel[ch].on = d.channel[ch].on
                     /\ e.channel[ch].runtime = d.channel[ch].runtime
                     /\ e.channel[ch].model = (IF Joins(d, ch) /\ d.channel[ch].config = n
                                               THEN OldestModel(d, d.channel[ch].runtime)
                                               ELSE d.channel[ch].model)
  <2> DEFINE y    == d.channel[x]
             live == WithKey(d, "live", c.key)
             om   == OldestModel(d, c.runtime)
  <2>1. /\ y.st = "live" /\ y.config = n /\ y.runtime = c.runtime /\ y.on = c.on
        /\ live # {} /\ y.provider = Lowest(live)
    BY <1>9 DEF HasChannel
  <2>2. \A ch \in 1..MaxChannels : d.channel[ch].config = n => ch = x
    BY <1>1, <2>1, CenterBounds DEF OneEach
  <2>3. Joins(d, x)  BY <1>1, <1>9, <2>1, LiveChannels DEF Joins
  <2>4. own = x /\ x # 0
    <3>1. own # 0  BY <1>1, <2>1, ChannelIs, LiveChannels
    <3> QED  BY <1>1, <2>2, <3>1, ChannelIs
  <2>5. p = [db |-> d, id |-> y.provider]  BY <2>1 DEF ProviderFor
  <2>6. p.db = d /\ p.id = y.provider
    <3> HIDE DEF p, y
    <3> QED  BY <2>5
  <2>7. p.id # 0 /\ y.provider \in 0..MaxProviders /\ y \in ChannelRow
    <3>1. live \subseteq 1..MaxProviders  BY <1>1, KeyRows
    <3>2. live \in SUBSET Nat  BY <3>1
    <3> HIDE DEF live
    <3>3. Lowest(live) \in live  BY <2>1, <3>2, LowestIn
    <3>4. y \in ChannelRow  BY <1>4 DEF ChannelTable
    <3> HIDE DEF y, p
    <3> QED  BY <2>1, <2>6, <3>1, <3>3, <3>4 DEF ChannelRow
  <2>8. m.db = d /\ m.id = om /\ om \in 0..MaxModels
    <3> DEFINE o == OldestOf(d, c.runtime)
    <3>1. o # 0 /\ om \in LiveOnes(d.model) /\ d.model[om].type = TypeOf[c.runtime]
      BY <2>1, <2>3, OldestFits
    <3>2. om = d.channel[o].model  BY DEF OldestModel
    <3>3. om \in 1..MaxModels /\ om # 0  BY <1>1, <3>1, LiveModels
    <3> HIDE DEF o, om, c, p
    <3>4. m = ModelFor(d, c)  BY <2>6
    <3>5. ModelFor(d, c) = [db |-> d, id |-> om]
      BY <3>1, <3>2, <3>3 DEF ModelFor, o
    <3> QED  BY <3>3, <3>4, <3>5
  <2> HIDE DEF m, p, c, om
  <2> DEFINE z == Filled(y, om, y.provider, c.runtime, c.on)
  <2>9. row = z  BY <2>4, <2>6, <2>8 DEF Filled
  <2>10. z = [st |-> y.st, model |-> om, provider |-> y.provider, config |-> y.config,
              runtime |-> c.runtime, on |-> c.on]
    <3> HIDE DEF y
    <3> QED  BY <1>3, <2>7, <2>8, RowFilled
  <2>11. /\ z \in ChannelRow /\ z.st = y.st /\ z.model = om /\ z.provider = y.provider
         /\ z.config = y.config /\ z.runtime = y.runtime /\ z.on = y.on
    <3>1. y.st \in States /\ y.config \in 0..MaxConfigs  BY <2>7 DEF ChannelRow
    <3> HIDE DEF y, z
    <3>2. z \in ChannelRow  BY <1>3, <2>7, <2>8, <2>10, <3>1 DEF ChannelRow
    <3> QED  BY <2>1, <2>10, <3>2
  <2> HIDE DEF own, row, k, z
  <2>12. k = x  BY <2>4 DEF k
  <2> DEFINE w == [d.channel EXCEPT ![x] = z]
  <2>13. e = [d EXCEPT !.channel = w]
    <3>1. e = [d EXCEPT !.channel[x] = z]
      BY <1>2, <1>9, <2>4, <2>7, <2>8, <2>9, <2>12
    <3> QED  BY <3>1
  <2>14. w \in ChannelTable /\ w[x] = z /\ \A ch \in 1..MaxChannels : ch # x => w[ch] = d.channel[ch]
    BY <1>4, <2>11 DEF ChannelTable
  <2> HIDE DEF w
  <2>15. /\ e \in Tables /\ e.channel = w /\ e.config = d.config /\ e.model = d.model
         /\ e.provider = d.provider /\ e.policy = d.policy /\ e.entry = d.entry
         /\ e.settings = d.settings
    BY <1>1, <2>13, <2>14, SetChannel
  <2>16. e \in SoundTables  BY <1>1, <2>15 DEF SoundTables, MadeConfigs
  <2>17. ASSUME NEW ch \in 1..MaxChannels
         PROVE  /\ e.channel[ch].st = d.channel[ch].st /\ e.channel[ch].provider = d.channel[ch].provider
                /\ e.channel[ch].config = d.channel[ch].config /\ e.channel[ch].on = d.channel[ch].on
                /\ e.channel[ch].runtime = d.channel[ch].runtime
                /\ e.channel[ch].model = (IF Joins(d, ch) /\ d.channel[ch].config = n
                                          THEN OldestModel(d, d.channel[ch].runtime)
                                          ELSE d.channel[ch].model)
    <3>1. CASE ch = x
      <4>1. e.channel[ch] = z /\ om = OldestModel(d, y.runtime)  BY <2>1, <2>14, <2>15, <3>1 DEF om
      <4> QED  BY <2>1, <2>3, <2>11, <3>1, <4>1
    <3>2. CASE ch # x
      <4>1. e.channel[ch] = d.channel[ch] /\ d.channel[ch].config # n  BY <2>2, <2>14, <2>15, <3>2
      <4> QED  BY <4>1
    <3> QED  BY <3>1, <3>2
  <2> QED  BY <2>15, <2>16, <2>17
<1>10. CASE n \in LiveOnes(d.config)
  <2>1. ConfigSettled(d, n)  BY <1>1, <1>10 DEF Settled
  <2> QED  BY <1>5, <1>7, <1>8, <1>9, <1>10, <2>1 DEF ConfigSettled, e
<1> QED  BY <1>6, <1>10

\* A second pass over the configurations only joins channels to models.
LEMMA SecondPass ==
    ASSUME NEW d, Quiet(d)
    PROVE  LET e == SyncConfigs(d)[MaxConfigs] IN e \in SoundTables /\ JoinedTo(d, e, MaxConfigs)
<1> DEFINE s == SyncConfigs(d)
           P == {n \in 0..MaxConfigs : JoinedTo(d, s[n], n)}
<1>1. /\ s[0] = d /\ \A n \in 0..MaxConfigs : s[n] \in SoundTables
      /\ \A n \in 1..MaxConfigs : s[n] = SyncConfig(s[n - 1], n)
  BY SyncConfigsSteps DEF Quiet
<1>2. d \in Tables  BY DEF Quiet, SoundTables
<1> HIDE DEF s
<1>3. 0 \in P
  <2>1. \A ch : Joins(d, ch) => ~(d.channel[ch].config <= 0)  BY <1>2, LiveConfigs DEF Joins
  <2>2. JoinedTo(d, s[0], 0)  BY <1>1, <2>1 DEF JoinedTo
  <2> QED  BY <2>2, CenterBounds
<1>4. ASSUME NEW n \in 0..MaxConfigs, n # 0, n - 1 \in P PROVE n \in P
  <2> DEFINE b == s[n - 1]
             f == s[n]
  <2>1. n \in 1..MaxConfigs /\ n - 1 \in 0..MaxConfigs /\ JoinedTo(d, b, n - 1)  BY <1>4, CenterBounds
  <2>2. b \in SoundTables /\ f = SyncConfig(b, n)  BY <1>1, <2>1
  <2> HIDE DEF b, f
  <2>3. /\ \A ch : Joins(b, ch) <=> Joins(d, ch)
        /\ \A ch : Joins(d, ch) =>
              OldestModel(b, d.channel[ch].runtime) = OldestModel(d, d.channel[ch].runtime)
        /\ Quiet(b)
    BY <2>1, <2>2, JoinedSame
  <2>4. /\ f.config = b.config /\ f.model = b.model /\ f.provider = b.provider /\ f.settings = b.settings
        /\ f.policy = b.policy /\ f.entry = b.entry
        /\ \A ch \in 1..MaxChannels :
              /\ f.channel[ch].st = b.channel[ch].st /\ f.channel[ch].provider = b.channel[ch].provider
              /\ f.channel[ch].config = b.channel[ch].config /\ f.channel[ch].on = b.channel[ch].on
              /\ f.channel[ch].runtime = b.channel[ch].runtime
              /\ f.channel[ch].model = (IF Joins(b, ch) /\ b.channel[ch].config = n
                                        THEN OldestModel(b, b.channel[ch].runtime)
                                        ELSE b.channel[ch].model)
    BY <2>1, <2>2, <2>3, JoinStep
  <2>5. ASSUME NEW ch \in 1..MaxChannels
        PROVE  f.channel[ch].model = (IF Joins(d, ch) /\ d.channel[ch].config <= n
                                      THEN OldestModel(d, d.channel[ch].runtime) ELSE d.channel[ch].model)
    <3>1. /\ b.channel[ch].config = d.channel[ch].config /\ b.channel[ch].runtime = d.channel[ch].runtime
          /\ b.channel[ch].model = (IF Joins(d, ch) /\ d.channel[ch].config <= n - 1
                                    THEN OldestModel(d, d.channel[ch].runtime) ELSE d.channel[ch].model)
      BY <2>1 DEF JoinedTo
    <3>2. d.channel[ch].config \in Nat
      BY <1>2, TableFields, CenterBounds DEF ChannelTable, ChannelRow
    <3>3. d.channel[ch].config <= n <=> d.channel[ch].config <= n - 1 \/ d.channel[ch].config = n
      BY <2>1, <3>2
    <3> QED  BY <2>3, <2>4, <3>1, <3>3
  <2>6. JoinedTo(d, f, n)  BY <2>1, <2>4, <2>5 DEF JoinedTo
  <2> QED  BY <2>6 DEF f
<1> HIDE DEF P
<1>5. 0..MaxConfigs \subseteq P  BY <1>3, <1>4, CountsUp, CenterBounds
<1>6. MaxConfigs \in P  BY <1>5, CenterBounds
<1>7. s[MaxConfigs] \in SoundTables /\ JoinedTo(d, s[MaxConfigs], MaxConfigs)
  BY <1>1, <1>6, CenterBounds DEF P
<1> QED  BY <1>7 DEF s

\* Channels with the same fields are the same.
LEMMA SameRow ==
    ASSUME NEW x \in ChannelRow, NEW y \in ChannelRow,
           x.st = y.st, x.model = y.model, x.provider = y.provider, x.config = y.config,
           x.runtime = y.runtime, x.on = y.on
    PROVE  x = y
BY DEF ChannelRow

WithModel(x, m) == [x EXCEPT !.model = m]

\* Rows that agree in all but the model.
LEMMA OtherModel ==
    ASSUME NEW x \in ChannelRow, NEW y \in ChannelRow,
           x.st = y.st, x.provider = y.provider, x.config = y.config, x.runtime = y.runtime, x.on = y.on
    PROVE  y = WithModel(x, y.model)
<1> DEFINE z == [x EXCEPT !.model = y.model]
<1>1. /\ z \in ChannelRow /\ z.st = x.st /\ z.provider = x.provider /\ z.config = x.config
      /\ z.runtime = x.runtime /\ z.on = x.on /\ z.model = y.model
  BY DEF ChannelRow
<1> HIDE DEF z
<1>2. y = z  BY <1>1, SameRow
<1> QED  BY <1>2 DEF z, WithModel

\* The second synchronisation only joins, and the third does nothing.
LEMMA QuietSettles ==
    ASSUME NEW d, Quiet(d)
    PROVE  LET a == SyncCenter(d) IN OnlyJoins(d, a) /\ SyncCenter(a) = a
<1> DEFINE e == SyncConfigs(d)[MaxConfigs]
           a == SyncCenter(d)
           g == SyncConfigs(a)[MaxConfigs]
<1>1. d \in Tables /\ OneEach(d)  BY DEF Quiet, SoundTables
<1>2. e \in SoundTables /\ JoinedTo(d, e, MaxConfigs)  BY SecondPass
<1>3. a = Policies(e)  BY DEF SyncCenter, Policies
<1> HIDE DEF a, e
<1>4. /\ \A ch : Joins(e, ch) <=> Joins(d, ch)
      /\ \A ch : Joins(d, ch) =>
            OldestModel(e, d.channel[ch].runtime) = OldestModel(d, d.channel[ch].runtime)
      /\ Quiet(e)
  BY <1>2, JoinedSame
<1>5. a \in Tables /\ SameBase(e, a) /\ PolicySet(a, "image") /\ PolicySet(a, "video")
  BY <1>2, <1>3, PoliciesAre DEF SoundTables
<1>6. Quiet(a)
  <2>1. a \in SoundTables /\ OneEach(a) /\ ~SharedIn(a)
    BY <1>2, <1>4, <1>5 DEF SoundTables, MadeConfigs, OneEach, SharedIn, SameBase, Quiet
  <2>2. \A i : ConfigSettled(e, i) => ConfigSettled(a, i)
    BY <1>2, <1>3, PoliciesSettle DEF SoundTables
  <2>3. Settled(a)  BY <1>4, <1>5, <2>2 DEF Settled, SameBase, Quiet
  <2> QED  BY <2>1, <2>3 DEF Quiet
<1>7. g \in SoundTables /\ JoinedTo(a, g, MaxConfigs)  BY <1>6, SecondPass
<1> HIDE DEF g
<1>8. /\ d.channel \in ChannelTable /\ e.channel \in ChannelTable /\ a.channel \in ChannelTable
      /\ g.channel \in ChannelTable /\ g \in Tables /\ e \in Tables
  BY <1>1, <1>2, <1>5, <1>7, TableFields DEF SoundTables
<1>9. OnlyJoins(d, a)
  <2>1. ASSUME NEW ch \in 1..MaxChannels
        PROVE  a.channel[ch] = WithModel(d.channel[ch], a.channel[ch].model)
    <3>1. d.channel[ch] \in ChannelRow /\ e.channel[ch] \in ChannelRow /\ a.channel[ch] = e.channel[ch]
      BY <1>5, <1>8 DEF ChannelTable, SameBase
    <3> QED  BY <1>2, <3>1, OtherModel DEF JoinedTo
  <2>2. DOMAIN d.channel = 1..MaxChannels  BY <1>8 DEF ChannelTable
  <2> QED  BY <1>2, <1>5, <2>1, <2>2 DEF OnlyJoins, WithModel, JoinedTo, SameBase
<1>10. g = a
  <2>1. ASSUME NEW ch \in 1..MaxChannels PROVE g.channel[ch] = a.channel[ch]
    <3>1. g.channel[ch] \in ChannelRow /\ a.channel[ch] \in ChannelRow  BY <1>8 DEF ChannelTable
    <3>2. g.channel[ch].model = a.channel[ch].model
      <4>1. CASE Joins(a, ch) /\ a.channel[ch].config <= MaxConfigs
        <5>1. Joins(d, ch) /\ a.channel[ch] = e.channel[ch]  BY <1>4, <1>5, <4>1 DEF Joins, SameBase
        <5>2. e.channel[ch].config = d.channel[ch].config /\ e.channel[ch].runtime = d.channel[ch].runtime
          BY <1>2 DEF JoinedTo
        <5>3. a.channel[ch].model = OldestModel(d, d.channel[ch].runtime)
          BY <1>2, <4>1, <5>1, <5>2 DEF JoinedTo
        <5>4. OldestModel(a, a.channel[ch].runtime) = OldestModel(e, e.channel[ch].runtime)
          BY <1>5, <5>1 DEF OldestModel, OldestOf, SameBase
        <5>5. g.channel[ch].model = OldestModel(a, a.channel[ch].runtime)  BY <1>7, <4>1 DEF JoinedTo
        <5> QED  BY <1>4, <5>1, <5>2, <5>3, <5>4, <5>5
      <4>2. CASE ~(Joins(a, ch) /\ a.channel[ch].config <= MaxConfigs)
        BY <1>7, <4>2 DEF JoinedTo
      <4> QED  BY <4>1, <4>2
    <3> QED  BY <1>7, <3>1, <3>2, SameRow DEF JoinedTo
  <2>2. g.channel = a.channel
    <3>1. /\ g.channel = [ch \in 1..MaxChannels |-> g.channel[ch]]
          /\ a.channel = [ch \in 1..MaxChannels |-> a.channel[ch]]
      BY <1>8 DEF ChannelTable
    <3> QED  BY <2>1, <3>1
  <2> QED  BY <1>5, <1>7, <1>8, <2>2, SameTables DEF JoinedTo
<1>11. SyncCenter(a) = Policies(g)  BY DEF SyncCenter, Policies, g
<1>12. SyncCenter(a) = a  BY <1>5, <1>10, <1>11, PoliciesAre
<1> QED  BY <1>9, <1>12 DEF a

-----------------------------------------------------------------------------
(***************************************************************************)
(* What a start adds.                                                      *)
(***************************************************************************)

MadeTables == {t \in ConfigTable : \A i \in 1..MaxConfigs : t[i].st # "unmade" => t[i].runtime \in Runtimes}

\* Tables are sound when the configurations that were made have a runtime.
LEMMA SoundConfigs ==
    ASSUME NEW d \in Tables
    PROVE  d \in SoundTables <=> d.config \in MadeTables
BY TableFields DEF SoundTables, MadeConfigs, MadeTables

\* A finite set has a list of its elements.
LEMMA ListedIs ==
    ASSUME NEW S, IsFiniteSet(S)
    PROVE  Cardinality(S) \in Nat /\ Listed(S) \in [1..Cardinality(S) -> S]
<1>1. Cardinality(S) \in Nat /\ ExistsBijection(1..Cardinality(S), S)  BY FS_CardinalityType
<1> DEFINE T == [1..Cardinality(S) -> S]
           One(s) == \A m, n \in DOMAIN s : s[m] = s[n] => m = n
<1>2. PICK s : s \in Bijection(1..Cardinality(S), S)  BY <1>1 DEF ExistsBijection
<1>3. s \in T /\ IsInjective(s)  BY <1>2 DEF Bijection, Injection
<1>4. One(s)  BY <1>3 DEF IsInjective
<1>5. Listed(S) = CHOOSE x \in T : One(x)  BY DEF Listed
<1> HIDE DEF T, One
<1>6. Listed(S) \in T  BY <1>3, <1>4, <1>5
<1> QED  BY <1>1, <1>6 DEF T

\* Adding a configuration changes no row that was made.
LEMMA AddConfigMakes ==
    ASSUME NEW t \in MadeTables, NEW c \in ConfigRow, c.runtime \in Runtimes
    PROVE  AddConfig(t, c) \in MadeTables
           /\ \A i \in 1..MaxConfigs : t[i].st # "unmade" => AddConfig(t, c)[i] = t[i]
<1> DEFINE n == NextRow(t)
<1>1. t \in ConfigTable /\ DOMAIN t = 1..MaxConfigs  BY DEF MadeTables, ConfigTable
<1>2. n = 0 \/ n \in Rows(t, "unmade")  BY <1>1, RowsAre, CenterBounds
<1>3. n \in Rows(t, "unmade") => t[n].st = "unmade"  BY DEF Rows
<1>4. CASE n = 0  BY <1>4 DEF AddConfig
<1>5. CASE n # 0
  <2>1. AddConfig(t, c) = [t EXCEPT ![n] = c]  BY <1>5 DEF AddConfig
  <2> HIDE DEF n
  <2>2. [t EXCEPT ![n] = c] \in ConfigTable  BY <1>1 DEF ConfigTable
  <2>3. \A i \in 1..MaxConfigs : [t EXCEPT ![n] = c][i] = IF i = n THEN c ELSE t[i]  BY <1>1
  <2> QED  BY <1>2, <1>3, <1>5, <2>1, <2>2, <2>3 DEF MadeTables
<1> QED  BY <1>4, <1>5

\* Nor does a seed,
LEMMA SeedMakes ==
    ASSUME NEW t \in MadeTables, NEW name \in Seeds
    PROVE  Seed(t, name) \in MadeTables
<1> DEFINE c == [st |-> "live", name |-> name, runtime |-> SeedRuntime[name], key |-> SeedKey, on |-> TRUE]
<1>1. SeedRuntime[name] \in Runtimes  BY CenterAssumption
<1>2. c \in ConfigRow /\ c.runtime \in Runtimes
  BY <1>1, CenterAssumption DEF ConfigRow, States, NameSet, KeySet
<1>3. Seed(t, name) = t \/ Seed(t, name) = AddConfig(t, c)  BY DEF Seed
<1> HIDE DEF c
<1> QED  BY <1>2, <1>3, AddConfigMakes

\* nor an allowed runtime,
LEMMA AllowMakes ==
    ASSUME NEW t \in MadeTables, NEW r \in Runtimes
    PROVE  Allow(t, r) \in MadeTables
<1> DEFINE c == [st |-> "live", name |-> r, runtime |-> r, key |-> SeedKey, on |-> TRUE]
<1>1. c \in ConfigRow /\ c.runtime \in Runtimes
  BY CenterAssumption DEF ConfigRow, States, NameSet, KeySet
<1>2. Allow(t, r) = t \/ Allow(t, r) = AddConfig(t, c)  BY DEF Allow
<1> HIDE DEF c
<1> QED  BY <1>1, <1>2, AddConfigMakes

\* What each step preserves holds in the end.
LEMMA StepsEnd ==
    ASSUME NEW N \in Nat, NEW D, NEW f, f[0] \in D, \A n \in 1..N : f[n - 1] \in D => f[n] \in D
    PROVE  f[N] \in D
<1> DEFINE P == {n \in 0..N : f[n] \in D}
<1>1. 0 \in P  OBVIOUS
<1>2. ASSUME NEW n \in 0..N, n # 0, n - 1 \in P PROVE n \in P
  <2>1. f[n - 1] \in D /\ n \in 1..N  BY <1>2
  <2> QED  BY <2>1
<1> HIDE DEF P
<1>3. 0..N \subseteq P  BY <1>1, <1>2, CountsUp
<1>4. N \in P  BY <1>3
<1> QED  BY <1>4 DEF P

\* nor all seeds one after the other,
LEMMA SeedAllMakes ==
    ASSUME NEW t \in MadeTables
    PROVE  SeedAll(t) \in MadeTables
<1> DEFINE N == Cardinality(Seeds)
           L == Listed(Seeds)
           op == [n \in 1..N |-> [x \in MadeTables |-> Seed(x, L[n])]]
           Is(g) == g = [n \in 0..N |-> IF n = 0 THEN t ELSE Seed(g[n - 1], L[n])]
           f == CHOOSE g : Is(g)
<1>1. N \in Nat /\ L \in [1..N -> Seeds]  BY ListedIs, CenterAssumption
<1>2. SeedAll(t) = f[N]  BY DEF SeedAll
<1> HIDE DEF N, L
<1>3. op \in [1..N -> [MadeTables -> MadeTables]]  BY <1>1, SeedMakes
<1>4. \E g : Is(g)
  <2>1. PICK g : Stepped(N, MadeTables, t, op, g)
    <3> HIDE DEF op
    <3> QED  BY <1>1, <1>3, StepByStep
  <2>2. /\ g \in [0..N -> MadeTables]
        /\ g = [n \in 0..N |-> IF n = 0 THEN t ELSE op[n][g[n - 1]]]
    BY <2>1 DEF Stepped
  <2>3. ASSUME NEW n \in 0..N, n # 0 PROVE op[n][g[n - 1]] = Seed(g[n - 1], L[n])
    <3>1. n \in 1..N /\ n - 1 \in 0..N  BY <1>1, <2>3
    <3>2. g[n - 1] \in MadeTables  BY <2>2, <3>1
    <3> QED  BY <3>1, <3>2
  <2> HIDE DEF op
  <2>4. Is(g)  BY <2>2, <2>3
  <2> QED  BY <2>4
<1> HIDE DEF op
<1>5. Is(f)
  <2> HIDE DEF Is
  <2> QED  BY <1>4
<1> HIDE DEF f
<1>6. f[0] \in MadeTables  BY <1>1, <1>5
<1>7. ASSUME NEW n \in 1..N, f[n - 1] \in MadeTables PROVE f[n] \in MadeTables
  <2>1. n \in 0..N /\ n # 0  BY <1>1
  <2>2. f[n] = Seed(f[n - 1], L[n])  BY <1>5, <2>1
  <2> QED  BY <1>1, <1>7, <2>2, SeedMakes
<1> QED  BY <1>1, <1>2, <1>6, <1>7, StepsEnd

\* nor all allowed runtimes.
LEMMA AllowAllMakes ==
    ASSUME NEW t \in MadeTables, NEW S \in SUBSET Runtimes
    PROVE  AllowAll(t, S) \in MadeTables
<1> DEFINE N == Cardinality(S)
           L == Listed(S)
           op == [n \in 1..N |-> [x \in MadeTables |-> Allow(x, L[n])]]
           Is(g) == g = [n \in 0..N |-> IF n = 0 THEN t ELSE Allow(g[n - 1], L[n])]
           f == CHOOSE g : Is(g)
<1>0. IsFiniteSet(S)  BY FS_Subset, CenterAssumption
<1>1. N \in Nat /\ L \in [1..N -> Runtimes]
  <2>1. N \in Nat /\ L \in [1..N -> S]  BY <1>0, ListedIs
  <2> HIDE DEF N, L
  <2> QED  BY <2>1
<1>2. AllowAll(t, S) = f[N]  BY DEF AllowAll
<1> HIDE DEF N, L
<1>3. op \in [1..N -> [MadeTables -> MadeTables]]  BY <1>1, AllowMakes
<1>4. \E g : Is(g)
  <2>1. PICK g : Stepped(N, MadeTables, t, op, g)
    <3> HIDE DEF op
    <3> QED  BY <1>1, <1>3, StepByStep
  <2>2. /\ g \in [0..N -> MadeTables]
        /\ g = [n \in 0..N |-> IF n = 0 THEN t ELSE op[n][g[n - 1]]]
    BY <2>1 DEF Stepped
  <2>3. ASSUME NEW n \in 0..N, n # 0 PROVE op[n][g[n - 1]] = Allow(g[n - 1], L[n])
    <3>1. n \in 1..N /\ n - 1 \in 0..N  BY <1>1, <2>3
    <3>2. g[n - 1] \in MadeTables  BY <2>2, <3>1
    <3> QED  BY <3>1, <3>2
  <2> HIDE DEF op
  <2>4. Is(g)  BY <2>2, <2>3
  <2> QED  BY <2>4
<1> HIDE DEF op
<1>5. Is(f)
  <2> HIDE DEF Is
  <2> QED  BY <1>4
<1> HIDE DEF f
<1>6. f[0] \in MadeTables  BY <1>1, <1>5
<1>7. ASSUME NEW n \in 1..N, f[n - 1] \in MadeTables PROVE f[n] \in MadeTables
  <2>1. n \in 0..N /\ n # 0  BY <1>1
  <2>2. f[n] = Allow(f[n - 1], L[n])  BY <1>5, <2>1
  <2> QED  BY <1>1, <1>7, <2>2, AllowMakes
<1> QED  BY <1>1, <1>2, <1>6, <1>7, StepsEnd

\* The preferred default is a configuration, or 0.
LEMMA PreferredTyped ==
    ASSUME NEW d \in Tables, NEW t
    PROVE  Preferred(d, t) \in 0..MaxConfigs
<1> DEFINE ofType == {i \in LiveOnes(d.config) : TypeOf[d.config[i].runtime] = t}
           seeds  == {i \in ofType : d.config[i].name \in Seeds}
           on     == {i \in ofType : d.config[i].on}
           S == IF seeds # {} THEN seeds ELSE IF on # {} THEN on ELSE ofType
<1>1. S \subseteq 1..MaxConfigs  BY LiveConfigs
<1>2. Preferred(d, t) = Lowest(S)  BY DEF Preferred
<1> HIDE DEF S
<1>3. S \in SUBSET Nat /\ 1..MaxConfigs \subseteq 0..MaxConfigs /\ 0 \in 0..MaxConfigs  BY <1>1, CenterBounds
<1>4. S # {} => Lowest(S) \in S  BY <1>3, LowestIn
<1>5. S = {} => Lowest(S) = 0  BY <1>3, LowestIn
<1> QED  BY <1>1, <1>2, <1>3, <1>4, <1>5

\* A start adds configurations and settings, and leaves the centre alone.
LEMMA StartedIs ==
    ASSUME NEW d \in SoundTables
    PROVE  LET e == Started(d)
           IN  /\ e \in SoundTables /\ e.model = d.model /\ e.provider = d.provider /\ e.channel = d.channel
               /\ e.policy = d.policy /\ e.entry = d.entry
<1> DEFINE x == AllowAll(SeedAll(d.config), d.settings.allowed)
           b == [d EXCEPT !.config = x]
           s == b.settings
           y == [s EXCEPT
                   !.def = [t \in Types |-> IF @[t] = 0 THEN Preferred(b, t) ELSE @[t]],
                   !.fallback = IF @ = 0 THEN Preferred(b, "image") ELSE @,
                   !.routing = @ \/ (s.fallback = 0 /\ \A t \in Types : s.def[t] = 0)]
           e == [b EXCEPT !.settings = y]
<1>1. d \in Tables /\ d.config \in MadeTables  BY SoundConfigs DEF SoundTables
<1>2. x \in MadeTables
  <2>1. d.settings.allowed \in SUBSET Runtimes  BY <1>1, TableFields DEF SettingsRow
  <2> QED  BY <1>1, <2>1, SeedAllMakes, AllowAllMakes
<1>3. Started(d) = SetDefaults(b)  BY DEF Started
<1> HIDE DEF x
<1>4. /\ b \in Tables /\ b.config = x /\ b.model = d.model /\ b.provider = d.provider
      /\ b.channel = d.channel /\ b.policy = d.policy /\ b.entry = d.entry
      /\ b.settings = d.settings
  BY <1>1, <1>2, SetConfig DEF MadeTables
<1> HIDE DEF b
<1>5. SetDefaults(b) = e  BY DEF SetDefaults
<1>6. s \in SettingsRow  BY <1>4, TableFields
<1>7. y \in SettingsRow
  <2> DEFINE def  == [t \in Types |-> IF s.def[t] = 0 THEN Preferred(b, t) ELSE s.def[t]]
             fall == IF s.fallback = 0 THEN Preferred(b, "image") ELSE s.fallback
             rout == s.routing \/ (s.fallback = 0 /\ \A t \in Types : s.def[t] = 0)
  <2>1. def \in [Types -> 0..MaxConfigs]  BY <1>4, <1>6, PreferredTyped DEF SettingsRow
  <2>2. fall \in 0..MaxConfigs  BY <1>4, <1>6, PreferredTyped DEF SettingsRow
  <2>3. rout \in BOOLEAN  BY <1>6 DEF SettingsRow
  <2>4. y = [s EXCEPT !.def = def, !.fallback = fall, !.routing = rout]  BY <1>6 DEF SettingsRow
  <2> HIDE DEF def, fall, rout, y, s
  <2> QED  BY <1>6, <2>1, <2>2, <2>3, <2>4 DEF SettingsRow
<1> HIDE DEF y
<1>8. /\ e \in Tables /\ e.config = b.config /\ e.model = b.model /\ e.provider = b.provider
      /\ e.policy = b.policy /\ e.entry = b.entry /\ e.channel = b.channel
  BY <1>4, <1>7, SetSettings
<1> HIDE DEF e
<1>9. e \in SoundTables  BY <1>2, <1>4, <1>8, SoundConfigs
<1> QED  BY <1>3, <1>4, <1>5, <1>8, <1>9

\* The empty centre is sound.
LEMMA EmptyIs == Empty \in SoundTables /\ OneEach(Empty) /\ Orphans(Empty) = {}
<1>1. /\ NoConfig \in ConfigRow /\ NoModel \in ModelRow /\ NoProvider \in ProviderRow
      /\ NoChannel \in ChannelRow /\ NoPolicy \in PolicyRow /\ NoEntry \in EntryRow
  BY CenterBounds, CenterAssumption DEF NoConfig, NoModel, NoProvider, NoChannel, NoPolicy, NoEntry, ConfigRow, ModelRow,
     ProviderRow, ChannelRow, PolicyRow, EntryRow, States, NameSet, KeySet, Types
<1> DEFINE s == [def |-> [t \in Types |-> 0], fallback |-> 0, routing |-> FALSE, allowed |-> {}]
<1>2. s \in SettingsRow  BY CenterBounds DEF SettingsRow
<1>3. Empty \in Tables
  <2> HIDE DEF s
  <2> QED  BY <1>1, <1>2 DEF Empty, s, Tables, ConfigTable, ModelTable, ProviderTable, ChannelTable, PolicyTable,
        EntryTable
<1>4. /\ Empty.config = [i \in 1..MaxConfigs |-> NoConfig]
      /\ Empty.channel = [ch \in 1..MaxChannels |-> NoChannel]
  BY DEF Empty
<1>5. NoConfig.st = "unmade" /\ NoChannel.st = "unmade" /\ NoChannel.config = 0  BY DEF NoConfig, NoChannel
<1>6. \A i \in 1..MaxConfigs : Empty.config[i].st = "unmade"  BY <1>4, <1>5
<1>7. \A ch \in 1..MaxChannels : Empty.channel[ch].st = "unmade" /\ Empty.channel[ch].config = 0  BY <1>4, <1>5
<1>8. Empty \in SoundTables  BY <1>3, <1>6 DEF SoundTables, MadeConfigs
<1>9. OneEach(Empty)  BY <1>7 DEF OneEach
<1>10. Orphans(Empty) = {}  BY <1>3, <1>7, LiveChannels DEF Orphans
<1> QED  BY <1>8, <1>9, <1>10

-----------------------------------------------------------------------------
(***************************************************************************)
(* The candidates are available.                                           *)
(***************************************************************************)

\* Whatever is left of some channels is available.
LEMMA ServedAre ==
    ASSUME NEW d \in Tables, NEW s \in Seq(Nat)
    PROVE  \A n \in DOMAIN Served(d, s) : Available(d, Served(d, s)[n])
<1> DEFINE N == Len(s)
           A == {ch \in 1..MaxChannels : Available(d, ch)}
           New(kept, n) == Available(d, s[n]) /\ \A k \in DOMAIN kept : kept[k] # s[n]
           F(kept, n) == IF New(kept, n) THEN Append(kept, s[n]) ELSE kept
           op == [n \in 1..N |-> [x \in Seq(A) |-> F(x, n)]]
           Is(g) == g = [n \in 0..N |-> IF n = 0 THEN <<>> ELSE F(g[n - 1], n)]
           f == CHOOSE g : Is(g)
<1>1. N \in Nat /\ <<>> \in Seq(A)  OBVIOUS
<1>2. Served(d, s) = f[N]  BY DEF Served
<1>3. \A x : Available(d, x) => x \in A  BY LiveChannels DEF Available
<1> HIDE DEF A
<1>4. ASSUME NEW x \in Seq(A), NEW n PROVE F(x, n) \in Seq(A)  BY <1>3
<1> HIDE DEF F, N
<1>5. op \in [1..N -> [Seq(A) -> Seq(A)]]  BY <1>4
<1>6. \E g : Is(g)
  <2>1. PICK g : Stepped(N, Seq(A), <<>>, op, g)
    <3> HIDE DEF op
    <3> QED  BY <1>1, <1>5, StepByStep
  <2>2. /\ g \in [0..N -> Seq(A)]
        /\ g = [n \in 0..N |-> IF n = 0 THEN <<>> ELSE op[n][g[n - 1]]]
    BY <2>1 DEF Stepped
  <2>3. ASSUME NEW n \in 0..N, n # 0 PROVE op[n][g[n - 1]] = F(g[n - 1], n)
    <3>1. n \in 1..N /\ n - 1 \in 0..N  BY <1>1, <2>3
    <3>2. g[n - 1] \in Seq(A)  BY <2>2, <3>1
    <3> QED  BY <3>1, <3>2
  <2> HIDE DEF op
  <2>4. Is(g)  BY <2>2, <2>3
  <2> QED  BY <2>4
<1> HIDE DEF op
<1>7. Is(f)
  <2> HIDE DEF Is
  <2> QED  BY <1>6
<1> HIDE DEF f
<1>8. f[0] \in Seq(A)  BY <1>1, <1>7
<1>9. ASSUME NEW n \in 1..N, f[n - 1] \in Seq(A) PROVE f[n] \in Seq(A)
  <2>1. n \in 0..N /\ n # 0  BY <1>1
  <2>2. f[n] = F(f[n - 1], n)  BY <1>7, <2>1
  <2> QED  BY <1>4, <1>9, <2>2
<1>10. f[N] \in Seq(A)  BY <1>1, <1>8, <1>9, StepsEnd
<1>11. \A n \in DOMAIN f[N] : f[N][n] \in A  BY <1>10
<1> QED  BY <1>2, <1>11 DEF A

\* What is looked through for candidates are numbers:
LEMMA ChannelOfTyped ==
    ASSUME NEW d \in Tables, NEW i
    PROVE  ChannelOf(d, i) \in Nat
<1> DEFINE S == {ch \in LiveOnes(d.channel) : i # 0 /\ d.channel[ch].config = i}
<1>1. S \subseteq 1..MaxChannels  BY LiveChannels
<1>2. S \in SUBSET Nat  BY <1>1
<1>3. ChannelOf(d, i) = Lowest(S)  BY DEF ChannelOf
<1> HIDE DEF S
<1>4. S # {} => Lowest(S) \in S  BY <1>2, LowestIn
<1>5. S = {} => Lowest(S) = 0  BY <1>2, LowestIn
<1>6. Lowest(S) \in Nat
  <2>1. CASE S = {}  BY <1>5, <2>1
  <2>2. CASE S # {}  BY <1>2, <1>4, <2>2
  <2> QED  BY <2>1, <2>2
<1> QED  BY <1>3, <1>6

\* channels in their order,
LEMMA InOrderIs ==
    ASSUME NEW S
    PROVE  InOrder(S) \in Seq(Nat)
<1>1. InOrder(S) \in [1..MaxChannels -> Nat]  BY CenterBounds DEF InOrder
<1>2. MaxChannels \in Nat  BY CenterBounds
<1> QED  BY <1>1, <1>2

\* and channels of configurations.
LEMMA OfConfigsIs ==
    ASSUME NEW d \in Tables
    PROVE  OfConfigs(d) \in Seq(Nat)
<1> DEFINE online == {i \in LiveOnes(d.config) : TypeOf[d.config[i].runtime] = "image" /\ d.config[i].on}
           channel(i) == IF i \in online THEN ChannelOf(d, i) ELSE 0
           x == <<channel(d.settings.def["image"]), channel(d.settings.fallback)>>
           y == [i \in 1..MaxConfigs |-> channel(i)]
<1>1. OfConfigs(d) = x \o y  BY DEF OfConfigs
<1>2. \A i : channel(i) \in Nat  BY ChannelOfTyped
<1> HIDE DEF channel
<1>3. x \in Seq(Nat)  BY <1>2
<1>4. y \in Seq(Nat)
  <2>1. y \in [1..MaxConfigs -> Nat]  BY <1>2
  <2>2. MaxConfigs \in Nat  BY CenterBounds
  <2> QED  BY <2>1, <2>2
<1> HIDE DEF x, y
<1> QED  BY <1>1, <1>3, <1>4

\* Every candidate of a generation is available, in all three kinds of routing.
LEMMA CandidatesAre ==
    ASSUME NEW d \in Tables, NEW t \in Types
    PROVE  \A n \in DOMAIN CandidatesFor(d, t) : Available(d, CandidatesFor(d, t)[n])
<1> DEFINE p    == d.policy[t]
           rest == IF p.routing THEN InOrder({ch \in DOMAIN d.channel : d.entry[t][ch].on}) ELSE <<>>
           s    == OfModel(d, t, p.def) \o OfModel(d, t, p.fallback) \o rest
<1>1. s \in Seq(Nat)
  <2>1. \A m : OfModel(d, t, m) \in Seq(Nat)  BY InOrderIs DEF OfModel
  <2>2. rest \in Seq(Nat)  BY InOrderIs
  <2> HIDE DEF rest, p
  <2> QED  BY <2>1, <2>2
<1>2. OfConfigs(d) \in Seq(Nat)  BY OfConfigsIs
<1>3. \/ CandidatesFor(d, t) = <<>>
      \/ CandidatesFor(d, t) = Served(d, OfConfigs(d))
      \/ CandidatesFor(d, t) = Served(d, s)
  BY DEF CandidatesFor
<1> HIDE DEF s
<1>4. CASE CandidatesFor(d, t) = <<>>  BY <1>4
<1>5. CASE CandidatesFor(d, t) = Served(d, OfConfigs(d))  BY <1>2, <1>5, ServedAre
<1>6. CASE CandidatesFor(d, t) = Served(d, s)  BY <1>1, <1>6, ServedAre
<1> QED  BY <1>3, <1>4, <1>5, <1>6

-----------------------------------------------------------------------------
(***************************************************************************)
(* Edits, and the invariant.                                               *)
(***************************************************************************)

\* The row of a channel that was loaded has the configuration of the channel.
LoadedRow(d, ch, row) ==
    /\ ch \in 1..MaxChannels /\ row \in ChannelRow /\ row.st = "live"
    /\ d.channel[ch].st # "unmade" /\ d.channel[ch].config = row.config

\* What an edit has loaded still fits the tables: rows it will save were made.
EditSound(d, x) ==
    /\ x.of = "model" => x.id \in 1..MaxModels /\ x.row \in ModelRow
    /\ x.of = "provider" => x.id \in 1..MaxProviders
    /\ x.of = "new channel" => x.row \in ChannelRow /\ x.row.st = "live" /\ x.row.config = 0
    /\ x.of = "channel" => LoadedRow(d, x.id, x.row)
    /\ x.of = "checked channel" =>
          LoadedRow(d, x.id, x.row.loaded) /\ x.row.model \in 1..MaxModels /\ x.row.provider \in 1..MaxProviders
    /\ x.of = "config" => x.id \in 1..MaxConfigs /\ x.row \in ConfigRow /\ x.row.st = "live"
    /\ x.of = "deletion" =>
          /\ x.id \in 1..MaxConfigs /\ d.config[x.id].st # "unmade"
          /\ x.row.settings \in SettingsRow /\ x.row.instead \in 0..MaxConfigs
          /\ InUse(x.row.settings, x.id) =>
                x.row.instead # 0 /\ d.config[x.row.instead].st # "unmade"
    /\ x.of = "defaults" =>
          /\ x.row.settings \in SettingsRow /\ x.row.runtime \in Runtimes
          /\ x.row.image \in 1..MaxConfigs /\ x.row.fallback \in 1..MaxConfigs /\ x.row.video \in 1..MaxConfigs

CenterInv ==
    /\ center \in SoundTables /\ OneEach(center)
    /\ strays \in SUBSET (1..MaxChannels) /\ synced \in BOOLEAN /\ edited \in 0..MaxSaves
    /\ Orphans(center) \subseteq strays
    /\ synced => Settled(center)
    /\ editing = [x \in Desks |-> editing[x]] /\ \A x \in Desks : EditSound(center, editing[x])

\* Configurations that were made stay.
ConfigsStay(d, e) ==
    \A i \in 1..MaxConfigs : d.config[i].st # "unmade" => e.config[i].st # "unmade"

\* Tables an edit may leave.
Succeeds(d, e) == e \in SoundTables /\ OneEach(e) /\ Keeps(d, e) /\ ConfigsStay(d, e)

\* An edit that was sound stays sound while the rows it names are kept.
LEMMA EditStays ==
    ASSUME NEW d \in Tables, NEW e, Keeps(d, e), ConfigsStay(d, e), NEW x, EditSound(d, x)
    PROVE  EditSound(e, x)
<1>1. \A ch, row : LoadedRow(d, ch, row) => LoadedRow(e, ch, row)  BY DEF LoadedRow, Keeps
<1>2. x.of = "deletion" =>
          /\ x.id \in 1..MaxConfigs /\ e.config[x.id].st # "unmade"
          /\ x.row.settings \in SettingsRow /\ x.row.instead \in 0..MaxConfigs
          /\ InUse(x.row.settings, x.id) =>
                x.row.instead # 0 /\ e.config[x.row.instead].st # "unmade"
  BY DEF EditSound, ConfigsStay
<1> QED  BY <1>1, <1>2 DEF EditSound

\* A synchronisation leaves tables an edit may leave,
LEMMA SyncFollows ==
    ASSUME NEW d \in SoundTables, OneEach(d)
    PROVE  Succeeds(d, SyncCenter(d))
BY SyncCenterIs DEF Succeeds, ConfigsStay

\* and so does doing nothing,
LEMMA SameFollows ==
    ASSUME NEW d \in SoundTables, OneEach(d)
    PROVE  Succeeds(d, d)
BY DEF Succeeds, Keeps, ConfigsStay

\* and one after the other.
LEMMA FollowsOn ==
    ASSUME NEW d, NEW e, NEW f, Succeeds(d, e), Succeeds(e, f)
    PROVE  Succeeds(d, f)
BY DEF Succeeds, Keeps, ConfigsStay

\* An edit in one step.
LEMMA ChangeKeeps ==
    ASSUME CenterInv, NEW d, Succeeds(center, d), Orphans(d) \subseteq strays, Change(d)
    PROVE  CenterInv'
<1>1. center' = d /\ editing' = editing /\ edited' = edited + 1 /\ edited < MaxSaves
      /\ synced' = FALSE /\ strays' = strays
  BY DEF Change
<1>2. edited' \in 0..MaxSaves  BY <1>1, CenterBounds DEF CenterInv
<1>3. \A x \in Desks : EditSound(d, editing[x])  BY EditStays DEF CenterInv, Succeeds, SoundTables
<1> QED  BY <1>1, <1>2, <1>3 DEF CenterInv, Succeeds

\* Loading keeps the invariant, whether it synchronises first or not.
LEMMA LoadKeeps ==
    ASSUME CenterInv, NEW desk \in Desks, NEW d, d = center \/ (d = SyncCenter(center) /\ Roomy(center)),
           NEW of, NEW id, NEW row, EditSound(d, [of |-> of, id |-> id, row |-> row]),
           Load(desk, d, of, id, row)
    PROVE  CenterInv'
<1> DEFINE new == [of |-> of, id |-> id, row |-> row]
<1>1. center' = d /\ editing' = [editing EXCEPT ![desk] = new] /\ edited' = edited + 1 /\ edited < MaxSaves
      /\ synced' = (synced /\ d = center) /\ strays' = strays
  BY DEF Load
<1>2. edited' \in 0..MaxSaves  BY <1>1, CenterBounds DEF CenterInv
<1>3. EditSound(d, new)  OBVIOUS
<1> HIDE DEF new
<1>4. Succeeds(center, d)  BY SyncFollows, SameFollows DEF CenterInv
<1>5. \A x \in Desks : EditSound(d, editing[x])  BY <1>4, EditStays DEF CenterInv, Succeeds, SoundTables
<1>6. Orphans(d) \subseteq strays  BY SyncCenterIs DEF CenterInv
<1>7. DOMAIN editing = Desks  BY DEF CenterInv
<1>8. editing' = [x \in Desks |-> editing'[x]] /\ \A x \in Desks : EditSound(d, editing'[x])
  BY <1>1, <1>3, <1>5, <1>7
<1>9. synced' => Settled(d)  BY <1>1 DEF CenterInv
<1>10. synced' \in BOOLEAN  BY <1>1
<1> QED  BY <1>1, <1>2, <1>4, <1>6, <1>8, <1>9, <1>10 DEF CenterInv, Succeeds

\* Loading without a synchronisation.
LEMMA LoadHere ==
    ASSUME CenterInv, NEW desk \in Desks, NEW of, NEW id, NEW row,
           EditSound(center, [of |-> of, id |-> id, row |-> row]), Load(desk, center, of, id, row)
    PROVE  CenterInv'
<1> DEFINE new == [of |-> of, id |-> id, row |-> row]
<1>1. center' = center /\ editing' = [editing EXCEPT ![desk] = new] /\ edited' = edited + 1
      /\ edited < MaxSaves /\ synced' = (synced /\ center = center) /\ strays' = strays
  BY DEF Load
<1>2. edited' \in 0..MaxSaves  BY <1>1, CenterBounds DEF CenterInv
<1>3. EditSound(center, new)  OBVIOUS
<1> HIDE DEF new
<1>4. DOMAIN editing = Desks  BY DEF CenterInv
<1>5. editing' = [x \in Desks |-> editing'[x]] /\ \A x \in Desks : EditSound(center, editing'[x])
  BY <1>1, <1>3, <1>4 DEF CenterInv
<1>6. synced' \in BOOLEAN /\ (synced' => synced)  BY <1>1
<1> QED  BY <1>1, <1>2, <1>5, <1>6 DEF CenterInv

\* Saving keeps it, if the tables may be left and what loses its provider is noted.
LEMMA SaveKeeps ==
    ASSUME CenterInv, NEW desk \in Desks, NEW d, Succeeds(center, d), NEW of, Save(desk, of, d),
           strays' \in SUBSET (1..MaxChannels), Orphans(d) \subseteq strays'
    PROVE  CenterInv'
<1>1. center' = d /\ editing' = [editing EXCEPT ![desk] = NoEdit] /\ edited' = edited /\ synced' = FALSE
  BY DEF Save
<1>2. \A x \in Desks : EditSound(d, editing[x])  BY EditStays DEF CenterInv, Succeeds, SoundTables
<1>3. EditSound(d, NoEdit)
  <2>1. NoEdit.of = "nothing"  BY DEF NoEdit
  <2> QED  BY <2>1 DEF EditSound
<1>4. DOMAIN editing = Desks  BY DEF CenterInv
<1>5. editing' = [x \in Desks |-> editing'[x]] /\ \A x \in Desks : EditSound(d, editing'[x])
  BY <1>1, <1>2, <1>3, <1>4
<1> QED  BY <1>1, <1>5 DEF CenterInv, Succeeds

\* Changes of one table that leave the channels alone.
LEMMA OtherTables ==
    ASSUME NEW d \in SoundTables, OneEach(d), NEW e \in SoundTables, e.channel = d.channel, e.config = d.config
    PROVE  /\ Succeeds(d, e)
           /\ LiveOnes(d.provider) \subseteq LiveOnes(e.provider) => Orphans(e) \subseteq Orphans(d)
BY DEF Succeeds, OneEach, Keeps, ConfigsStay, Orphans

\* Any table of models may be written,
LEMMA SoundModel ==
    ASSUME NEW d \in SoundTables, OneEach(d), NEW x \in ModelTable
    PROVE  /\ Succeeds(d, [d EXCEPT !.model = x])
           /\ Orphans([d EXCEPT !.model = x]) \subseteq Orphans(d)
<1> DEFINE e == [d EXCEPT !.model = x]
<1>1. e \in Tables /\ e.config = d.config /\ e.channel = d.channel /\ e.provider = d.provider
  BY SetModel DEF SoundTables
<1> HIDE DEF e
<1>2. e \in SoundTables  BY <1>1 DEF SoundTables, MadeConfigs
<1> QED  BY <1>1, <1>2, OtherTables DEF e

\* any table of providers that keeps the live ones,
LEMMA SoundProvider ==
    ASSUME NEW d \in SoundTables, OneEach(d), NEW x \in ProviderTable
    PROVE  /\ Succeeds(d, [d EXCEPT !.provider = x])
           /\ LiveOnes(d.provider) \subseteq LiveOnes(x)
                 => Orphans([d EXCEPT !.provider = x]) \subseteq Orphans(d)
<1> DEFINE e == [d EXCEPT !.provider = x]
<1>1. e \in Tables /\ e.config = d.config /\ e.channel = d.channel /\ e.provider = x
  BY SetProvider DEF SoundTables
<1> HIDE DEF e
<1>2. e \in SoundTables  BY <1>1 DEF SoundTables, MadeConfigs
<1> QED  BY <1>1, <1>2, OtherTables DEF e

\* any settings,
LEMMA SoundSettings ==
    ASSUME NEW d \in SoundTables, OneEach(d), NEW x \in SettingsRow
    PROVE  /\ Succeeds(d, [d EXCEPT !.settings = x])
           /\ Orphans([d EXCEPT !.settings = x]) \subseteq Orphans(d)
<1> DEFINE e == [d EXCEPT !.settings = x]
<1>1. e \in Tables /\ e.config = d.config /\ e.channel = d.channel /\ e.provider = d.provider
  BY SetSettings DEF SoundTables
<1> HIDE DEF e
<1>2. e \in SoundTables  BY <1>1 DEF SoundTables, MadeConfigs
<1> QED  BY <1>1, <1>2, OtherTables DEF e

\* and any configurations that forget none.
LEMMA SoundConfig ==
    ASSUME NEW d \in SoundTables, OneEach(d), NEW x \in MadeTables,
           \A i \in 1..MaxConfigs : d.config[i].st # "unmade" => x[i].st # "unmade"
    PROVE  LET e == [d EXCEPT !.config = x]
           IN  /\ Succeeds(d, e) /\ e.settings = d.settings /\ e.config = x
               /\ Orphans(e) \subseteq Orphans(d)
<1> DEFINE e == [d EXCEPT !.config = x]
<1>1. e \in Tables /\ e.config = x /\ e.channel = d.channel /\ e.provider = d.provider /\ e.settings = d.settings
  BY SetConfig DEF SoundTables, MadeTables
<1> HIDE DEF e
<1>2. e \in SoundTables  BY <1>1, SoundConfigs
<1>3. Succeeds(d, e) /\ Orphans(e) \subseteq Orphans(d)
  BY <1>1, <1>2 DEF Succeeds, OneEach, Keeps, ConfigsStay, Orphans
<1> QED  BY <1>1, <1>3 DEF e

\* A channel that was not made, or that keeps its configuration.
LEMMA SoundChannel ==
    ASSUME NEW d \in SoundTables, OneEach(d), NEW ch \in 1..MaxChannels, NEW x \in ChannelRow, x.st = "live",
           \/ d.channel[ch].st = "unmade" /\ x.config = 0
           \/ d.channel[ch].st # "unmade" /\ d.channel[ch].config = x.config
    PROVE  LET e == [d EXCEPT !.channel[ch] = x]
           IN  /\ Succeeds(d, e) /\ e.config = d.config
               /\ Orphans(e) \subseteq Orphans(d) \cup {ch}
               /\ x.provider \in LiveOnes(d.provider) => Orphans(e) \subseteq Orphans(d)
<1> DEFINE y == [d.channel EXCEPT ![ch] = x]
           e == [d EXCEPT !.channel = y]
<1>0. [d EXCEPT !.channel[ch] = x] = e  OBVIOUS
<1>1. d \in Tables /\ d.channel \in ChannelTable /\ DOMAIN d.channel = 1..MaxChannels
  BY TableFields DEF SoundTables, ChannelTable
<1>2. y \in ChannelTable /\ y[ch] = x /\ \A k \in 1..MaxChannels : k # ch => y[k] = d.channel[k]
  BY <1>1 DEF ChannelTable
<1> HIDE DEF y
<1>3. e \in Tables /\ e.config = d.config /\ e.channel = y /\ e.provider = d.provider
  BY <1>1, <1>2, SetChannel
<1> HIDE DEF e
<1>4. e \in SoundTables  BY <1>3 DEF SoundTables, MadeConfigs
<1>5. \A k \in 1..MaxChannels : e.channel[k].config = d.channel[k].config
  BY <1>2, <1>3 DEF OneEach
<1>6. OneEach(e)  BY <1>2, <1>3, <1>5 DEF OneEach
<1>7. Keeps(d, e)  BY <1>2, <1>3, <1>5 DEF Keeps
<1>8. Succeeds(d, e)  BY <1>3, <1>4, <1>6, <1>7 DEF Succeeds, ConfigsStay
<1>9. /\ Orphans(e) \subseteq Orphans(d) \cup {ch}
      /\ x.provider \in LiveOnes(d.provider) => Orphans(e) \subseteq Orphans(d)
  BY <1>1, <1>2, <1>3, LiveChannels DEF Orphans
<1> QED  BY <1>0, <1>3, <1>8, <1>9

-----------------------------------------------------------------------------
(***************************************************************************)
(* The actions.                                                            *)
(***************************************************************************)

\* The next row is in the table and unmade.
LEMMA FreeRow ==
    ASSUME NEW N \in Nat, NEW t, DOMAIN t = 1..N, NextRow(t) # 0
    PROVE  NextRow(t) \in 1..N /\ t[NextRow(t)].st = "unmade"
<1>1. NextRow(t) \in Rows(t, "unmade") /\ NextRow(t) \in 0..N  BY RowsAre
<1> QED  BY <1>1 DEF Rows

\* What every step needs of the invariant.
LEMMA CenterFacts ==
    ASSUME CenterInv
    PROVE  /\ center \in SoundTables /\ center \in Tables /\ OneEach(center)
           /\ SyncCenter(center) \in SoundTables /\ SyncCenter(center) \in Tables /\ OneEach(SyncCenter(center))
           /\ Succeeds(center, SyncCenter(center)) /\ Succeeds(center, center)
           /\ Orphans(center) \subseteq strays /\ Orphans(SyncCenter(center)) \subseteq strays
BY SyncCenterIs, SyncFollows, SameFollows DEF CenterInv, SoundTables

\* The first synchronisation establishes the invariant.
LEMMA InitCenter == CenterInit => CenterInv
<1> SUFFICES ASSUME CenterInit PROVE CenterInv  OBVIOUS
<1> DEFINE d == Started(Empty)
<1>1. d \in SoundTables /\ d.channel = Empty.channel /\ d.provider = Empty.provider
  BY EmptyIs, StartedIs
<1>2. OneEach(d) /\ Orphans(d) = {}  BY <1>1, EmptyIs DEF OneEach, Orphans
<1>3. center = SyncCenter(d) /\ Roomy(d)  BY DEF CenterInit
<1> HIDE DEF d
<1>4. center \in SoundTables /\ OneEach(center) /\ Orphans(center) = {} /\ Settled(center)
  BY <1>1, <1>2, <1>3, SyncCenterIs
<1>5. strays = {} /\ synced \in BOOLEAN /\ edited \in 0..MaxSaves
  <2>1. strays = {} /\ synced = TRUE /\ edited = 0  BY DEF CenterInit
  <2>2. synced \in BOOLEAN  BY <2>1
  <2> QED  BY <2>1, <2>2, CenterBounds
<1>6. editing = [x \in Desks |-> NoEdit]  BY DEF CenterInit
<1>7. EditSound(center, NoEdit)
  <2>1. NoEdit.of = "nothing"  BY DEF NoEdit
  <2> QED  BY <2>1 DEF EditSound
<1>8. editing = [x \in Desks |-> editing[x]] /\ \A x \in Desks : EditSound(center, editing[x])
  BY <1>6, <1>7
<1> QED  BY <1>4, <1>5, <1>8 DEF CenterInv

\* One lemma per action: a start brings seeds and defaults, and drops edits.
LEMMA RestartKeeps == ASSUME CenterInv, RestartCenter PROVE CenterInv'
<1> DEFINE d == Started(center)
<1>1. center' = d /\ editing' = [x \in Desks |-> NoEdit] /\ edited' = edited + 1 /\ edited < MaxSaves
      /\ synced' = FALSE /\ strays' = strays
  BY DEF RestartCenter
<1>2. edited' \in 0..MaxSaves  BY <1>1, CenterBounds DEF CenterInv
<1>3. d \in SoundTables /\ d.channel = center.channel /\ d.provider = center.provider
  BY StartedIs DEF CenterInv
<1> HIDE DEF d
<1>4. OneEach(d) /\ Orphans(d) \subseteq strays  BY <1>3 DEF CenterInv, OneEach, Orphans
<1>5. EditSound(d, NoEdit)
  <2>1. NoEdit.of = "nothing"  BY DEF NoEdit
  <2> QED  BY <2>1 DEF EditSound
<1>6. editing' = [x \in Desks |-> editing'[x]] /\ \A x \in Desks : EditSound(d, editing'[x])
  BY <1>1, <1>5
<1> QED  BY <1>1, <1>2, <1>3, <1>4, <1>6 DEF CenterInv

\* A synchronisation with room settles every configuration.
LEMMA UseKeeps == ASSUME CenterInv, UseCenter PROVE CenterInv'
<1> DEFINE d == SyncCenter(center)
<1>1. center' = d /\ editing' = editing /\ edited' = edited /\ synced' = TRUE /\ strays' = strays
      /\ Roomy(center)
  BY DEF UseCenter
<1>2. Succeeds(center, d) /\ Orphans(d) \subseteq strays  BY CenterFacts
<1>3. Settled(d)  BY <1>1, SyncCenterIs DEF CenterInv
<1> HIDE DEF d
<1>4. \A x \in Desks : EditSound(d, editing[x])  BY <1>2, EditStays DEF CenterInv, Succeeds, SoundTables
<1> QED  BY <1>1, <1>2, <1>3, <1>4 DEF CenterInv, Succeeds

LEMMA CreateModelKeeps == ASSUME CenterInv, CreateModel PROVE CenterInv'
<1> DEFINE d == SyncCenter(center)
           n == NextRow(d.model)
<1>1. PICK name \in Names, type \in Types :
        /\ n # 0 /\ Change([d EXCEPT !.model[n] = [st |-> "live", name |-> name, type |-> type]])
  BY DEF CreateModel
<1> DEFINE row == [st |-> "live", name |-> name, type |-> type]
           x == [d.model EXCEPT ![n] = row]
           e == [d EXCEPT !.model = x]
<1>2. d \in SoundTables /\ d \in Tables /\ OneEach(d) /\ Succeeds(center, d) /\ Orphans(d) \subseteq strays
  BY CenterFacts
<1> HIDE DEF d
<1>3. row \in ModelRow  BY DEF ModelRow, States, NameSet
<1>4. Change(e)
  <2>1. [d EXCEPT !.model[n] = row] = e  OBVIOUS
  <2> QED  BY <1>1, <2>1
<1> HIDE DEF row, n
<1>5. x \in ModelTable  BY <1>2, <1>3, TableFields DEF ModelTable
<1> HIDE DEF x
<1>6. Succeeds(d, e) /\ Orphans(e) \subseteq strays  BY <1>2, <1>5, SoundModel
<1> HIDE DEF e
<1>7. Succeeds(center, e)  BY <1>2, <1>6, FollowsOn
<1> QED  BY <1>4, <1>6, <1>7, ChangeKeeps

LEMMA LoadModelKeeps == ASSUME CenterInv, NEW desk \in Desks, LoadModel(desk) PROVE CenterInv'
<1>1. PICK m \in LiveOnes(center.model) : Load(desk, SyncCenter(center), "model", m, center.model[m])
  BY DEF LoadModel
<1>2. Roomy(center)  BY DEF LoadModel
<1>3. m \in 1..MaxModels /\ center.model[m] \in ModelRow
  BY CenterFacts, LiveModels, TableFields DEF ModelTable
<1> DEFINE x == [of |-> "model", id |-> m, row |-> center.model[m]]
<1>4. EditSound(SyncCenter(center), x)
  <2>1. x.of = "model" /\ x.id = m /\ x.row = center.model[m]  OBVIOUS
  <2> HIDE DEF x
  <2> QED  BY <1>3, <2>1 DEF EditSound
<1> QED  BY <1>1, <1>2, <1>4, LoadKeeps

LEMMA SaveModelKeeps == ASSUME CenterInv, NEW desk \in Desks, SaveModel(desk) PROVE CenterInv'
<1> DEFINE m == editing[desk].id
           r == editing[desk].row
<1>1. PICK type \in Types :
        Save(desk, "model", [center EXCEPT !.model[m] = [r EXCEPT !.type = type]]) /\ strays' = strays
  BY DEF SaveModel
<1> DEFINE row == [r EXCEPT !.type = type]
           x == [center.model EXCEPT ![m] = row]
           e == [center EXCEPT !.model = x]
<1>2. editing[desk].of = "model"  BY <1>1 DEF Save
<1>3. r \in ModelRow  BY <1>2 DEF CenterInv, EditSound
<1>4. row \in ModelRow  BY <1>3 DEF ModelRow
<1>5. center \in SoundTables /\ center \in Tables /\ OneEach(center) /\ Orphans(center) \subseteq strays
  BY CenterFacts
<1>6. Save(desk, "model", e) /\ strays' = strays
  <2>1. [center EXCEPT !.model[m] = row] = e  OBVIOUS
  <2> QED  BY <1>1, <2>1
<1> HIDE DEF row, m
<1>7. x \in ModelTable  BY <1>4, <1>5, TableFields DEF ModelTable
<1> HIDE DEF x
<1>8. Succeeds(center, e) /\ Orphans(e) \subseteq strays  BY <1>5, <1>7, SoundModel
<1> HIDE DEF e
<1>9. strays' \in SUBSET (1..MaxChannels)  BY <1>6 DEF CenterInv
<1> QED  BY <1>6, <1>8, <1>9, SaveKeeps

\* Marking rows as deleted keeps the types of the table: models,
LEMMA DeletedModels ==
    ASSUME NEW t \in ModelTable, NEW S
    PROVE  Deleted(t, S) \in ModelTable
<1>1. DOMAIN t = 1..MaxModels  BY DEF ModelTable
<1>2. \A i \in 1..MaxModels : [t[i] EXCEPT !.st = "deleted"] \in ModelRow /\ t[i] \in ModelRow
  BY DEF ModelTable, ModelRow, States
<1> QED  BY <1>1, <1>2 DEF Deleted, ModelTable

\* providers,
LEMMA DeletedProviders ==
    ASSUME NEW t \in ProviderTable, NEW S
    PROVE  /\ Deleted(t, S) \in ProviderTable
           /\ \A i \in 1..MaxProviders : i \notin S => Deleted(t, S)[i] = t[i]
<1>1. DOMAIN t = 1..MaxProviders  BY DEF ProviderTable
<1>2. \A i \in 1..MaxProviders : [t[i] EXCEPT !.st = "deleted"] \in ProviderRow /\ t[i] \in ProviderRow
  BY DEF ProviderTable, ProviderRow, States
<1> QED  BY <1>1, <1>2 DEF Deleted, ProviderTable

\* and configurations.
LEMMA DeletedConfigs ==
    ASSUME NEW t \in MadeTables, NEW i \in 1..MaxConfigs, t[i].st # "unmade"
    PROVE  /\ Deleted(t, {i}) \in MadeTables
           /\ \A k \in 1..MaxConfigs : t[k].st # "unmade" => Deleted(t, {i})[k].st # "unmade"
<1>1. DOMAIN t = 1..MaxConfigs /\ t \in ConfigTable  BY DEF MadeTables, ConfigTable
<1>2. \A k \in 1..MaxConfigs :
         LET y == [t[k] EXCEPT !.st = "deleted"]
         IN  y \in ConfigRow /\ y.st = "deleted" /\ y.runtime = t[k].runtime /\ t[k] \in ConfigRow
  BY <1>1 DEF ConfigTable, ConfigRow, States
<1>3. Deleted(t, {i}) \in ConfigTable  BY <1>1, <1>2 DEF Deleted, ConfigTable
<1>4. \A k \in 1..MaxConfigs :
         Deleted(t, {i})[k] = IF k = i THEN [t[k] EXCEPT !.st = "deleted"] ELSE t[k]
  BY <1>1 DEF Deleted
<1> QED  BY <1>2, <1>3, <1>4 DEF MadeTables

LEMMA DeleteModelKeeps == ASSUME CenterInv, DeleteModel PROVE CenterInv'
<1>1. PICK m \in LiveOnes(center.model) : Change([center EXCEPT !.model = Deleted(@, {m})])
  BY DEF DeleteModel
<1> DEFINE x == Deleted(center.model, {m})
           e == [center EXCEPT !.model = x]
<1>2. center \in SoundTables /\ center \in Tables /\ OneEach(center) /\ Orphans(center) \subseteq strays
  BY CenterFacts
<1>3. Change(e)
  <2>1. [center EXCEPT !.model = Deleted(@, {m})] = e  OBVIOUS
  <2> QED  BY <1>1, <2>1
<1>4. x \in ModelTable  BY <1>2, TableFields, DeletedModels
<1> HIDE DEF x
<1>5. Succeeds(center, e) /\ Orphans(e) \subseteq strays  BY <1>2, <1>4, SoundModel
<1> HIDE DEF e
<1> QED  BY <1>3, <1>5, ChangeKeeps

\* A written provider is live, and the others stay.
LEMMA WrittenProvider ==
    ASSUME NEW d \in SoundTables, OneEach(d), NEW p, NEW key \in KeySet, NEW on \in BOOLEAN
    PROVE  LET e == [d EXCEPT !.provider[p] = [st |-> "live", key |-> key, on |-> on]]
           IN  Succeeds(d, e) /\ Orphans(e) \subseteq Orphans(d)
<1> DEFINE row == [st |-> "live", key |-> key, on |-> on]
           x == [d.provider EXCEPT ![p] = row]
           e == [d EXCEPT !.provider = x]
<1>1. [d EXCEPT !.provider[p] = row] = e  OBVIOUS
<1>2. d.provider \in ProviderTable /\ DOMAIN d.provider = 1..MaxProviders
  BY TableFields DEF SoundTables, ProviderTable
<1>3. row \in ProviderRow /\ row.st = "live"  BY DEF ProviderRow, States
<1> HIDE DEF row
<1>4. x \in ProviderTable  BY <1>2, <1>3 DEF ProviderTable
<1>5. \A k \in LiveOnes(d.provider) : k \in LiveOnes(x)
  BY <1>2, <1>3 DEF LiveOnes, Rows
<1> HIDE DEF x
<1>6. Succeeds(d, e) /\ Orphans(e) \subseteq Orphans(d)  BY <1>4, <1>5, SoundProvider
<1> QED  BY <1>1, <1>6 DEF row

LEMMA CreateProviderKeeps == ASSUME CenterInv, CreateProvider PROVE CenterInv'
<1> DEFINE n == NextRow(center.provider)
<1>1. PICK key \in ProviderKeys :
        Change([center EXCEPT !.provider[n] = [st |-> "live", key |-> key, on |-> TRUE]])
  BY DEF CreateProvider
<1>2. key \in KeySet  BY DEF KeySet
<1> DEFINE e == [center EXCEPT !.provider[n] = [st |-> "live", key |-> key, on |-> TRUE]]
<1> HIDE DEF n
<1>3. Succeeds(center, e) /\ Orphans(e) \subseteq strays  BY <1>2, CenterFacts, WrittenProvider
<1>4. Change(e)  BY <1>1
<1> HIDE DEF e
<1> QED  BY <1>3, <1>4, ChangeKeeps

LEMMA LoadProviderKeeps == ASSUME CenterInv, NEW desk \in Desks, LoadProvider(desk) PROVE CenterInv'
<1>1. PICK p \in LiveOnes(center.provider) : Load(desk, center, "provider", p, center.provider[p])
  BY DEF LoadProvider
<1>2. p \in 1..MaxProviders  BY CenterFacts, LiveProviders
<1> DEFINE x == [of |-> "provider", id |-> p, row |-> center.provider[p]]
<1>3. EditSound(center, x)
  <2>1. x.of = "provider" /\ x.id = p  OBVIOUS
  <2> HIDE DEF x
  <2> QED  BY <1>2, <2>1 DEF EditSound
<1> QED  BY <1>1, <1>3, LoadHere

\* A saved provider is live, so no channel loses its own.
LEMMA SaveProviderKeeps == ASSUME CenterInv, NEW desk \in Desks, SaveProvider(desk) PROVE CenterInv'
<1> DEFINE p == editing[desk].id
<1>1. PICK key \in ProviderKeys, on \in BOOLEAN :
        Save(desk, "provider", [center EXCEPT !.provider[p] = [st |-> "live", key |-> key, on |-> on]])
        /\ strays' = strays
  BY DEF SaveProvider
<1>2. key \in KeySet  BY DEF KeySet
<1> DEFINE e == [center EXCEPT !.provider[p] = [st |-> "live", key |-> key, on |-> on]]
<1> HIDE DEF p
<1>3. Succeeds(center, e) /\ Orphans(e) \subseteq strays  BY <1>2, CenterFacts, WrittenProvider
<1>4. Save(desk, "provider", e) /\ strays' = strays  BY <1>1
<1>5. strays' \in SUBSET (1..MaxChannels)  BY <1>4 DEF CenterInv
<1> HIDE DEF e
<1> QED  BY <1>3, <1>4, <1>5, SaveKeeps

\* The removal of channels.
LEMMA RemovedFollow ==
    ASSUME NEW d \in SoundTables, OneEach(d), NEW S
    PROVE  LET e == RemoveChannels(d, S)
           IN  /\ Succeeds(d, e) /\ e.provider = d.provider
               /\ Orphans(e) \subseteq Orphans(d)
               /\ \A ch \in LiveOnes(e.channel) :
                     ch \in LiveOnes(d.channel) /\ ch \notin S /\ e.channel[ch] = d.channel[ch]
<1> DEFINE e == RemoveChannels(d, S)
<1>0. d \in Tables  BY DEF SoundTables
<1>1. /\ e \in Tables /\ e.config = d.config /\ e.provider = d.provider
      /\ e.channel = Deleted(d.channel, S)
  BY <1>0, ChannelsRemoved
<1> HIDE DEF e
<1>2. \A ch \in 1..MaxChannels :
         /\ ch \notin S => e.channel[ch] = d.channel[ch]
         /\ e.channel[ch].st = IF ch \in S THEN "deleted" ELSE d.channel[ch].st
         /\ e.channel[ch].config = d.channel[ch].config
         /\ e.channel[ch].provider = d.channel[ch].provider
  BY <1>0, <1>1, DeletedRows, TableFields
<1>3. e \in SoundTables  BY <1>1 DEF SoundTables, MadeConfigs
<1>4. OneEach(e) /\ Keeps(d, e) /\ ConfigsStay(d, e)  BY <1>1, <1>2 DEF OneEach, Keeps, ConfigsStay
<1>5. \A ch \in LiveOnes(e.channel) :
         ch \in LiveOnes(d.channel) /\ ch \notin S /\ e.channel[ch] = d.channel[ch]
  BY <1>0, <1>1, <1>2, LiveChannels
<1>6. Orphans(e) \subseteq Orphans(d)  BY <1>1, <1>5 DEF Orphans
<1> QED  BY <1>1, <1>3, <1>4, <1>5, <1>6 DEF Succeeds, e

\* The deletion of a provider takes the live channels along.
LEMMA DeleteProviderKeeps == ASSUME CenterInv, DeleteProvider PROVE CenterInv'
<1>1. PICK p \in LiveOnes(center.provider) :
        LET served == {ch \in LiveOnes(center.channel) : center.channel[ch].provider = p}
        IN  Change([RemoveChannels(center, served) EXCEPT !.provider = Deleted(@, {p})])
  BY DEF DeleteProvider
<1> DEFINE served == {ch \in LiveOnes(center.channel) : center.channel[ch].provider = p}
           b == RemoveChannels(center, served)
           x == Deleted(b.provider, {p})
           e == [b EXCEPT !.provider = x]
<1>2. Change(e)
  <2>1. [b EXCEPT !.provider = Deleted(@, {p})] = e  OBVIOUS
  <2> QED  BY <1>1, <2>1
<1>3. center \in SoundTables /\ center \in Tables /\ OneEach(center) /\ Orphans(center) \subseteq strays
  BY CenterFacts
<1>4. /\ Succeeds(center, b) /\ b.provider = center.provider
      /\ Orphans(b) \subseteq Orphans(center)
      /\ \A ch \in LiveOnes(b.channel) :
            ch \in LiveOnes(center.channel) /\ ch \notin served /\ b.channel[ch] = center.channel[ch]
  <2> HIDE DEF served
  <2> QED  BY <1>3, RemovedFollow
<1>5. \A ch \in LiveOnes(b.channel) : b.channel[ch].provider # p
  BY <1>4
<1> HIDE DEF served, b
<1>6. b \in SoundTables /\ b \in Tables /\ OneEach(b)  BY <1>4 DEF Succeeds, SoundTables
<1>7. x \in ProviderTable /\ \A k \in 1..MaxProviders : k # p => x[k] = b.provider[k]
  BY <1>6, TableFields, DeletedProviders
<1> HIDE DEF x
<1>8. Succeeds(b, e)  BY <1>6, <1>7, SoundProvider
<1>9. e \in Tables /\ e.provider = x /\ e.channel = b.channel  BY <1>6, <1>7, SetProvider
<1> HIDE DEF e
<1>10. Orphans(e) \subseteq strays
  <2>1. Orphans(b) \subseteq strays  BY <1>3, <1>4
  <2>2. ASSUME NEW ch \in LiveOnes(b.channel), ch \notin strays
        PROVE  b.channel[ch].provider \in LiveOnes(e.provider)
    <3>1. b.channel[ch].provider \in LiveOnes(b.provider) /\ b.channel[ch].provider # p
      BY <1>5, <2>1, <2>2 DEF Orphans
    <3>2. b.channel[ch].provider \in 1..MaxProviders /\ b.provider[b.channel[ch].provider].st = "live"
      BY <1>6, <3>1, LiveProviders
    <3>3. x[b.channel[ch].provider].st = "live"  BY <1>7, <3>1, <3>2
    <3> QED  BY <1>9, <3>2, <3>3, LiveProviders
  <2> QED  BY <1>9, <2>2 DEF Orphans
<1>11. Succeeds(center, e)  BY <1>4, <1>8, FollowsOn
<1> QED  BY <1>2, <1>10, <1>11, ChangeKeeps

LEMMA DeleteChannelKeeps == ASSUME CenterInv, DeleteChannel PROVE CenterInv'
<1>1. PICK ch \in LiveOnes(center.channel) : Change(RemoveChannels(center, {ch}))  BY DEF DeleteChannel
<1> DEFINE e == RemoveChannels(center, {ch})
<1>2. Succeeds(center, e) /\ Orphans(e) \subseteq strays  BY CenterFacts, RemovedFollow
<1>3. Change(e)  BY <1>1
<1> HIDE DEF e
<1> QED  BY <1>2, <1>3, ChangeKeeps

LEMMA LoadForChannelKeeps == ASSUME CenterInv, NEW desk \in Desks, LoadForChannel(desk) PROVE CenterInv'
<1> DEFINE d == SyncCenter(center)
           Row(m, p) == [NoChannel EXCEPT !.st = "live", !.model = m, !.provider = p, !.on = TRUE]
<1>1. PICK m \in LiveOnes(d.model), p \in LiveOnes(d.provider) : Load(desk, d, "new channel", 0, Row(m, p))
  BY DEF LoadForChannel
<1>2. Roomy(center)  BY DEF LoadForChannel
<1> DEFINE r == Row(m, p)
           x == [of |-> "new channel", id |-> 0, row |-> r]
<1>3. m \in 0..MaxModels /\ p \in 0..MaxProviders
  <2>1. m \in 1..MaxModels /\ p \in 1..MaxProviders  BY CenterFacts, LiveModels, LiveProviders
  <2> QED  BY <2>1
<1>4. r \in ChannelRow /\ r.st = "live" /\ r.config = 0
  <2>1. NoChannel \in ChannelRow /\ NoChannel.config = 0
    BY CenterBounds DEF NoChannel, ChannelRow, States
  <2> QED  BY <1>3, <2>1 DEF ChannelRow, States
<1>5. Load(desk, d, "new channel", 0, r)  BY <1>1
<1> HIDE DEF r, d
<1>6. EditSound(d, x)
  <2>1. x.of = "new channel" /\ x.row = r  OBVIOUS
  <2> HIDE DEF x
  <2> QED  BY <1>4, <2>1 DEF EditSound
<1> QED  BY <1>2, <1>5, <1>6, LoadKeeps DEF d

\* Writing a channel keeps the invariant, whatever became of its provider.
LEMMA WriteChannelKeeps ==
    ASSUME CenterInv, NEW desk \in Desks, NEW ch \in 1..MaxChannels, NEW x \in ChannelRow, x.st = "live",
           \/ center.channel[ch].st = "unmade" /\ x.config = 0
           \/ center.channel[ch].st # "unmade" /\ center.channel[ch].config = x.config,
           NEW t \in MadeTables,
           \A k \in 1..MaxConfigs : center.config[k].st # "unmade" => t[k].st # "unmade",
           WriteChannel(desk, ch, x, t)
    PROVE  CenterInv'
<1> DEFINE d == [center EXCEPT !.channel[ch] = x]
           e == [d EXCEPT !.config = t]
<1>1. /\ Save(desk, editing[desk].of, e)
      /\ strays' = IF x.provider \in LiveOnes(center.provider) THEN strays ELSE strays \cup {ch}
  BY DEF WriteChannel
<1>2. center \in SoundTables /\ OneEach(center) /\ Orphans(center) \subseteq strays  BY CenterFacts
<1>3. /\ Succeeds(center, d) /\ d.config = center.config
      /\ Orphans(d) \subseteq Orphans(center) \cup {ch}
      /\ x.provider \in LiveOnes(center.provider) => Orphans(d) \subseteq Orphans(center)
  BY <1>2, SoundChannel
<1> HIDE DEF d
<1>4. Succeeds(d, e) /\ Orphans(e) \subseteq Orphans(d)  BY <1>3, SoundConfig DEF Succeeds
<1> HIDE DEF e
<1>5. Succeeds(center, e)  BY <1>3, <1>4, FollowsOn
<1>6. Orphans(e) \subseteq strays'  BY <1>1, <1>2, <1>3, <1>4
<1>7. strays' \in SUBSET (1..MaxChannels)  BY <1>1 DEF CenterInv
<1> QED  BY <1>1, <1>5, <1>6, <1>7, SaveKeeps

LEMMA CreateChannelKeeps == ASSUME CenterInv, NEW desk \in Desks, CreateChannel(desk) PROVE CenterInv'
<1> DEFINE n == NextRow(center.channel)
           q == editing[desk].row
           Row(r) == [q EXCEPT !.runtime = r]
<1>1. PICK r \in Runtimes : WriteChannel(desk, n, Row(r), center.config)  BY DEF CreateChannel
<1>2. n # 0 /\ editing[desk].of = "new channel"  BY DEF CreateChannel
<1>3. q \in ChannelRow /\ q.st = "live" /\ q.config = 0  BY <1>2 DEF CenterInv, EditSound
<1> DEFINE x == Row(r)
<1>4. x \in ChannelRow /\ x.st = "live" /\ x.config = 0  BY <1>3 DEF ChannelRow
<1>5. n \in 1..MaxChannels /\ center.channel[n].st = "unmade"
  <2>1. DOMAIN center.channel = 1..MaxChannels  BY CenterFacts, TableFields DEF ChannelTable
  <2> QED  BY <1>2, <2>1, FreeRow, CenterBounds
<1>6. center.config \in MadeTables  BY CenterFacts, SoundConfigs
<1>7. WriteChannel(desk, n, x, center.config)  BY <1>1
<1> HIDE DEF n, x
<1> QED  BY <1>4, <1>5, <1>6, <1>7, WriteChannelKeeps

LEMMA LoadChannelKeeps == ASSUME CenterInv, NEW desk \in Desks, LoadChannel(desk) PROVE CenterInv'
<1> DEFINE d == SyncCenter(center)
<1>1. PICK ch \in LiveOnes(d.channel) : Load(desk, d, "channel", ch, d.channel[ch])
  BY DEF LoadChannel
<1>2. Roomy(center)  BY DEF LoadChannel
<1> DEFINE x == [of |-> "channel", id |-> ch, row |-> d.channel[ch]]
<1>3. ch \in 1..MaxChannels /\ d.channel[ch].st = "live" /\ d.channel[ch] \in ChannelRow
  <2>1. d \in Tables  BY CenterFacts
  <2> HIDE DEF d
  <2> QED  BY <2>1, LiveChannels, TableFields DEF ChannelTable
<1> HIDE DEF d
<1>4. EditSound(d, x)
  <2>1. x.of = "channel" /\ x.id = ch /\ x.row = d.channel[ch]  OBVIOUS
  <2> HIDE DEF x
  <2> QED  BY <1>3, <2>1 DEF EditSound, LoadedRow
<1> QED  BY <1>1, <1>2, <1>4, LoadKeeps DEF d

\* Writing a row that was made keeps the table.
LEMMA WrittenConfig ==
    ASSUME NEW t \in MadeTables, NEW i, NEW x \in ConfigRow, x.runtime \in Runtimes,
           x.st # "unmade"
    PROVE  /\ [t EXCEPT ![i] = x] \in MadeTables
           /\ \A k \in 1..MaxConfigs : t[k].st # "unmade" => [t EXCEPT ![i] = x][k].st # "unmade"
<1>1. DOMAIN t = 1..MaxConfigs /\ t \in ConfigTable  BY DEF MadeTables, ConfigTable
<1>2. [t EXCEPT ![i] = x] \in ConfigTable  BY <1>1 DEF ConfigTable
<1>3. \A k \in 1..MaxConfigs : [t EXCEPT ![i] = x][k] = IF k = i THEN x ELSE t[k]  BY <1>1
<1> QED  BY <1>2, <1>3 DEF MadeTables

\* What a check adds to an edit are rows that are live.
LEMMA CheckChannelKeeps == ASSUME CenterInv, NEW desk \in Desks, CheckChannel(desk) PROVE CenterInv'
<1>1. PICK m \in LiveOnes(center.model), p \in LiveOnes(center.provider) :
        editing' = [editing EXCEPT ![desk].of = "checked channel",
                                   ![desk].row = [loaded |-> editing[desk].row, model |-> m, provider |-> p]]
  BY DEF CheckChannel
<1>2. /\ editing[desk].of = "channel" /\ center' = center /\ edited' = edited
      /\ synced' = synced /\ strays' = strays
  BY DEF CheckChannel
<1>3. LoadedRow(center, editing[desk].id, editing[desk].row)  BY <1>2 DEF CenterInv, EditSound
<1>4. m \in 1..MaxModels /\ p \in 1..MaxProviders  BY CenterFacts, LiveModels, LiveProviders
<1> DEFINE r == [loaded |-> editing[desk].row, model |-> m, provider |-> p]
           x == [editing[desk] EXCEPT !.of = "checked channel", !.row = r]
<1>5. editing' = [editing EXCEPT ![desk] = x]  BY <1>1
<1>6. r.loaded = editing[desk].row /\ r.model = m /\ r.provider = p  OBVIOUS
<1> HIDE DEF r
<1>7. x.of = "checked channel" /\ x.id = editing[desk].id /\ x.row = r
  BY DEF CenterInv
<1> HIDE DEF x
<1>8. EditSound(center, x)  BY <1>3, <1>4, <1>6, <1>7 DEF EditSound
<1>9. DOMAIN editing = Desks  BY DEF CenterInv
<1>10. editing' = [k \in Desks |-> editing'[k]] /\ \A k \in Desks : EditSound(center, editing'[k])
  BY <1>5, <1>8, <1>9 DEF CenterInv
<1> QED  BY <1>2, <1>10 DEF CenterInv

\* A row saved again keeps its configuration, so that there is still one of it.
LEMMA SaveChannelKeeps == ASSUME CenterInv, NEW desk \in Desks, SaveChannel(desk) PROVE CenterInv'
<1> DEFINE ch   == editing[desk].id
           edit == editing[desk].row
           i    == edit.loaded.config
           Kept(r, on) == [edit.loaded EXCEPT !.runtime = r, !.on = on]
           Row(r, on, moves) == IF moves THEN [Kept(r, on) EXCEPT !.model = edit.model, !.provider = edit.provider]
                                ELSE Kept(r, on)
           found == i \in LiveOnes(center.config) /\ edit.provider \in LiveOnes(center.provider)
           key   == Retold[center.config[i].key][center.provider[edit.provider].key]
           Config(r, on) == [center.config[i] EXCEPT !.runtime = r, !.on = on, !.key = key]
<1>1. PICK r \in Runtimes, on \in BOOLEAN, moves \in BOOLEAN :
        \/ i = 0 /\ WriteChannel(desk, ch, Row(r, on, moves), center.config)
        \/ found /\ WriteChannel(desk, ch, Row(r, on, moves), [center.config EXCEPT ![i] = Config(r, on)])
        \/ Save(desk, "checked channel", center) /\ strays' = strays
  BY DEF SaveChannel
<1>2. editing[desk].of = "checked channel"  BY DEF SaveChannel
<1>3. /\ ch \in 1..MaxChannels /\ edit.loaded \in ChannelRow /\ edit.loaded.st = "live"
      /\ center.channel[ch].st # "unmade" /\ center.channel[ch].config = i
      /\ edit.model \in 1..MaxModels /\ edit.provider \in 1..MaxProviders
  BY <1>2 DEF CenterInv, EditSound, LoadedRow
<1> DEFINE x == Row(r, on, moves)
           y == Config(r, on)
<1>4. x \in ChannelRow /\ x.st = "live" /\ x.config = i
  <2> HIDE DEF edit
  <2>1. Kept(r, on) \in ChannelRow /\ Kept(r, on).st = "live" /\ Kept(r, on).config = i
    <3>1. r \in Runtimes \cup {0}  OBVIOUS
    <3> QED  BY <1>3, <3>1 DEF ChannelRow
  <2> DEFINE k == Kept(r, on)
             z == [k EXCEPT !.model = edit.model, !.provider = edit.provider]
  <2>2. x = z \/ x = k  OBVIOUS
  <2> HIDE DEF k, x
  <2>3. k \in ChannelRow /\ k.st = "live" /\ k.config = i  BY <2>1 DEF k
  <2>4. edit.model \in 0..MaxModels /\ edit.provider \in 0..MaxProviders  BY <1>3
  <2>5. z \in ChannelRow /\ z.st = "live" /\ z.config = i  BY <2>3, <2>4 DEF ChannelRow
  <2> QED  BY <2>2, <2>3, <2>5
<1>5. center \in SoundTables /\ center \in Tables /\ OneEach(center) /\ Orphans(center) \subseteq strays
      /\ Succeeds(center, center) /\ center.config \in MadeTables
  BY CenterFacts, SoundConfigs
<1>6. found => y \in ConfigRow /\ y.runtime \in Runtimes /\ y.st = "live"
  <2> SUFFICES ASSUME found PROVE y \in ConfigRow /\ y.runtime \in Runtimes /\ y.st = "live"  OBVIOUS
  <2>1. i \in 1..MaxConfigs /\ center.config[i].st = "live" /\ center.config[i] \in ConfigRow
    BY <1>5, LiveConfigs, TableFields DEF ConfigTable
  <2>2. center.provider[edit.provider].key \in ProviderKeys /\ center.config[i].key \in ProviderKeys
    <3>1. center.provider[edit.provider] \in ProviderRow
      BY <1>3, <1>5, TableFields DEF ProviderTable
    <3> QED  BY <2>1, <3>1 DEF ConfigRow, ProviderRow, KeySet
  <2>3. key \in KeySet  BY <2>2, CenterAssumption DEF KeySet
  <2> HIDE DEF key, i
  <2>4. r \in Runtimes \cup {0}  OBVIOUS
  <2> QED  BY <2>1, <2>3, <2>4 DEF ConfigRow
<1> HIDE DEF x, y
<1>7. CASE i = 0 /\ WriteChannel(desk, ch, x, center.config)
  <2> HIDE DEF ch, edit
  <2> QED  BY <1>3, <1>4, <1>5, <1>7, WriteChannelKeeps
<1>8. CASE found /\ WriteChannel(desk, ch, x, [center.config EXCEPT ![i] = y])
  <2> HIDE DEF ch, edit, i, found
  <2> DEFINE t == [center.config EXCEPT ![i] = y]
  <2>1. y \in ConfigRow /\ y.runtime \in Runtimes /\ y.st # "unmade"  BY <1>6, <1>8
  <2>2. t \in MadeTables /\ \A k \in 1..MaxConfigs : center.config[k].st # "unmade" => t[k].st # "unmade"
    BY <1>5, <2>1, WrittenConfig
  <2>3. WriteChannel(desk, ch, x, t)  BY <1>8
  <2> HIDE DEF t
  <2> QED  BY <1>3, <1>4, <2>2, <2>3, WriteChannelKeeps
<1>9. CASE Save(desk, "checked channel", center) /\ strays' = strays
  <2>1. strays' \in SUBSET (1..MaxChannels) /\ Orphans(center) \subseteq strays'  BY <1>5, <1>9 DEF CenterInv
  <2> QED  BY <1>5, <1>9, <2>1, SaveKeeps
<1> QED  BY <1>1, <1>7, <1>8, <1>9 DEF x, y

LEMMA PutRoutingKeeps == ASSUME CenterInv, PutRouting PROVE CenterInv'
<1> DEFINE d == SyncCenter(center)
<1>1. PICK t \in Types, on \in BOOLEAN :
        LET ms == {m \in LiveOnes(d.model) : d.model[m].type = t}
        IN  \E def \in ms, spare \in ms, S \in {{}, {ch \in LiveOnes(d.channel) : d.channel[ch].model \in ms}} :
              Change([d EXCEPT
                !.policy[t] = [source |-> "center", def |-> def, fallback |-> spare, routing |-> TRUE],
                !.entry[t] = [ch \in DOMAIN d.channel |->
                    IF ch \in S THEN [model |-> d.channel[ch].model, on |-> on] ELSE NoEntry]])
  BY DEF PutRouting
<1> DEFINE ms == {m \in LiveOnes(d.model) : d.model[m].type = t}
<1>2. PICK def \in ms, spare \in ms, S \in {{}, {ch \in LiveOnes(d.channel) : d.channel[ch].model \in ms}} :
        Change([d EXCEPT
          !.policy[t] = [source |-> "center", def |-> def, fallback |-> spare, routing |-> TRUE],
          !.entry[t] = [ch \in DOMAIN d.channel |->
              IF ch \in S THEN [model |-> d.channel[ch].model, on |-> on] ELSE NoEntry]])
  BY <1>1
<1> DEFINE pol  == [source |-> "center", def |-> def, fallback |-> spare, routing |-> TRUE]
           line == [ch \in DOMAIN d.channel |->
                      IF ch \in S THEN [model |-> d.channel[ch].model, on |-> on] ELSE NoEntry]
           e == [d EXCEPT !.policy[t] = pol, !.entry[t] = line]
<1>3. Change(e)  BY <1>2
<1>4. d \in SoundTables /\ d \in Tables /\ OneEach(d) /\ Succeeds(center, d) /\ Orphans(d) \subseteq strays
  BY CenterFacts
<1>5. ms \subseteq 1..MaxModels
  <2> HIDE DEF d
  <2> QED  BY <1>4, LiveModels
<1> HIDE DEF d, ms
<1>6. pol \in PolicyRow  BY <1>5 DEF PolicyRow
<1>7. line \in [1..MaxChannels -> EntryRow]
  <2>1. DOMAIN d.channel = 1..MaxChannels  BY <1>4, TableFields DEF ChannelTable
  <2>2. \A ch \in 1..MaxChannels : d.channel[ch].model \in 0..MaxModels
    BY <1>4, TableFields DEF ChannelTable, ChannelRow
  <2>3. NoEntry \in EntryRow  BY CenterBounds DEF NoEntry, EntryRow
  <2>4. \A ch \in 1..MaxChannels : [model |-> d.channel[ch].model, on |-> on] \in EntryRow
    BY <2>2 DEF EntryRow
  <2> QED  BY <2>1, <2>3, <2>4
<1> HIDE DEF pol, line
<1>8. e \in Tables /\ e.config = d.config /\ e.channel = d.channel /\ e.provider = d.provider
  BY <1>4, <1>6, <1>7 DEF Tables, PolicyTable, EntryTable
<1> HIDE DEF e
<1>9. e \in SoundTables  BY <1>4, <1>8 DEF SoundTables, MadeConfigs
<1>10. Succeeds(d, e) /\ Orphans(e) \subseteq strays  BY <1>4, <1>8, <1>9, OtherTables
<1>11. Succeeds(center, e)  BY <1>4, <1>10, FollowsOn
<1> QED  BY <1>3, <1>10, <1>11, ChangeKeeps

LEMMA CreateConfigKeeps == ASSUME CenterInv, CreateConfig PROVE CenterInv'
<1>1. PICK name \in Names, r \in Runtimes, key \in ProviderKeys :
        Change([center EXCEPT !.config =
                  AddConfig(@, [st |-> "live", name |-> name, runtime |-> r, key |-> key, on |-> TRUE])])
  BY DEF CreateConfig
<1> DEFINE c == [st |-> "live", name |-> name, runtime |-> r, key |-> key, on |-> TRUE]
           x == AddConfig(center.config, c)
           e == [center EXCEPT !.config = x]
<1>2. Change(e)
  <2>1. [center EXCEPT !.config = AddConfig(@, c)] = e  OBVIOUS
  <2> QED  BY <1>1, <2>1
<1>3. c \in ConfigRow /\ c.runtime \in Runtimes  BY DEF ConfigRow, States, NameSet, KeySet
<1> HIDE DEF c
<1>4. center \in SoundTables /\ center \in Tables /\ OneEach(center) /\ Orphans(center) \subseteq strays
  BY CenterFacts
<1>5. center.config \in MadeTables  BY <1>4, SoundConfigs
<1>6. x \in MadeTables /\ \A i \in 1..MaxConfigs : center.config[i].st # "unmade" => x[i].st # "unmade"
  BY <1>3, <1>5, AddConfigMakes
<1> HIDE DEF x
<1>7. Succeeds(center, e) /\ Orphans(e) \subseteq strays  BY <1>4, <1>6, SoundConfig
<1> HIDE DEF e
<1> QED  BY <1>2, <1>7, ChangeKeeps

LEMMA LoadConfigKeeps == ASSUME CenterInv, NEW desk \in Desks, LoadConfig(desk) PROVE CenterInv'
<1>1. PICK i \in LiveOnes(center.config) : Load(desk, center, "config", i, center.config[i])
  BY DEF LoadConfig
<1>2. i \in 1..MaxConfigs /\ center.config[i].st = "live" /\ center.config[i] \in ConfigRow
  BY CenterFacts, LiveConfigs, TableFields DEF ConfigTable
<1> DEFINE x == [of |-> "config", id |-> i, row |-> center.config[i]]
<1>3. EditSound(center, x)
  <2>1. x.of = "config" /\ x.id = i /\ x.row = center.config[i]  OBVIOUS
  <2> HIDE DEF x
  <2> QED  BY <1>2, <2>1 DEF EditSound
<1> QED  BY <1>1, <1>3, LoadHere

LEMMA SaveConfigKeeps == ASSUME CenterInv, NEW desk \in Desks, SaveConfig(desk) PROVE CenterInv'
<1> DEFINE i == editing[desk].id
           row == editing[desk].row
<1>1. PICK r \in Runtimes, key \in ProviderKeys, on \in BOOLEAN :
        /\ Save(desk, "config", [center EXCEPT !.config[i] = [row EXCEPT !.runtime = r, !.key = key, !.on = on]])
        /\ editing[desk].of = "config" /\ strays' = strays
  BY DEF SaveConfig
<1>2. i \in 1..MaxConfigs /\ row \in ConfigRow /\ row.st = "live"  BY <1>1 DEF CenterInv, EditSound
<1> HIDE DEF i, row
<1> DEFINE y == [row EXCEPT !.runtime = r, !.key = key, !.on = on]
           z == [center.config EXCEPT ![i] = y]
           e == [center EXCEPT !.config = z]
<1>3. y \in ConfigRow /\ y.runtime \in Runtimes /\ y.st # "unmade"
  <2>1. r \in Runtimes \cup {0} /\ key \in KeySet  BY DEF KeySet
  <2> QED  BY <1>2, <2>1 DEF ConfigRow
<1>4. Save(desk, "config", e) /\ strays' = strays
  <2>1. [center EXCEPT !.config[i] = y] = e  OBVIOUS
  <2> QED  BY <1>1, <2>1
<1> HIDE DEF y
<1>5. center \in SoundTables /\ center \in Tables /\ OneEach(center) /\ Orphans(center) \subseteq strays
  BY CenterFacts
<1>6. center.config \in MadeTables  BY <1>5, SoundConfigs
<1>7. z \in MadeTables /\ \A k \in 1..MaxConfigs : center.config[k].st # "unmade" => z[k].st # "unmade"
  BY <1>3, <1>6, WrittenConfig
<1> HIDE DEF z
<1>8. Succeeds(center, e) /\ Orphans(e) \subseteq strays  BY <1>5, <1>7, SoundConfig
<1> HIDE DEF e
<1>9. strays' \in SUBSET (1..MaxChannels)  BY <1>4 DEF CenterInv
<1> QED  BY <1>4, <1>8, <1>9, SaveKeeps

\* What takes the place of a default is a configuration that was made.
LEMMA ReplacementMade ==
    ASSUME NEW d \in Tables, NEW i
    PROVE  /\ Replacement(d, i) \in 0..MaxConfigs
           /\ Replacement(d, i) # 0 => d.config[Replacement(d, i)].st = "live"
<1> DEFINE same == OfType(d, TypeOf[d.config[i].runtime]) \ {i}
           on   == {j \in same : d.config[j].on}
           S    == IF on # {} THEN on ELSE same
<1>1. S \subseteq LiveOnes(d.config)  BY DEF OfType
<1>2. Replacement(d, i) = Lowest(S)  BY DEF Replacement
<1> HIDE DEF S
<1>3. S \in SUBSET Nat /\ S \subseteq 1..MaxConfigs /\ 1..MaxConfigs \subseteq 0..MaxConfigs
      /\ 0 \in 0..MaxConfigs
  BY <1>1, LiveConfigs, CenterBounds
<1>4. S # {} => Lowest(S) \in S  BY <1>3, LowestIn
<1>5. S = {} => Lowest(S) = 0  BY <1>3, LowestIn
<1>6. \A j \in S : d.config[j].st = "live"  BY <1>1, LiveConfigs
<1> QED  BY <1>2, <1>3, <1>4, <1>5, <1>6

LEMMA LoadForDeleteKeeps == ASSUME CenterInv, NEW desk \in Desks, LoadForDelete(desk) PROVE CenterInv'
<1>1. PICK i \in LiveOnes(center.config) :
        /\ InUse(center.settings, i) => Replacement(center, i) # 0
        /\ Load(desk, center, "deletion", i,
                [settings |-> center.settings, instead |-> Replacement(center, i)])
  BY DEF LoadForDelete
<1> DEFINE r == [settings |-> center.settings, instead |-> Replacement(center, i)]
           x == [of |-> "deletion", id |-> i, row |-> r]
<1>2. i \in 1..MaxConfigs /\ center.config[i].st = "live" /\ center.settings \in SettingsRow
  BY CenterFacts, LiveConfigs, TableFields
<1>3. /\ Replacement(center, i) \in 0..MaxConfigs
      /\ Replacement(center, i) # 0 => center.config[Replacement(center, i)].st = "live"
  BY CenterFacts, ReplacementMade
<1>4. EditSound(center, x)
  <2>1. x.of = "deletion" /\ x.id = i /\ x.row.settings = center.settings
        /\ x.row.instead = Replacement(center, i)
    OBVIOUS
  <2> HIDE DEF x
  <2> QED  BY <1>1, <1>2, <1>3, <2>1 DEF EditSound
<1>5. Load(desk, center, "deletion", i, r)  BY <1>1
<1> HIDE DEF r
<1> QED  BY <1>4, <1>5, LoadHere

\* The settings that are saved are old, but name configurations that were made.
LEMMA SaveDeletionKeeps == ASSUME CenterInv, NEW desk \in Desks, SaveDeletion(desk) PROVE CenterInv'
<1> DEFINE i     == editing[desk].id
           row   == editing[desk].row
           s     == row.settings
           r     == center.config[i].runtime
           image == TypeOf[r] = "image"
           only  == ~\E j \in OfType(center, "image") \ {i} : center.config[j].runtime = r
           Swap(x) == IF x = i /\ row.instead # 0 THEN row.instead ELSE x
           kept  == IF image /\ only THEN s.allowed \ {r} ELSE s.allowed
           taken == IF image /\ InUse(s, i) THEN kept \cup {center.config[row.instead].runtime} ELSE kept
           new   == [s EXCEPT !.def = [t \in Types |-> Swap(@[t])], !.fallback = Swap(@), !.allowed = taken]
           x     == Deleted(center.config, {i})
           y     == IF new = s THEN center.settings ELSE new
           b     == [center EXCEPT !.config = x]
           e     == [b EXCEPT !.settings = y]
<1>1. /\ editing[desk].of = "deletion"
      /\ Save(desk, "deletion",
              [center EXCEPT !.config = Deleted(@, {i}), !.settings = IF new = s THEN @ ELSE new])
      /\ strays' = strays
  BY DEF SaveDeletion
<1>2. Save(desk, "deletion", e) /\ strays' \in SUBSET (1..MaxChannels) /\ strays' = strays
  <2>1. [center EXCEPT !.config = Deleted(@, {i}), !.settings = IF new = s THEN @ ELSE new] = e
    <3> HIDE DEF new
    <3> QED  OBVIOUS
  <2>2. strays \in SUBSET (1..MaxChannels)  BY DEF CenterInv
  <2> QED  BY <1>1, <2>1, <2>2
<1>3. /\ i \in 1..MaxConfigs /\ center.config[i].st # "unmade"
      /\ s \in SettingsRow /\ row.instead \in 0..MaxConfigs
      /\ InUse(s, i) => row.instead # 0 /\ center.config[row.instead].st # "unmade"
  BY <1>1 DEF CenterInv, EditSound
<1>4. center \in SoundTables /\ center \in Tables /\ OneEach(center) /\ Orphans(center) \subseteq strays
  BY CenterFacts
<1>5. center.config \in MadeTables  BY <1>4, SoundConfigs
<1>6. kept \in SUBSET Runtimes
  <2>1. s.allowed \in SUBSET Runtimes  BY <1>3 DEF SettingsRow
  <2> QED  BY <2>1
<1>7. taken \in SUBSET Runtimes
  <2>1. InUse(s, i) => center.config[row.instead].runtime \in Runtimes
    <3>1. InUse(s, i) => row.instead \in 1..MaxConfigs /\ center.config[row.instead].st # "unmade"
      BY <1>3
    <3> QED  BY <1>5, <3>1 DEF MadeTables
  <2> HIDE DEF kept
  <2> QED  BY <1>6, <2>1
<1>8. new \in SettingsRow
  <2>1. \A k \in 0..MaxConfigs : Swap(k) \in 0..MaxConfigs  BY <1>3
  <2>2. s.def \in [Types -> 0..MaxConfigs] /\ s.fallback \in 0..MaxConfigs  BY <1>3 DEF SettingsRow
  <2>3. [t \in Types |-> Swap(s.def[t])] \in [Types -> 0..MaxConfigs] /\ Swap(s.fallback) \in 0..MaxConfigs
    BY <2>1, <2>2
  <2> DEFINE def == [t \in Types |-> Swap(s.def[t])]
             fall == Swap(s.fallback)
  <2>4. new = [s EXCEPT !.def = def, !.fallback = fall, !.allowed = taken]  OBVIOUS
  <2>5. def \in [Types -> 0..MaxConfigs] /\ fall \in 0..MaxConfigs  BY <2>3
  <2> HIDE DEF def, fall, taken, new, s
  <2> QED  BY <1>3, <1>7, <2>4, <2>5 DEF SettingsRow
<1>9. y \in SettingsRow
  <2> HIDE DEF new, s
  <2> QED  BY <1>4, <1>8, TableFields
<1>10. x \in MadeTables /\ \A k \in 1..MaxConfigs : center.config[k].st # "unmade" => x[k].st # "unmade"
  <2> HIDE DEF i
  <2> QED  BY <1>3, <1>4, <1>5, DeletedConfigs
<1> HIDE DEF i, row, s, r, image, only, kept, taken, new, x, y
<1>11. Succeeds(center, b) /\ Orphans(b) \subseteq strays  BY <1>4, <1>10, SoundConfig
<1> HIDE DEF b
<1>12. Succeeds(b, e) /\ Orphans(e) \subseteq strays  BY <1>9, <1>11, SoundSettings DEF Succeeds
<1> HIDE DEF e
<1>13. Succeeds(center, e)  BY <1>11, <1>12, FollowsOn
<1> QED  BY <1>2, <1>12, <1>13, SaveKeeps

LEMMA LoadForDefaultsKeeps == ASSUME CenterInv, NEW desk \in Desks, LoadForDefaults(desk) PROVE CenterInv'
<1> DEFINE Row(i, f, v) == [settings |-> center.settings, image |-> i, fallback |-> f, video |-> v,
                            runtime |-> center.config[i].runtime]
<1>1. PICK i \in OfType(center, "image"), f \in OfType(center, "image"), v \in OfType(center, "video") :
        Load(desk, center, "defaults", i, Row(i, f, v))
  BY DEF LoadForDefaults
<1> DEFINE r == Row(i, f, v)
           x == [of |-> "defaults", id |-> i, row |-> r]
<1>2. i \in 1..MaxConfigs /\ f \in 1..MaxConfigs /\ v \in 1..MaxConfigs /\ center.config[i].st = "live"
  BY CenterFacts, LiveConfigs DEF OfType
<1>3. center.settings \in SettingsRow /\ center.config[i].runtime \in Runtimes
  <2>1. center.config \in MadeTables  BY CenterFacts, SoundConfigs
  <2> QED  BY <1>2, <2>1, CenterFacts, TableFields DEF MadeTables
<1>4. EditSound(center, x)
  <2>1. /\ x.of = "defaults" /\ x.row.settings = center.settings /\ x.row.image = i
        /\ x.row.fallback = f /\ x.row.video = v /\ x.row.runtime = center.config[i].runtime
    OBVIOUS
  <2> HIDE DEF x
  <2> QED  BY <1>2, <1>3, <2>1 DEF EditSound
<1>5. Load(desk, center, "defaults", i, r)  BY <1>1
<1> HIDE DEF r
<1> QED  BY <1>4, <1>5, LoadHere

LEMMA SaveDefaultsKeeps == ASSUME CenterInv, NEW desk \in Desks, SaveDefaults(desk) PROVE CenterInv'
<1> DEFINE row == editing[desk].row
           s == row.settings
           def == [t \in Types |-> IF t = "image" THEN row.image ELSE row.video]
           new == [s EXCEPT !.def = def, !.fallback = row.fallback, !.allowed = s.allowed \cup {row.runtime}]
           e == [center EXCEPT !.settings = new]
<1>1. /\ editing[desk].of = "defaults" /\ Save(desk, "defaults", e)
      /\ strays' = strays
  BY DEF SaveDefaults
<1>2. /\ s \in SettingsRow /\ row.runtime \in Runtimes
      /\ row.image \in 1..MaxConfigs /\ row.fallback \in 1..MaxConfigs /\ row.video \in 1..MaxConfigs
  BY <1>1 DEF CenterInv, EditSound
<1>3. strays' \in SUBSET (1..MaxChannels) /\ strays' = strays  BY <1>1 DEF CenterInv
<1>4. new \in SettingsRow
  <2>1. row.image \in 0..MaxConfigs /\ row.fallback \in 0..MaxConfigs /\ row.video \in 0..MaxConfigs
    BY <1>2
  <2>2. def \in [Types -> 0..MaxConfigs]  BY <2>1
  <2>3. s.allowed \cup {row.runtime} \in SUBSET Runtimes  BY <1>2 DEF SettingsRow
  <2> HIDE DEF def, s, row
  <2> QED  BY <1>2, <2>1, <2>2, <2>3 DEF SettingsRow
<1> HIDE DEF new, row
<1>5. Succeeds(center, e) /\ Orphans(e) \subseteq strays  BY <1>4, CenterFacts, SoundSettings
<1>6. Save(desk, "defaults", e)  BY <1>1
<1> HIDE DEF e
<1> QED  BY <1>3, <1>5, <1>6, SaveKeeps

\* Every step of the centre.
LEMMA CenterStep == CenterInv /\ [CenterNext]_modelCenter => CenterInv'
<1> SUFFICES ASSUME CenterInv, [CenterNext]_modelCenter PROVE CenterInv'  OBVIOUS
<1>1. CASE UNCHANGED modelCenter
  <2>1. center' = center /\ editing' = editing /\ edited' = edited /\ synced' = synced /\ strays' = strays
    BY <1>1 DEF modelCenter
  <2> QED  BY <2>1 DEF CenterInv
<1>2. CASE RestartCenter \/ UseCenter \/ CreateModel \/ DeleteModel \/ CreateProvider \/ DeleteProvider
           \/ DeleteChannel \/ PutRouting \/ CreateConfig
  BY <1>2, RestartKeeps, UseKeeps, CreateModelKeeps, DeleteModelKeeps, CreateProviderKeeps,
     DeleteProviderKeeps, DeleteChannelKeeps, PutRoutingKeeps, CreateConfigKeeps
<1>3. ASSUME NEW desk \in Desks,
             \/ LoadModel(desk) \/ SaveModel(desk) \/ LoadProvider(desk) \/ SaveProvider(desk)
             \/ LoadForChannel(desk) \/ CreateChannel(desk) \/ LoadChannel(desk) \/ CheckChannel(desk) \/ SaveChannel(desk)
             \/ LoadConfig(desk) \/ SaveConfig(desk) \/ LoadForDelete(desk) \/ SaveDeletion(desk)
             \/ LoadForDefaults(desk) \/ SaveDefaults(desk)
      PROVE  CenterInv'
  BY <1>3, LoadModelKeeps, SaveModelKeeps, LoadProviderKeeps, SaveProviderKeeps, LoadForChannelKeeps,
     CreateChannelKeeps, LoadChannelKeeps, CheckChannelKeeps, SaveChannelKeeps, LoadConfigKeeps, SaveConfigKeeps,
     LoadForDeleteKeeps, SaveDeletionKeeps, LoadForDefaultsKeeps, SaveDefaultsKeeps
<1> QED  BY <1>1, <1>2, <1>3 DEF CenterNext

-----------------------------------------------------------------------------
(***************************************************************************)
(* What the invariant says of the tables.                                  *)
(***************************************************************************)

\* After a synchronisation the channel of a configuration has a live provider, even one
\* that was saved with another.
LEMMA SettledServed ==
    ASSUME NEW d \in Tables, OneEach(d), Settled(d), NEW ch \in 1..MaxChannels, d.channel[ch].st = "live",
           d.channel[ch].config \in LiveOnes(d.config)
    PROVE  d.channel[ch].provider \in LiveOnes(d.provider)
<1> DEFINE i == d.channel[ch].config
<1>1. ConfigSettled(d, i)  BY DEF Settled
<1>2. i # 0  BY LiveConfigs
<1>3. \A k \in 1..MaxChannels : d.channel[k].config = i => k = ch  BY <1>2 DEF OneEach
<1>4. HasChannel(d, i, ch)  BY <1>1, <1>3 DEF ConfigSettled, HasChannel, LostChannel, NoService
<1> DEFINE S == WithKey(d, "live", d.config[i].key)
<1>5. S # {} /\ d.channel[ch].provider = Lowest(S)  BY <1>4 DEF HasChannel
<1>6. S \subseteq LiveOnes(d.provider)  BY DEF WithKey, LiveOnes
<1> HIDE DEF S
<1>7. S \in SUBSET Nat  BY <1>6, LiveProviders
<1> QED  BY <1>5, <1>6, <1>7, LowestIn

\* The invariant implies the property.
LEMMA CenterInvAgrees == CenterInv => CenterAgrees
<1> SUFFICES ASSUME CenterInv PROVE CenterAgrees  OBVIOUS
<1>1. center \in SoundTables /\ center \in Tables /\ OneEach(center)  BY CenterFacts
<1>2. OneChannelPerConfig
  <2>1. DOMAIN center.channel = 1..MaxChannels  BY <1>1, TableFields DEF ChannelTable
  <2> QED  BY <1>1, <2>1 DEF OneEach, OneChannelPerConfig
<1>3. SyncSettles
  <2>1. synced /\ ~Shared => Quiet(center)  BY <1>1 DEF CenterInv, Quiet, Shared, SharedIn
  <2>2. Quiet(center) =>
          OnlyJoins(center, SyncCenter(center)) /\ SyncCenter(SyncCenter(center)) = SyncCenter(center)
    BY QuietSettles
  <2> QED  BY <2>1, <2>2 DEF SyncSettles
<1>4. CandidatesHaveProviders
  <2>1. ASSUME NEW t \in Types, NEW n \in DOMAIN CandidatesFor(center, t),
               ~MayStray(CandidatesFor(center, t)[n])
        PROVE  LET p == center.channel[CandidatesFor(center, t)[n]].provider
               IN  p \in LiveOnes(center.provider) /\ center.provider[p].on
    <3> DEFINE ch == CandidatesFor(center, t)[n]
               i  == center.channel[ch].config
    <3>1. Available(center, ch)  BY <1>1, CandidatesAre
    <3> HIDE DEF ch
    <3>2. ch \in 1..MaxChannels /\ center.channel[ch].st = "live"
      BY <1>1, <3>1, LiveChannels DEF Available
    <3>3. CASE ch \notin strays
      <4>1. ch \notin Orphans(center)  BY <3>3, CenterFacts
      <4> QED  BY <3>1, <4>1 DEF Available, ProviderServes, Orphans, ch
    <3>4. CASE synced /\ i \in LiveOnes(center.config)
      <4>1. center.channel[ch].provider \in LiveOnes(center.provider)  BY <1>1, <3>2, <3>4, SettledServed DEF CenterInv
      <4> QED  BY <3>1, <4>1 DEF Available, ProviderServes, ch
    <3> QED  BY <2>1, <3>3, <3>4 DEF MayStray, ch
  <2> QED  BY <2>1 DEF CandidatesHaveProviders
<1> QED  BY <1>2, <1>3, <1>4 DEF CenterAgrees

\* The invariant implies the types.
LEMMA CenterInvTyped == CenterInv => CenterTypeOK
<1> SUFFICES ASSUME CenterInv PROVE CenterTypeOK  OBVIOUS
<1>1. center \in Tables  BY CenterFacts
<1>2. \A i \in 1..MaxConfigs : center.config[i].st \in {"unmade", "live", "deleted"}
  BY <1>1, TableFields DEF ConfigTable, ConfigRow, States
<1>3. \A ch \in 1..MaxChannels : /\ center.channel[ch].model \in 0..MaxModels
                                 /\ center.channel[ch].provider \in 0..MaxProviders
                                 /\ center.channel[ch].config \in 0..MaxConfigs
  BY <1>1, TableFields DEF ChannelTable, ChannelRow
<1>4. \A t \in Types : center.policy[t].def \in 0..MaxModels /\ center.settings.def[t] \in 0..MaxConfigs
  BY <1>1, TableFields DEF PolicyTable, PolicyRow, SettingsRow
<1> QED  BY <1>2, <1>3, <1>4 DEF CenterTypeOK, CenterInv

\* What the centre holds is consistent, however administrators edit it at the same time
\* and the program is restarted: a configuration never has two channels, deleted ones
\* counted; a synchronisation right after another makes, removes and converts nothing,
\* unless a channel with no configuration shares the runtime of one;
\* and the channels a generation may take have live providers, except one made by hand that
\* was saved with a provider deleted after it had been looked up, which no synchronisation
\* repairs (syncModelCenterFromLegacy, modelCenterCandidatesForGeneration).
THEOREM CenterAlwaysAgrees == CenterSpec => []CenterAgrees
<1>1. CenterSpec => []CenterInv  BY InitCenter, CenterStep, PTL DEF CenterSpec
<1> QED  BY <1>1, CenterInvAgrees, PTL
=============================================================================
