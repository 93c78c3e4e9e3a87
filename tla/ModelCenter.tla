----------------------------- MODULE ModelCenter -----------------------------
(***************************************************************************)
(* The model centre.  Configurations of models, the older form, are kept   *)
(* beside business models, providers, channels and routing, the newer one: *)
(* every use of the centre first derives the second from the first         *)
(* (SyncCenter), without undoing what administrators changed or deleted.   *)
(* An edit loads a row, and later saves all of it.  Weights, prices,       *)
(* labels, keys and durations are left out; rows are ordered by id.        *)
(***************************************************************************)
EXTENDS Naturals, FiniteSets, Sequences

CONSTANTS
    Runtimes,       \* models of the providers
    TypeOf,         \* the modality of each, as configured
    ProviderKeys,   \* what is said of a provider: name, code, address and credential
    Retold,         \* the key of the one, with the name and address of the other: its
                    \* code is made of the name, its credential stays
    Names,          \* names of configurations and of business models
    Seeds,          \* names of the configurations the program brings along
    SeedRuntime,    \* the runtime of each
    SeedKey,        \* the provider of the seeds
    MaxConfigs, MaxModels, MaxProviders, MaxChannels,   \* bounds: rows
    MaxSaves,       \* bound: what administrators do
    Desks           \* edits under way at the same time

Types == {"image", "video"}

ASSUME CenterAssumption ==
    /\ IsFiniteSet(Runtimes) /\ TypeOf \in [Runtimes -> Types]
    /\ IsFiniteSet(Seeds) /\ SeedRuntime \in [Seeds -> Runtimes]
    /\ SeedKey \in ProviderKeys /\ Retold \in [ProviderKeys -> [ProviderKeys -> ProviderKeys]]
    /\ {MaxConfigs, MaxModels, MaxProviders, MaxChannels, MaxSaves} \subseteq Nat

VARIABLES
    center,     \* the tables: config, model, provider, channel, policy, entry, settings
    editing,    \* edits under way: the row or the settings an edit has loaded
    edited,     \* counter of edits
    synced,     \* nothing was changed since the last synchronisation
    strays      \* history: channels saved with a provider that was deleted meanwhile

modelCenter == <<center, editing, edited, synced, strays>>

NoEdit == [of |-> "nothing", id |-> 0, row |-> [st |-> "unmade"]]

NoConfig   == [st |-> "unmade", name |-> 0, runtime |-> 0, key |-> SeedKey, on |-> FALSE]
NoModel    == [st |-> "unmade", name |-> 0, type |-> "image"]
NoProvider == [st |-> "unmade", key |-> SeedKey, on |-> FALSE]
NoChannel  == [st |-> "unmade", model |-> 0, provider |-> 0, config |-> 0, runtime |-> 0,
               on |-> FALSE]
NoPolicy   == [source |-> "none", def |-> 0, fallback |-> 0, routing |-> FALSE]
NoEntry    == [model |-> 0, on |-> FALSE]

Rows(t, st)  == {i \in DOMAIN t : t[i].st = st}
LiveOnes(t)  == Rows(t, "live")
Lowest(S)    == IF S = {} THEN 0 ELSE CHOOSE x \in S : \A y \in S : x <= y
NextRow(t)   == Lowest(Rows(t, "unmade"))
Deleted(t, S) == [i \in DOMAIN t |-> IF i \in S THEN [t[i] EXCEPT !.st = "deleted"] ELSE t[i]]

(* Routing entries of channels go with the channels.                       *)
DropEntries(d, S) ==
    [d EXCEPT !.entry = [t \in Types |-> [ch \in DOMAIN d.channel |-> IF ch \in S THEN NoEntry ELSE @[t][ch]]]]

RemoveChannels(d, S) == [DropEntries(d, S) EXCEPT !.channel = Deleted(@, S)]
-----------------------------------------------------------------------------
(* What a synchronisation does for one configuration.                      *)

(* The provider of a configuration is found by all it says of it; one that *)
(* was deleted stays deleted, and an unknown one is made.                  *)
WithKey(d, st, key) == {p \in Rows(d.provider, st) : d.provider[p].key = key}

ProviderFor(d, c) ==
    LET new == NextRow(d.provider)
    IN  IF WithKey(d, "live", c.key) # {} THEN [db |-> d, id |-> Lowest(WithKey(d, "live", c.key))]
        ELSE IF WithKey(d, "deleted", c.key) # {} THEN [db |-> d, id |-> 0]
        ELSE [db |-> [d EXCEPT !.provider[new] = [st |-> "live", key |-> c.key, on |-> TRUE]], id |-> new]

(* The business model is that of the oldest channel with the runtime; one  *)
(* of another modality is converted when it has no other channel.  Or it   *)
(* is found by its name, or made.                                          *)
OldestOf(d, r) == Lowest({ch \in LiveOnes(d.channel) : d.channel[ch].runtime = r})

ModelFor(d, c) ==
    LET type   == TypeOf[c.runtime]
        oldest == OldestOf(d, c.runtime)
        known  == IF oldest = 0 THEN 0 ELSE d.channel[oldest].model
        usable == known # 0 /\ known \in LiveOnes(d.model)
        alone  == Cardinality({ch \in LiveOnes(d.channel) : d.channel[ch].model = known}) = 1
        named  == Lowest({m \in LiveOnes(d.model) : d.model[m].type = type /\ d.model[m].name = c.name})
        new    == NextRow(d.model)
    IN  IF usable /\ d.model[known].type = type THEN [db |-> d, id |-> known]
        ELSE IF usable /\ alone THEN [db |-> [d EXCEPT !.model[known].type = type], id |-> known]
        ELSE IF named # 0 THEN [db |-> d, id |-> named]
        ELSE [db |-> [d EXCEPT !.model[new] = [st |-> "live", name |-> c.name, type |-> type]], id |-> new]

(* A mutant: the deleted channel of a configuration is not looked for.     *)
DroppedUnseen(d, i) == {}

ChannelOf(d, i) == Lowest({ch \in LiveOnes(d.channel) : i # 0 /\ d.channel[ch].config = i})
Dropped(d, i) == {ch \in Rows(d.channel, "deleted") : d.channel[ch].config = i}

SyncConfig(d, i) ==
    LET c   == d.config[i]
        own == ChannelOf(d, i)
        p   == ProviderFor(d, c)
        m   == ModelFor(p.db, c)
        ch  == IF own # 0 THEN own ELSE NextRow(d.channel)
        old == IF own # 0 THEN d.channel[own] ELSE [NoChannel EXCEPT !.st = "live", !.config = i]
    IN  IF i \notin LiveOnes(d.config) THEN d
        ELSE IF own = 0 /\ Dropped(d, i) # {} THEN DropEntries(d, Dropped(d, i))
        ELSE IF p.id = 0 THEN RemoveChannels(d, {own} \ {0})
        ELSE [m.db EXCEPT !.channel[ch] = [old EXCEPT !.model = m.id, !.provider = p.id,
                                                      !.runtime = c.runtime, !.on = c.on]]

(* The policy of a modality follows the settings until an administrator    *)
(* saves one; then it is left alone.                                       *)
ModelOf(d, i) == IF ChannelOf(d, i) = 0 THEN 0 ELSE d.channel[ChannelOf(d, i)].model

DefaultOf(d, t) ==
    IF ModelOf(d, d.settings.def[t]) # 0 THEN ModelOf(d, d.settings.def[t])
    ELSE Lowest({m \in LiveOnes(d.model) : d.model[m].type = t})

SpareOf(d, t) ==
    LET spare == IF t = "image" THEN ModelOf(d, d.settings.fallback) ELSE 0
    IN  IF spare = 0 THEN DefaultOf(d, t) ELSE spare

Routed(d, t) ==
    {ch \in LiveOnes(d.channel) : d.channel[ch].model # 0 /\ d.model[d.channel[ch].model].type = t}

SyncPolicy(d, t) ==
    IF d.policy[t].source = "center" \/ DefaultOf(d, t) = 0 THEN d
    ELSE [d EXCEPT
            !.policy[t] = [source |-> "legacy", def |-> DefaultOf(d, t), fallback |-> SpareOf(d, t),
                           routing |-> d.settings.routing],
            !.entry[t] = [ch \in DOMAIN d.channel |->
                IF ch \in Routed(d, t) THEN [model |-> d.channel[ch].model, on |-> d.channel[ch].on] ELSE @[ch]]]

(* The configurations one after the other, then the policies.              *)
SyncConfigs(d) ==
    LET upTo[n \in 0..MaxConfigs] == IF n = 0 THEN d ELSE SyncConfig(upTo[n - 1], n)
    IN  upTo

SyncCenter(d) == SyncPolicy(SyncPolicy(SyncConfigs(d)[MaxConfigs], "image"), "video")

(* The bounds on rows leave room for a synchronisation: rows are left.     *)
Roomy(d) ==
    LET after == SyncCenter(d)
    IN  NextRow(after.provider) # 0 /\ NextRow(after.model) # 0 /\ NextRow(after.channel) # 0
-----------------------------------------------------------------------------
(* Which channels a generation tries, in their order.                      *)

ProviderServes(d, p) == p \notin LiveOnes(d.provider) \/ d.provider[p].on
Available(d, ch) ==
    /\ ch \in LiveOnes(d.channel) /\ d.channel[ch].on
    /\ ProviderServes(d, d.channel[ch].provider)

(* Of some channels, with 0 for none, the available ones, each once.       *)
Served(d, s) ==
    LET upTo[n \in 0..Len(s)] ==
            IF n = 0 THEN <<>>
            ELSE LET kept == upTo[n - 1]
                     new  == Available(d, s[n]) /\ \A k \in DOMAIN kept : kept[k] # s[n]
                 IN  IF new THEN Append(kept, s[n]) ELSE kept
    IN  upTo[Len(s)]

InOrder(S) == [ch \in 1..MaxChannels |-> IF ch \in S THEN ch ELSE 0]

(* The channels of the configurations, the default ones first.             *)
OfConfigs(d) ==
    LET online    == {i \in LiveOnes(d.config) : TypeOf[d.config[i].runtime] = "image" /\ d.config[i].on}
        channel(i) == IF i \in online THEN ChannelOf(d, i) ELSE 0
    IN  <<channel(d.settings.def["image"]), channel(d.settings.fallback)>>
            \o [i \in 1..MaxConfigs |-> channel(i)]

(* The enabled entries of a model, or with none its channels.              *)
OfModel(d, t, m) ==
    LET enabled == {ch \in DOMAIN d.channel : d.entry[t][ch].model = m /\ d.entry[t][ch].on}
        online  == {ch \in LiveOnes(d.channel) : d.channel[ch].model = m}
    IN  InOrder(IF enabled # {} THEN enabled ELSE online)

CandidatesFor(d, t) ==
    LET p    == d.policy[t]
        rest == IF p.routing THEN InOrder({ch \in DOMAIN d.channel : d.entry[t][ch].on}) ELSE <<>>
    IN  IF p.source = "none" THEN <<>>
        ELSE IF p.source = "legacy" /\ t = "image" THEN Served(d, OfConfigs(d))
        ELSE Served(d, OfModel(d, t, p.def) \o OfModel(d, t, p.fallback) \o rest)
-----------------------------------------------------------------------------
(* What the program brings along, at each start.                           *)

AddConfig(t, c) == IF NextRow(t) = 0 THEN t ELSE [t EXCEPT ![NextRow(t)] = c]

(* A seed that was deleted is found by its name and not made again.        *)
Seed(t, name) ==
    IF \E i \in DOMAIN t : t[i].name = name THEN t
    ELSE AddConfig(t, [st |-> "live", name |-> name, runtime |-> SeedRuntime[name], key |-> SeedKey, on |-> TRUE])

(* An allowed runtime no configuration has gets one.                       *)
Allow(t, r) ==
    IF \E i \in LiveOnes(t) : t[i].runtime = r THEN t
    ELSE AddConfig(t, [st |-> "live", name |-> r, runtime |-> r, key |-> SeedKey, on |-> TRUE])

Listed(S) == CHOOSE s \in [1..Cardinality(S) -> S] : \A m, n \in DOMAIN s : s[m] = s[n] => m = n

SeedAll(t) ==
    LET upTo[n \in 0..Cardinality(Seeds)] == IF n = 0 THEN t ELSE Seed(upTo[n - 1], Listed(Seeds)[n])
    IN  upTo[Cardinality(Seeds)]

AllowAll(t, S) ==
    LET upTo[n \in 0..Cardinality(S)] == IF n = 0 THEN t ELSE Allow(upTo[n - 1], Listed(S)[n])
    IN  upTo[Cardinality(S)]

(* The preferred default, the seed, or one that is on, or any.             *)
Preferred(d, t) ==
    LET ofType == {i \in LiveOnes(d.config) : TypeOf[d.config[i].runtime] = t}
        seeds  == {i \in ofType : d.config[i].name \in Seeds}
        on     == {i \in ofType : d.config[i].on}
    IN  Lowest(IF seeds # {} THEN seeds ELSE IF on # {} THEN on ELSE ofType)

SetDefaults(d) ==
    LET s == d.settings
    IN  [d EXCEPT !.settings = [s EXCEPT
            !.def = [t \in Types |-> IF @[t] = 0 THEN Preferred(d, t) ELSE @[t]],
            !.fallback = IF @ = 0 THEN Preferred(d, "image") ELSE @,
            !.routing = @ \/ (s.fallback = 0 /\ \A t \in Types : s.def[t] = 0)]]

Started(d) == SetDefaults([d EXCEPT !.config = AllowAll(SeedAll(@), d.settings.allowed)])

Empty ==
    [config   |-> [i \in 1..MaxConfigs |-> NoConfig],
     model    |-> [m \in 1..MaxModels |-> NoModel],
     provider |-> [p \in 1..MaxProviders |-> NoProvider],
     channel  |-> [ch \in 1..MaxChannels |-> NoChannel],
     policy   |-> [t \in Types |-> NoPolicy],
     entry    |-> [t \in Types |-> [ch \in 1..MaxChannels |-> NoEntry]],
     settings |-> [def |-> [t \in Types |-> 0], fallback |-> 0, routing |-> FALSE, allowed |-> {}]]

CenterInit ==
    /\ Roomy(Started(Empty)) /\ center = SyncCenter(Started(Empty))
    /\ editing = [e \in Desks |-> NoEdit]
    /\ edited = 0 /\ strays = {} /\ synced = TRUE

(* The process starts again: edits under way are lost.                     *)
RestartCenter ==
    /\ edited < MaxSaves /\ edited' = edited + 1
    /\ center' = Started(center)
    /\ editing' = [e \in Desks |-> NoEdit]
    /\ synced' = FALSE /\ UNCHANGED strays

(* A generation or a list of the centre begins with a synchronisation.     *)
UseCenter ==
    /\ ~synced /\ Roomy(center)
    /\ center' = SyncCenter(center) /\ synced' = TRUE
    /\ UNCHANGED <<editing, edited, strays>>

(* The bound on edits stands first where a synchronisation is computed.    *)
MoreEdits == edited < MaxSaves

(* An edit in one step, and one that loads what it will save whole.        *)
Change(d) ==
    /\ edited < MaxSaves /\ edited' = edited + 1
    /\ center' = d /\ synced' = FALSE
    /\ UNCHANGED <<editing, strays>>

Load(e, d, of, id, row) ==
    /\ editing[e].of = "nothing" /\ edited < MaxSaves /\ edited' = edited + 1
    /\ editing' = [editing EXCEPT ![e] = [of |-> of, id |-> id, row |-> row]]
    /\ center' = d /\ synced' = (synced /\ d = center)
    /\ UNCHANGED strays

Save(e, of, d) ==
    /\ editing[e].of = of /\ center' = d /\ synced' = FALSE
    /\ editing' = [editing EXCEPT ![e] = NoEdit]
    /\ UNCHANGED edited

-----------------------------------------------------------------------------
(* Business models.                                                        *)

CreateModel == MoreEdits /\ \E name \in Names, type \in Types :
    LET d == SyncCenter(center)
    IN  /\ Roomy(center) /\ NextRow(d.model) # 0
        /\ Change([d EXCEPT !.model[NextRow(d.model)] = [st |-> "live", name |-> name, type |-> type]])

LoadModel(e) == MoreEdits /\ Roomy(center) /\ \E m \in LiveOnes(center.model) :
    Load(e, SyncCenter(center), "model", m, center.model[m])

(* The save of a row inserts it again when it was deleted meanwhile.       *)
SaveModel(e) == \E type \in Types :
    /\ Save(e, "model", [center EXCEPT !.model[editing[e].id] = [editing[e].row EXCEPT !.type = type]])
    /\ UNCHANGED strays

DeleteModel == \E m \in LiveOnes(center.model) : Change([center EXCEPT !.model = Deleted(@, {m})])

(* Providers; the deletion takes the channels along.                       *)
CreateProvider == \E key \in ProviderKeys :
    /\ NextRow(center.provider) # 0
    /\ Change([center EXCEPT !.provider[NextRow(center.provider)] = [st |-> "live", key |-> key, on |-> TRUE]])

LoadProvider(e) == \E p \in LiveOnes(center.provider) : Load(e, center, "provider", p, center.provider[p])

SaveProvider(e) == \E key \in ProviderKeys, on \in BOOLEAN :
    /\ Save(e, "provider", [center EXCEPT !.provider[editing[e].id] = [st |-> "live", key |-> key, on |-> on]])
    /\ UNCHANGED strays

DeleteProvider == \E p \in LiveOnes(center.provider) :
    LET served == {ch \in LiveOnes(center.channel) : center.channel[ch].provider = p}
    IN  Change([RemoveChannels(center, served) EXCEPT !.provider = Deleted(@, {p})])

(* Channels: model and provider are looked up before the row is made.      *)
LoadForChannel(e) == MoreEdits /\ Roomy(center) /\ LET d == SyncCenter(center) IN \E m \in LiveOnes(d.model), p \in LiveOnes(d.provider) :
    Load(e, d, "new channel", 0, [NoChannel EXCEPT !.st = "live", !.model = m, !.provider = p, !.on = TRUE])

WriteChannel(e, ch, row, config) ==
    /\ Save(e, editing[e].of, [center EXCEPT !.channel[ch] = row, !.config = config])
    /\ strays' = IF row.provider \in LiveOnes(center.provider) THEN strays ELSE strays \cup {ch}

CreateChannel(e) == \E r \in Runtimes :
    /\ editing[e].of = "new channel" /\ NextRow(center.channel) # 0
    /\ WriteChannel(e, NextRow(center.channel), [editing[e].row EXCEPT !.runtime = r], center.config)

LoadChannel(e) == MoreEdits /\ Roomy(center) /\ LET d == SyncCenter(center) IN \E ch \in LiveOnes(d.channel) :
    Load(e, d, "channel", ch, d.channel[ch])

(* The model and the provider of the request are looked up then.           *)
CheckChannel(e) == \E m \in LiveOnes(center.model), p \in LiveOnes(center.provider) :
    /\ editing[e].of = "channel"
    /\ editing' = [editing EXCEPT ![e].of = "checked channel",
                                  ![e].row = [loaded |-> editing[e].row, model |-> m, provider |-> p]]
    /\ UNCHANGED <<center, edited, synced, strays>>

(* The configuration of the channel follows, with the name and address of  *)
(* the provider; without it, or without the provider, nothing is saved.    *)
(* The library saves what was loaded along with a row and then sets its    *)
(* ids again from that, so the row may move or stay where it was loaded. A *)
(* row deleted meanwhile is inserted again.                                *)
SaveChannel(e) == \E r \in Runtimes, on \in BOOLEAN, moves \in BOOLEAN :
    LET edit == editing[e].row
        i    == edit.loaded.config
        kept == [edit.loaded EXCEPT !.runtime = r, !.on = on]
        row  == IF moves THEN [kept EXCEPT !.model = edit.model, !.provider = edit.provider] ELSE kept
        found == i \in LiveOnes(center.config) /\ edit.provider \in LiveOnes(center.provider)
        key  == Retold[center.config[i].key][center.provider[edit.provider].key]
    IN  /\ editing[e].of = "checked channel"
        /\ \/ i = 0 /\ WriteChannel(e, editing[e].id, row, center.config)
           \/ i # 0 /\ found
              /\ WriteChannel(e, editing[e].id, row,
                              [center.config EXCEPT ![i] = [@ EXCEPT !.runtime = r, !.on = on, !.key = key]])
           \/ i # 0 /\ ~found /\ Save(e, "checked channel", center) /\ UNCHANGED strays

DeleteChannel == \E ch \in LiveOnes(center.channel) : Change(RemoveChannels(center, {ch}))

(* An administrator saves the routing of a modality: entries are replaced. *)
PutRouting == MoreEdits /\ \E t \in Types, on \in BOOLEAN :
    LET d  == SyncCenter(center)
        ms == {m \in LiveOnes(d.model) : d.model[m].type = t}
    IN  /\ Roomy(center)
        /\ \E def \in ms, spare \in ms, S \in {{}, {ch \in LiveOnes(d.channel) : d.channel[ch].model \in ms}} :
            Change([d EXCEPT
                !.policy[t] = [source |-> "center", def |-> def, fallback |-> spare, routing |-> TRUE],
                !.entry[t] = [ch \in DOMAIN d.channel |->
                    IF ch \in S THEN [model |-> d.channel[ch].model, on |-> on] ELSE NoEntry]])
-----------------------------------------------------------------------------
(* Configurations.                                                         *)

OfType(d, t) == {i \in LiveOnes(d.config) : TypeOf[d.config[i].runtime] = t}

CreateConfig == \E name \in Names, r \in Runtimes, key \in ProviderKeys :
    /\ NextRow(center.config) # 0
    /\ Change([center EXCEPT !.config =
                 AddConfig(@, [st |-> "live", name |-> name, runtime |-> r, key |-> key, on |-> TRUE])])

LoadConfig(e) == \E i \in LiveOnes(center.config) : Load(e, center, "config", i, center.config[i])

SaveConfig(e) == \E r \in Runtimes, key \in ProviderKeys, on \in BOOLEAN :
    /\ editing[e].of = "config"
    /\ Save(e, "config", [center EXCEPT !.config[editing[e].id] =
                            [editing[e].row EXCEPT !.runtime = r, !.key = key, !.on = on]])
    /\ UNCHANGED strays

InUse(s, i) == i = s.fallback \/ \E t \in Types : i = s.def[t]

Replacement(d, i) ==
    LET same == OfType(d, TypeOf[d.config[i].runtime]) \ {i}
        on   == {j \in same : d.config[j].on}
    IN  Lowest(IF on # {} THEN on ELSE same)

(* The deletion of a configuration: one that is a default is deleted when  *)
(* forced, and when another takes its place.                               *)
LoadForDelete(e) == \E i \in LiveOnes(center.config), force \in BOOLEAN :
    /\ InUse(center.settings, i) => force /\ Replacement(center, i) # 0
    /\ Load(e, center, "deletion", i, [settings |-> center.settings, instead |-> Replacement(center, i)])

(* The settings are saved as they were read, with their changes.           *)
SaveDeletion(e) ==
    LET i     == editing[e].id
        row   == editing[e].row
        s     == row.settings
        image == TypeOf[center.config[i].runtime] = "image"
        r     == center.config[i].runtime
        only  == ~\E j \in OfType(center, "image") \ {i} : center.config[j].runtime = r
        swap(x) == IF x = i /\ row.instead # 0 THEN row.instead ELSE x
        kept  == IF image /\ only THEN s.allowed \ {r} ELSE s.allowed
        taken == IF image /\ InUse(s, i) THEN kept \cup {center.config[row.instead].runtime} ELSE kept
        new   == [s EXCEPT !.def = [t \in Types |-> swap(@[t])], !.fallback = swap(@), !.allowed = taken]
    IN  /\ editing[e].of = "deletion"
        /\ Save(e, "deletion", [center EXCEPT !.config = Deleted(@, {i}), !.settings = IF new = s THEN @ ELSE new])
        /\ UNCHANGED strays

(* The defaults are chosen, and checked, after the settings were read.     *)
LoadForDefaults(e) ==
    LET images == OfType(center, "image")
        videos == OfType(center, "video")
    IN  \E i \in images, f \in images, v \in videos :
            Load(e, center, "defaults", i, [settings |-> center.settings, image |-> i, fallback |-> f, video |-> v,
                                            runtime |-> center.config[i].runtime])

SaveDefaults(e) ==
    LET row == editing[e].row
    IN  /\ editing[e].of = "defaults"
        /\ Save(e, "defaults", [center EXCEPT !.settings =
                [row.settings EXCEPT !.def = [t \in Types |-> IF t = "image" THEN row.image ELSE row.video],
                                     !.fallback = row.fallback, !.allowed = @ \cup {row.runtime}]])
        /\ UNCHANGED strays
-----------------------------------------------------------------------------
CenterNext ==
    \/ RestartCenter \/ UseCenter
    \/ CreateModel \/ DeleteModel \/ CreateProvider \/ DeleteProvider
    \/ DeleteChannel \/ PutRouting \/ CreateConfig
    \/ \E e \in Desks :
        \/ LoadModel(e) \/ SaveModel(e) \/ LoadProvider(e) \/ SaveProvider(e)
        \/ LoadForChannel(e) \/ CreateChannel(e) \/ LoadChannel(e) \/ CheckChannel(e) \/ SaveChannel(e)
        \/ LoadConfig(e) \/ SaveConfig(e)
        \/ LoadForDelete(e) \/ SaveDeletion(e) \/ LoadForDefaults(e) \/ SaveDefaults(e)

CenterSpec == CenterInit /\ [][CenterNext]_modelCenter
-----------------------------------------------------------------------------
CenterTypeOK ==
    /\ \A i \in 1..MaxConfigs : center.config[i].st \in {"unmade", "live", "deleted"}
    /\ \A ch \in 1..MaxChannels : /\ center.channel[ch].model \in 0..MaxModels
                                  /\ center.channel[ch].provider \in 0..MaxProviders
                                  /\ center.channel[ch].config \in 0..MaxConfigs
    /\ \A t \in Types : /\ center.policy[t].def \in 0..MaxModels
                        /\ center.settings.def[t] \in 0..MaxConfigs
    /\ edited \in 0..MaxSaves /\ strays \in SUBSET (1..MaxChannels) /\ synced \in BOOLEAN

(* A configuration never has two channels, even counting deleted ones:     *)
(* what an administrator deleted in the centre does not come back from the *)
(* configuration it was derived from.                                      *)
OneChannelPerConfig == \A a, b \in DOMAIN center.channel :
    /\ center.channel[a].config # 0 /\ center.channel[a].config = center.channel[b].config
    => a = b

(* A synchronisation right after another makes no row, removes and        *)
(* converts none: at most a channel joins the model of the oldest one with *)
(* its runtime; and after that one there is nothing left to do.  So the    *)
(* centre does not grow with use, nor turn back and forth; unless a        *)
(* channel with no configuration shares the runtime of one.                *)
Shared == \E ch \in LiveOnes(center.channel), i \in LiveOnes(center.config) :
    center.channel[ch].config \notin LiveOnes(center.config) /\ center.channel[ch].runtime = center.config[i].runtime

OnlyJoins(d, e) ==
    /\ e.config = d.config /\ e.model = d.model /\ e.provider = d.provider /\ e.settings = d.settings
    /\ \A ch \in DOMAIN d.channel : e.channel[ch] = [d.channel[ch] EXCEPT !.model = e.channel[ch].model]

SyncSettles ==
    synced /\ ~Shared =>
        LET again == SyncCenter(center)
        IN  OnlyJoins(center, again) /\ SyncCenter(again) = again

(* A generation is never sent to a channel whose provider is gone or       *)
(* switched off.  A channel may be saved with a provider that was deleted  *)
(* after it was looked up; the next synchronisation gives it another when  *)
(* it has a configuration, so that only a channel made by hand stays so.   *)
MayStray(ch) == ch \in strays /\ (synced => center.channel[ch].config \notin LiveOnes(center.config))

CandidatesHaveProviders == \A t \in Types : \A n \in DOMAIN CandidatesFor(center, t) :
    LET ch == CandidatesFor(center, t)[n]
        p  == center.channel[ch].provider
    IN  MayStray(ch) \/ (p \in LiveOnes(center.provider) /\ center.provider[p].on)

(* What the centre holds is consistent.                                    *)
CenterAgrees == OneChannelPerConfig /\ SyncSettles /\ CandidatesHaveProviders
=============================================================================
