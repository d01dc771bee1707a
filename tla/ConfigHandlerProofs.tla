------------------------ MODULE ConfigHandlerProofs ------------------------
(* Type correctness of the settings, whatever the ConfigMaps redirect to;   *)
(* that settings and metric agree with the ConfigMap when nothing is on its *)
(* way (Settling is inductive); and that stored settings are in force from  *)
(* the start (Early is inductive). Events are mapped one object after the   *)
(* other and one key after the other, so the argument is about the last     *)
(* event, the last object and the keys that are left.                       *)
EXTENDS ConfigHandler, FiniteSetTheorems, TLAPS

\* Each leaf is given to Zenon and then to SMT, with time for slow machines.
USE ZenonT(10), SMTT(20)
-----------------------------------------------------------------------------
(* The list of the informer: SetToSeqs leaves nothing out.                  *)
LEMMA SequencesOfASet ==
  ASSUME NEW S, IsFiniteSet(S), NEW s \in SetToSeqs(S)
  PROVE  s \in Seq(S) /\ \A x \in S : \E i \in 1 .. Len(s) : s[i] = x
<1> DEFINE D == 1 .. Cardinality(S)
<1>1. Cardinality(S) \in Nat
  BY FS_CardinalityType
<1>2. s \in [D -> S] /\ \A i, j \in D : i # j => s[i] # s[j]
  BY DEF SetToSeqs
<1>3. s \in Seq(S) /\ Len(s) = Cardinality(S)
  BY SMTT(20), <1>1, <1>2
<1>4. IsFiniteSet(D) /\ Cardinality(D) = Cardinality(S)
  BY SMTT(20), <1>1, FS_Interval
<1>5. s \in Injection(D, S)
  BY <1>2 DEF Injection, IsInjective
<1>6. s \in Surjection(D, S)
  BY <1>4, <1>5, FS_Injection
<1>7. \A x \in S : \E i \in D : s[i] = x
  BY <1>6 DEF Surjection
<1> QED BY <1>3, <1>7

\* There are finitely many ConfigMaps to list.
LEMMA FinitelyListed == IsFiniteSet(Listed)
<1> DEFINE N == {m \in Names : cms[m] # NoData}
           f == [n \in N |-> [name |-> n, old |-> NoData, new |-> cms[n]]]
<1>1. IsFiniteSet(N)
  BY ConfigAssumption, FS_Subset
<1>2. f \in Surjection(N, Listed)
  BY SMTT(20) DEF Surjection, Listed
<1> QED BY <1>1, <1>2, FS_Surjection
-----------------------------------------------------------------------------
(* Types.                                                                   *)
Events == [name : Names, old : Data, new : Data]

\* Keys are assigned from the object that is mapped, and an event changes
\* something.
Mapping ==
  /\ objects = <<>> => remaining = {}
  /\ objects # <<>> => remaining \subseteq Set(Head(objects))
  /\ \A i \in 1 .. Len(events) : events[i].old # events[i].new

Types == TypeOK /\ Mapping

\* What users write, key by key, and that an absent ConfigMap is no content.
LEMMA ContentTypes ==
  /\ NoData \notin Contents /\ Set(NoData) = {}
  /\ \A c \in Contents : \A k \in Set(c) :
       /\ k \in Keys /\ ((k \in Durations /\ c[k] = "bad") \/ c[k] \in Values)
       /\ k = "ConfigName" => c[k] \in Names /\ k \notin Durations
<1>1. "ConfigName" \in Keys /\ "ConfigName" \notin Durations
  BY DEF Keys, Durations
<1>2. NoData \notin Contents
  <2>1. \A c \in Contents : c["ConfigName"] # "absent"
    BY <1>1, ConfigAssumption DEF KindOf
  <2>2. NoData["ConfigName"] = "absent"
    BY <1>1 DEF NoData
  <2> QED BY <2>1, <2>2
<1>3. Set(NoData) = {}
  BY DEF Set, NoData
<1>4. ASSUME NEW c \in Contents, NEW k \in Set(c)
      PROVE  /\ k \in Keys /\ ((k \in Durations /\ c[k] = "bad") \/ c[k] \in Values)
             /\ k = "ConfigName" => c[k] \in Names /\ k \notin Durations
  <2>1. k \in Keys /\ c[k] \in KindOf(k)
    BY <1>4, ConfigAssumption DEF Set
  <2>2. CASE k = "ConfigName"
    BY <2>1, <2>2, <1>1 DEF KindOf, Values
  <2>3. CASE k = "EnableLimitedCache"
    BY <2>1, <2>3 DEF KindOf, Values
  <2>4. CASE k \in Durations
    <3>1. k \in {"ReadyTimeout", "ProbeInterval"}
      BY <2>4 DEF Durations
    <3>2. c[k] \in {"default", "custom", "0", "bad"}
      BY <2>1, <3>1 DEF KindOf
    <3> QED BY <2>1, <2>4, <3>2, <1>1 DEF Values
  <2> QED BY <2>1, <2>2, <2>3, <2>4 DEF Keys, Durations
<1> QED BY <1>2, <1>3, <1>4

\* A value that is assigned is one of its kind.
LEMMA ParsedTypes ==
  ASSUME g \in [Keys -> Values], g["ConfigName"] \in Names, NEW c \in Contents, NEW k \in Set(c)
  PROVE  Parsed(k, c) \in Values /\ (k = "ConfigName" => Parsed(k, c) \in Names)
<1>1. k \in Keys /\ g[k] \in Values
  BY ContentTypes
<1> QED BY <1>1, ContentTypes DEF Parsed

LEMMA FlagTypes == Flags \in [Keys -> Values] /\ Flags["ConfigName"] = Default /\ Default \in Names
BY ConfigAssumption DEF Flags, Values, Keys

LEMMA InitTypes == ASSUME Init PROVE Types
<1>1. cached \in [Names -> Data] /\ cms \in [Names -> Data] /\ g["ConfigName"] \in Names
  BY FlagTypes DEF Init, Data
<1>2. events \in Seq(Events) /\ objects \in Seq(Contents) /\ Len(events) = 0
  BY SMTT(20) DEF Init
<1>3. edits \in 0 .. MaxEdits /\ fails \in 0 .. MaxFails /\ restarts \in 0 .. MaxRestarts
  BY SMTT(20), ConfigAssumption DEF Init
<1>4. TypeOK
  BY <1>1, <1>2, <1>3, FlagTypes DEF Init, TypeOK, Events
<1>5. Mapping
  <2>1. \A i \in 1 .. Len(events) : FALSE
    BY SMTT(20), <1>2
  <2> QED BY <2>1 DEF Init, Mapping
<1> QED BY <1>4, <1>5 DEF Types

\* The rest of a sequence.
LEMMA Tails ==
  ASSUME NEW S, NEW s \in Seq(S), s # <<>>
  PROVE  /\ Tail(s) \in Seq(S) /\ Head(s) \in S /\ Head(s) = s[1]
         /\ Len(s) \in Nat /\ Len(s) >= 1 /\ 1 \in 1 .. Len(s)
         /\ Len(Tail(s)) = Len(s) - 1 /\ (Tail(s) = <<>> <=> Len(s) = 1)
         /\ \A i \in 1 .. Len(Tail(s)) : Tail(s)[i] = s[i + 1] /\ i + 1 \in 1 .. Len(s)
         /\ \A i \in 1 .. Len(s) : i = 1 \/ (i - 1 \in 1 .. Len(Tail(s)) /\ Tail(s)[i - 1] = s[i])
<1>1. /\ Tail(s) \in Seq(S) /\ Head(s) \in S /\ Head(s) = s[1] /\ Len(s) \in Nat /\ Len(s) >= 1
      /\ Len(Tail(s)) = Len(s) - 1
  BY SMTT(20)
<1>2. \A i \in 1 .. Len(Tail(s)) : Tail(s)[i] = s[i + 1]
  BY SMTT(20), <1>1
<1>3. Tail(s) = <<>> <=> Len(s) = 1
  BY SMTT(20), <1>1
<1>4. \A i \in 1 .. Len(Tail(s)) : i + 1 \in 1 .. Len(s)
  BY SMTT(20), <1>1
<1>5. ASSUME NEW i \in 1 .. Len(s), i # 1
      PROVE  i - 1 \in 1 .. Len(Tail(s)) /\ Tail(s)[i - 1] = s[i]
  <2>1. i - 1 \in 1 .. Len(Tail(s)) /\ (i - 1) + 1 = i
    BY SMTT(20), <1>1, <1>5
  <2> QED BY <2>1, <1>2
<1>6. 1 \in 1 .. Len(s)
  BY SMTT(20), <1>1
<1> QED BY <1>1, <1>2, <1>3, <1>4, <1>5, <1>6

\* What is mapped for an event: the new object last, unless it is deleted.
LEMMA ObjectsOf ==
  ASSUME NEW e \in Events, e.old # e.new
  PROVE  /\ Objects(e) \in Seq(Contents) /\ Objects(e) # <<>>
         /\ e.new # NoData => Objects(e)[Len(Objects(e))] = e.new
         /\ e.old = NoData => Objects(e) = <<e.new>>
<1>1. e.old \in Contents \cup {NoData} /\ e.new \in Contents \cup {NoData}
  BY SMTT(20) DEF Events, Data
<1>2. CASE e.old = NoData
  <2>1. Objects(e) = <<e.new>> /\ e.new \in Contents
    BY <1>1, <1>2 DEF Objects
  <2> QED BY SMTT(20), <2>1
<1>3. CASE e.old # NoData /\ e.new = NoData
  <2>1. Objects(e) = <<e.old>> /\ e.old \in Contents
    BY <1>1, <1>3 DEF Objects
  <2> QED BY SMTT(20), <2>1, <1>3
<1>4. CASE e.old # NoData /\ e.new # NoData
  <2>1. Objects(e) = <<e.old, e.new>> /\ e.old \in Contents /\ e.new \in Contents
    BY <1>1, <1>4 DEF Objects
  <2> QED BY SMTT(20), <2>1, <1>4
<1> QED BY <1>2, <1>3, <1>4

LEMMA AssignTypes == ASSUME Types, NEW k \in Keys, Assign(k) PROVE Types'
<1>1. objects # <<>> /\ k \in Set(Head(objects)) /\ objects \in Seq(Contents)
  BY DEF Types, TypeOK, Mapping, Assign
<1>2. Head(objects) \in Contents
  BY SMTT(20), <1>1
<1>3. Parsed(k, Head(objects)) \in Values /\ (k = "ConfigName" => Parsed(k, Head(objects)) \in Names)
  BY <1>1, <1>2, ParsedTypes DEF Types, TypeOK
<1>4. "ConfigName" \in Keys
  BY DEF Keys
<1>5. g' \in [Keys -> Values] /\ g'["ConfigName"] \in Names
  BY <1>3, <1>4 DEF Types, TypeOK, Assign
<1>6. remaining' \subseteq remaining
  BY DEF Assign
<1>7. TypeOK'
  BY <1>5, <1>6 DEF Types, TypeOK, Assign, worker, counts
<1>8. Mapping'
  BY <1>6 DEF Types, Mapping, Assign
<1> QED BY <1>7, <1>8 DEF Types

LEMMA ReturnTypes == ASSUME Types, ReturnRequest PROVE Types'
<1>1. objects # <<>> /\ objects \in Seq(Contents) /\ objects' = Tail(objects)
  BY DEF Types, TypeOK, ReturnRequest
<1>2. objects' \in Seq(Contents)
  BY <1>1, Tails
<1>3. remaining' \subseteq Keys
  BY DEF ReturnRequest, Set
<1>4. queue' \subseteq {"cr"} /\ enqueued' \in BOOLEAN
  BY DEF ReturnRequest, Types, TypeOK
<1>5. TypeOK'
  BY <1>2, <1>3, <1>4 DEF Types, TypeOK, ReturnRequest, counts
<1>6. Mapping'
  BY <1>1 DEF Types, Mapping, ReturnRequest
<1> QED BY <1>5, <1>6 DEF Types

LEMMA DeliverTypes == ASSUME Types, Deliver PROVE Types'
<1>1. events # <<>> /\ events \in Seq(Events) /\ events' = Tail(events) /\ Head(events) = events[1]
  BY Tails DEF Types, TypeOK, Deliver, Events
<1>2. events' \in Seq(Events) /\ Head(events) \in Events /\ 1 \in 1 .. Len(events)
  BY <1>1, Tails
<1>3. Head(events).old # Head(events).new
  BY <1>1, <1>2 DEF Types, Mapping
<1>4. /\ Objects(Head(events)) \in Seq(Contents) /\ Objects(Head(events)) # <<>>
      /\ Set(Head(Objects(Head(events)))) \subseteq Keys
  BY <1>2, <1>3, ObjectsOf DEF Set
<1>5. cached' \in [Names -> Data]
  <2>1. Head(events).name \in Names /\ Head(events).new \in Data
    BY SMTT(20), <1>2 DEF Events
  <2> QED BY <2>1 DEF Types, TypeOK, Deliver
<1>6. objects' \in Seq(Contents) /\ remaining' \subseteq Keys /\ gauge' \in {0, 1}
  BY <1>4 DEF Types, TypeOK, Deliver, GaugeAfter
<1>7. TypeOK'
  BY <1>2, <1>5, <1>6 DEF Types, TypeOK, Deliver, Events, worker, counts
<1>8. (objects' = <<>> => remaining' = {}) /\ (objects' # <<>> => remaining' \subseteq Set(Head(objects')))
  BY <1>4 DEF Types, Mapping, Deliver
<1>9. \A i \in 1 .. Len(events') : events'[i].old # events'[i].new
  <2>1. \A i \in 1 .. Len(events') : events'[i] = events[i + 1] /\ i + 1 \in 1 .. Len(events)
    BY <1>1, Tails
  <2> QED BY <2>1 DEF Types, Mapping
<1> QED BY <1>7, <1>8, <1>9 DEF Types, Mapping

LEMMA ListedTypes ==
  ASSUME cms \in [Names -> Data]
  PROVE  Listed \subseteq Events /\ \A e \in Listed : e.old = NoData /\ e.new # NoData
BY SMTT(20) DEF Listed, Events, Data

LEMMA ApplyTypes == ASSUME Types, ApplyFromAPI PROVE Types'
<1>1. events' \in Seq(Listed) /\ Listed \subseteq Events
  BY FinitelyListed, SequencesOfASet, ListedTypes DEF Types, TypeOK, ApplyFromAPI
<1>2. \A i \in 1 .. Len(events') : events'[i] \in Listed
  BY SMTT(20), <1>1
<1>3. events' \in Seq(Events)
  BY SMTT(20), <1>1
<1>4. g' \in [Keys -> Values] /\ g'["ConfigName"] \in Names
  <2> DEFINE data == cms[g["ConfigName"]]
  <2>1. data \in Contents \cup {NoData} /\ "ConfigName" \in Keys
    BY DEF Types, TypeOK, Data, Keys
  <2>2. \A k \in Keys : k \in Set(data) =>
          Parsed(k, data) \in Values /\ (k = "ConfigName" => Parsed(k, data) \in Names)
    BY <2>1, ParsedTypes, ContentTypes DEF Types, TypeOK
  <2>3. Overwrite(data) \in [Keys -> Values] /\ Overwrite(data)["ConfigName"] \in Names
    BY <2>1, <2>2 DEF Types, TypeOK, Overwrite
  <2> QED BY <2>3 DEF ApplyFromAPI, Types, TypeOK
<1>5. fails' \in 0 .. MaxFails
  BY SMTT(20), ConfigAssumption DEF Types, TypeOK, ApplyFromAPI
<1>6. TypeOK'
  BY <1>3, <1>4, <1>5 DEF Types, TypeOK, ApplyFromAPI, Events, handler
<1>7. Mapping'
  BY <1>2, ListedTypes DEF Types, TypeOK, Mapping, ApplyFromAPI, handler
<1> QED BY <1>6, <1>7 DEF Types

LEMMA EditTypes == ASSUME Types, NEW n \in Names, NEW d \in Data, UserEdits(n, d) PROVE Types'
<1> DEFINE e == [name |-> n, old |-> cms[n], new |-> d]
<1>1. events \in Seq(Events) /\ e \in Events /\ e.old # e.new
  BY DEF Types, TypeOK, UserEdits, Events
<1>2. events' = events \/ events' = Append(events, e)
  BY DEF UserEdits
<1>3. events' \in Seq(Events)
  BY SMTT(20), <1>1, <1>2
<1>4. edits' \in 0 .. MaxEdits
  BY SMTT(20), ConfigAssumption DEF Types, TypeOK, UserEdits
<1>5. cms' \in [Names -> Data]
  BY DEF Types, TypeOK, UserEdits
<1>6. TypeOK'
  BY <1>3, <1>4, <1>5 DEF Types, TypeOK, UserEdits, Events, handler, worker
<1>7. \A i \in 1 .. Len(events') : (i \in 1 .. Len(events) /\ events'[i] = events[i]) \/ events'[i] = e
  <2> HIDE DEF e
  <2> QED BY SMTT(20), <1>1, <1>2
<1>8. Mapping'
  BY <1>1, <1>7 DEF Types, Mapping, UserEdits, handler
<1> QED BY <1>6, <1>8 DEF Types

LEMMA RestartTypes == ASSUME Types, Restart PROVE Types'
<1>1. cached' \in [Names -> Data] /\ g'["ConfigName"] \in Names
  BY FlagTypes DEF Restart, Fresh, Data
<1>2. events' \in Seq(Events) /\ objects' \in Seq(Contents) /\ Len(events') = 0
  BY SMTT(20) DEF Restart, Fresh
<1>3. restarts' \in 0 .. MaxRestarts
  BY SMTT(20), ConfigAssumption DEF Types, TypeOK, Restart
<1>4. TypeOK'
  BY <1>1, <1>2, <1>3, FlagTypes DEF Restart, Fresh, Types, TypeOK, Events
<1>5. Mapping'
  <2>1. \A i \in 1 .. Len(events') : FALSE
    BY SMTT(20), <1>2
  <2> QED BY <2>1 DEF Restart, Fresh, Mapping
<1> QED BY <1>4, <1>5 DEF Types

\* Start, StartProbe, Pass and Timer leave events and objects alone.
LEMMA OtherTypes == ASSUME Types, Start \/ StartProbe \/ Pass \/ Timer PROVE Types'
<1>1. UNCHANGED <<cms, events, cached, g, phase, handler, counts>>
  BY DEF Start, StartProbe, Pass, Timer
<1>2. gauge' \in {0, 1} /\ startup' \in {"new", "found", "done"} /\ probe' \in {"new", "on", "off"}
  BY DEF Types, TypeOK, Start, StartProbe, Pass, Timer
<1>3. queue' \subseteq {"cr"} /\ pc' \in {"idle", "apply", "wait"}
  BY DEF Types, TypeOK, Start, StartProbe, Pass, Timer, worker
<1>4. used' \in [Keys -> Values]
  <2>1. "EnableLimitedCache" \in Keys /\ "ReadyTimeout" \in Keys
    BY DEF Keys
  <2>2. g["EnableLimitedCache"] \in Values /\ g["ReadyTimeout"] \in Values
    BY <2>1 DEF Types, TypeOK
  <2> QED BY <2>1, <2>2 DEF Types, TypeOK, Start, StartProbe, Pass, Timer, worker
<1>5. TypeOK'
  BY <1>1, <1>2, <1>3, <1>4 DEF Types, TypeOK, handler, counts
<1>6. Mapping'
  BY <1>1 DEF Types, Mapping, handler
<1> QED BY <1>5, <1>6 DEF Types

LEMMA NextTypes == Types /\ [Next]_vars => Types'
<1> SUFFICES ASSUME Types, [Next]_vars PROVE Types'
  OBVIOUS
<1>1. CASE UNCHANGED vars
  BY <1>1 DEF Types, TypeOK, Mapping, vars, handler, worker, counts
<1>2. CASE Next
  BY <1>2, ApplyTypes, OtherTypes, RestartTypes, DeliverTypes, ReturnTypes, AssignTypes, EditTypes
     DEF Next
<1> QED BY <1>1, <1>2

(* Every variable keeps its type: a setting holds a value of its kind and   *)
(* ConfigName a name, whatever the ConfigMaps hold, redirect to or fail to  *)
(* parse, in whatever order events, assignments and restarts come.          *)
THEOREM TypeCorrect == Spec => []TypeOK
<1>1. Types => TypeOK
  BY DEF Types
<1>2. Init => Types
  BY InitTypes
<1> QED BY <1>1, <1>2, NextTypes, PTL DEF Spec
-----------------------------------------------------------------------------
(* With one ConfigMap.                                                      *)
\* No content names another ConfigMap.
OneConfigMap == \A c \in Contents : c["ConfigName"] \in {"unset", Default}

\* The events of the ConfigMap that are still to come.
Coming == {i \in 1 .. Len(events) : events[i].name = Default}
InForce(k) == g[k] = cms[Default][k]

\* The last event to come brings the ConfigMap as it is. When none is to come,
\* it is mapped last, and a key that is not in force is still to be assigned.
Settling ==
  /\ g["ConfigName"] = Default
  /\ phase = "main" => events = <<>> /\ objects = <<>>
  /\ phase = "running" =>
       /\ \A i \in Coming : events[i].new = cms[Default] \/ \E j \in Coming : j > i
       /\ Coming = {} /\ cms[Default] # NoData =>
            /\ gauge = 1
            /\ objects # <<>> => objects[Len(objects)] = cms[Default]
            /\ \A k \in Keys : Valid(k, cms[Default]) =>
                 InForce(k) \/ Len(objects) > 1 \/ k \in remaining

\* Until a user edits, and unless the read at start-up fails, nothing but the
\* stored ConfigMap is listed and mapped.
Early ==
  /\ pc # "idle" \/ probe # "new" => phase = "running"
  /\ edits = 0 /\ fails = 0 =>
       /\ \A i \in Coming : events[i].old = NoData /\ events[i].new = cms[Default]
       /\ \A i \in 1 .. Len(objects) : objects[i] = cms[Default]

SInv == Types /\ Settling /\ Early /\ InForceFromTheStart

\* Assigning a key of the ConfigMap brings its value into force if it parses.
LEMMA ValidIsParsed ==
  ASSUME NEW k \in Keys, NEW data
  PROVE  /\ Valid(k, data) => k \in Set(data) /\ Parsed(k, data) = data[k]
         /\ k \in Set(data) /\ ~Valid(k, data) => Parsed(k, data) = g[k]
BY DEF Valid, Parsed

LEMMA NameStays ==
  ASSUME OneConfigMap, NEW c \in Contents, "ConfigName" \in Set(c)
  PROVE  Parsed("ConfigName", c) = Default
<1>1. c["ConfigName"] = Default /\ "ConfigName" \notin Durations
  BY DEF OneConfigMap, Set, Durations
<1> QED BY <1>1 DEF Parsed

LEMMA InitSettles == ASSUME Init PROVE Settling /\ Early /\ InForceFromTheStart
<1>1. g["ConfigName"] = Default
  BY FlagTypes DEF Init
<1>2. events = <<>> /\ objects = <<>> /\ phase = "main" /\ pc = "idle" /\ probe = "new"
  BY DEF Init
<1>3. Len(events) = 0 /\ Len(objects) = 0 /\ 1 .. Len(events) = {} /\ 1 .. Len(objects) = {}
  BY SMTT(20), <1>2
<1> QED BY <1>1, <1>2, <1>3 DEF Settling, Early, InForceFromTheStart, Coming

LEMMA AssignSettles ==
  ASSUME OneConfigMap, SInv, NEW k \in Keys, Assign(k)
  PROVE  Settling' /\ Early' /\ InForceFromTheStart'
<1>1. /\ objects # <<>> /\ k \in Set(Head(objects)) /\ objects \in Seq(Contents)
      /\ Head(objects) \in Contents /\ Head(objects) = objects[1]
      /\ Len(objects) \in Nat /\ Len(objects) >= 1 /\ 1 \in 1 .. Len(objects)
  BY Tails DEF SInv, Types, TypeOK, Mapping, Assign
<1>2. /\ UNCHANGED <<cms, events, gauge, phase, objects, probe, pc, used, edits, fails>>
      /\ remaining' = remaining \ {k} /\ k \in remaining
      /\ g \in [Keys -> Values] /\ g' = [g EXCEPT ![k] = Parsed(k, Head(objects))]
      /\ Coming' = Coming
  BY DEF SInv, Types, TypeOK, Assign, worker, counts, Coming
<1>3. /\ g'[k] = Parsed(k, Head(objects)) /\ \A q \in Keys : q # k => g'[q] = g[q]
      /\ \A q : Valid(q, cms[Default])' <=> Valid(q, cms[Default])
  BY <1>2 DEF Valid, Set
<1>4. g'["ConfigName"] = Default
  <2>1. "ConfigName" \in Keys
    BY DEF Keys
  <2> QED BY <2>1, <1>1, <1>3, NameStays DEF SInv, Settling
<1>5. Head(objects) = cms[Default] /\ Valid(k, cms[Default]) => g'[k] = cms[Default][k]
  BY <1>3, ValidIsParsed
<1>6. Len(objects) > 1 \/ Head(objects) = objects[Len(objects)]
  BY SMTT(20), <1>1
<1>7. ASSUME phase = "running", Coming = {}, cms[Default] # NoData,
             NEW q \in Keys, Valid(q, cms[Default])
      PROVE  InForce(q)' \/ Len(objects) > 1 \/ q \in remaining'
  <2>1. InForce(q) \/ Len(objects) > 1 \/ q \in remaining
    BY <1>7 DEF SInv, Settling
  <2>2. objects[Len(objects)] = cms[Default]
    BY <1>7, <1>1 DEF SInv, Settling
  <2>3. CASE q = k
    BY <2>2, <2>3, <1>2, <1>5, <1>6, <1>7 DEF InForce
  <2>4. CASE q # k
    BY <2>1, <2>4, <1>2, <1>3 DEF InForce
  <2> QED BY <2>3, <2>4
<1>8. Settling'
  BY <1>2, <1>3, <1>4, <1>7 DEF SInv, Settling
<1>9. Early'
  BY <1>2 DEF SInv, Early
<1>10. InForceFromTheStart'
  <2>1. ASSUME edits = 0, fails = 0, phase = "running", NEW q \in Keys, Valid(q, cms[Default])
        PROVE  g'[q] = cms[Default][q]
    <3>1. g[q] = cms[Default][q] /\ Head(objects) = cms[Default]
      BY <2>1, <1>1 DEF SInv, Early, InForceFromTheStart
    <3> QED BY <2>1, <3>1, <1>3, <1>5
  <2> QED BY <2>1, <1>2, <1>3 DEF SInv, InForceFromTheStart
<1> QED BY <1>8, <1>9, <1>10

LEMMA ReturnSettles ==
  ASSUME SInv, ReturnRequest PROVE Settling' /\ Early' /\ InForceFromTheStart'
<1>1. /\ objects # <<>> /\ objects \in Seq(Contents) /\ objects' = Tail(objects) /\ remaining = {}
      /\ UNCHANGED <<cms, events, g, gauge, phase, probe, pc, used, edits, fails>>
      /\ remaining' = (IF Tail(objects) = <<>> THEN {} ELSE Set(Head(Tail(objects))))
  BY DEF SInv, Types, TypeOK, ReturnRequest, counts
<1>2. /\ Len(objects) \in Nat /\ Len(objects) >= 1 /\ Len(objects') = Len(objects) - 1
      /\ objects' = <<>> <=> Len(objects) = 1
      /\ \A i \in 1 .. Len(objects') : objects'[i] = objects[i + 1] /\ i + 1 \in 1 .. Len(objects)
  BY <1>1, Tails
<1>3. Coming' = Coming /\ (\A q : Valid(q, cms[Default])' <=> Valid(q, cms[Default]))
      /\ \A q : InForce(q)' <=> InForce(q)
  BY <1>1 DEF Coming, Valid, Set, InForce
<1>4. ASSUME objects' # <<>>
      PROVE  /\ Len(objects') \in 1 .. Len(objects') /\ objects'[Len(objects')] = objects[Len(objects)]
             /\ Len(objects') > 1 \/ Head(objects') = objects'[Len(objects')]
  <2>1. Len(objects) > 1
    BY SMTT(20), <1>2, <1>4
  <2>2. Len(objects') \in 1 .. Len(objects') /\ Len(objects') + 1 = Len(objects)
    BY SMTT(20), <1>2, <2>1
  <2>3. objects' \in Seq(Contents)
    BY <1>1, Tails
  <2>4. Len(objects') > 1 \/ Head(objects') = objects'[Len(objects')]
    BY SMTT(20), <2>2, <2>3
  <2> QED BY <2>2, <2>4, <1>2
<1>5. ASSUME phase = "running", Coming = {}, cms[Default] # NoData
      PROVE  /\ gauge = 1 /\ (objects' # <<>> => objects'[Len(objects')] = cms[Default])
             /\ \A q \in Keys : Valid(q, cms[Default]) =>
                  InForce(q) \/ Len(objects') > 1 \/ q \in remaining'
  <2>1. /\ gauge = 1 /\ objects[Len(objects)] = cms[Default]
        /\ \A q \in Keys : Valid(q, cms[Default]) => InForce(q) \/ Len(objects) > 1
    BY <1>5, <1>1 DEF SInv, Settling
  <2>2. CASE objects' = <<>>
    <3>1. ~(Len(objects) > 1)
      BY SMTT(20), <2>2, <1>2
    <3> QED BY <2>1, <2>2, <3>1
  <2>3. CASE objects' # <<>>
    BY <2>1, <2>3, <1>1, <1>4 DEF Valid
  <2> QED BY <2>2, <2>3
<1>6. Settling'
  <2>1. phase # "main"
    BY <1>1 DEF SInv, Settling
  <2> QED BY <2>1, <1>1, <1>3, <1>5 DEF SInv, Settling
<1>7. Early'
  BY <1>1, <1>2, <1>3 DEF SInv, Early
<1>8. InForceFromTheStart'
  BY <1>1, <1>3 DEF SInv, InForceFromTheStart, InForce
<1> QED BY <1>6, <1>7, <1>8

LEMMA DeliverSettles ==
  ASSUME SInv, Deliver PROVE Settling' /\ Early' /\ InForceFromTheStart'
<1> DEFINE e == Head(events)
<1>1. /\ phase = "running" /\ events # <<>> /\ objects = <<>> /\ events \in Seq(Events)
      /\ events' = Tail(events) /\ Len(objects) = 0 /\ remaining = {}
      /\ UNCHANGED <<cms, g, phase, probe, pc, used, edits, fails>>
  BY DEF SInv, Types, TypeOK, Mapping, Deliver, Events, worker, counts
<1>2. /\ e \in Events /\ e = events[1] /\ 1 \in 1 .. Len(events) /\ Len(events) \in Nat
      /\ \A i \in 1 .. Len(events') : events'[i] = events[i + 1] /\ i + 1 \in 1 .. Len(events)
      /\ \A i \in 1 .. Len(events) : i = 1 \/ (i - 1 \in 1 .. Len(events') /\ events'[i - 1] = events[i])
  BY <1>1, Tails
<1>3. e.old # e.new
  BY <1>2 DEF SInv, Types, Mapping
<1>4. /\ Objects(e) \in Seq(Contents) /\ Objects(e) # <<>>
      /\ e.new # NoData => Objects(e)[Len(Objects(e))] = e.new
      /\ e.old = NoData => Objects(e) = <<e.new>>
  BY <1>2, <1>3, ObjectsOf
<1>5. /\ \A q : Valid(q, cms[Default])' <=> Valid(q, cms[Default])
      /\ \A q : InForce(q)' <=> InForce(q)
  BY <1>1 DEF Valid, Set, InForce
<1>6. \A i \in Coming' : i + 1 \in Coming /\ events'[i] = events[i + 1]
  BY <1>2 DEF Coming
<1>7. \A i \in Coming : i = 1 \/ i - 1 \in Coming'
  BY <1>2 DEF Coming
<1>8. ASSUME NEW i \in Coming'
      PROVE  events'[i].new = cms[Default] \/ \E j \in Coming' : j > i
  <2>1. CASE events[i + 1].new = cms[Default]
    BY <2>1, <1>6
  <2>2. CASE events[i + 1].new # cms[Default]
    <3>1. PICK j \in Coming : j > i + 1
      BY <2>2, <1>1, <1>6 DEF SInv, Settling
    <3>2. j - 1 > i /\ j # 1
      <4>1. i \in Nat /\ j \in Nat /\ i >= 1
        BY SMTT(20), <1>2 DEF Coming
      <4> QED BY SMTT(20), <3>1, <4>1
    <3> QED BY <3>1, <3>2, <1>7
  <2> QED BY <2>1, <2>2
<1>9. ASSUME Coming' = {}, cms[Default] # NoData
      PROVE  /\ gauge' = 1 /\ (objects' # <<>> => objects'[Len(objects')] = cms[Default])
             /\ \A q \in Keys : Valid(q, cms[Default]) =>
                  InForce(q) \/ Len(objects') > 1 \/ q \in remaining'
  <2>1. CASE e.name = Default
    <3>1. \A j \in Coming : ~(j > 1)
      <4>1. \A j \in Coming : j = 1
        BY <1>7, <1>9
      <4> QED BY SMTT(20), <4>1
    <3>2. e.new = cms[Default]
      BY <2>1, <3>1, <1>1, <1>2 DEF SInv, Settling, Coming
    <3>3. /\ gauge' = 1 /\ objects' = Objects(e) /\ remaining' = Set(Head(Objects(e)))
          /\ objects'[Len(objects')] = cms[Default]
      BY <2>1, <3>2, <1>4, <1>9 DEF SInv, Settling, Deliver, Passes, GaugeAfter
    <3>4. Len(objects') > 1 \/ Head(objects') = objects'[Len(objects')]
      BY SMTT(20), <3>3, <1>4
    <3> QED BY <3>3, <3>4 DEF Valid
  <2>2. CASE e.name # Default
    <3>1. UNCHANGED <<gauge, objects, remaining>>
      BY <2>2 DEF SInv, Settling, Deliver, Passes
    <3>2. Coming = {}
      BY <2>2, <1>2, <1>7, <1>9 DEF Coming
    <3> QED BY <3>1, <3>2, <1>1, <1>9 DEF SInv, Settling
  <2> QED BY <2>1, <2>2
<1>10. Settling'
  <2>1. g'["ConfigName"] = Default /\ phase' # "main" /\ cms' = cms
    BY <1>1 DEF SInv, Settling
  <2>2. ASSUME Coming' = {}, cms'[Default] # NoData, NEW q \in Keys, Valid(q, cms[Default])'
        PROVE  InForce(q)' \/ Len(objects') > 1 \/ q \in remaining'
    BY <2>1, <2>2, <1>5, <1>9
  <2>3. \A i \in Coming' : events'[i].new = cms'[Default] \/ \E j \in Coming' : j > i
    BY <2>1, <1>8
  <2>4. Coming' = {} /\ cms'[Default] # NoData =>
          gauge' = 1 /\ (objects' # <<>> => objects'[Len(objects')] = cms'[Default])
    BY <2>1, <1>9
  <2> QED BY <2>1, <2>2, <2>3, <2>4 DEF Settling
<1>11. ASSUME edits = 0, fails = 0, NEW i \in 1 .. Len(objects') PROVE objects'[i] = cms[Default]
  <2>1. e.name = Default
    <3> SUFFICES ASSUME e.name # Default PROVE FALSE
      OBVIOUS
    <3>1. objects' = objects
      BY DEF SInv, Settling, Deliver, Passes
    <3> QED BY SMTT(20), <3>1, <1>1, <1>11
  <2>2. e.old = NoData /\ e.new = cms[Default]
    BY <2>1, <1>2, <1>11 DEF SInv, Early, Coming
  <2>3. objects' = <<cms[Default]>>
    BY <2>1, <2>2, <1>4 DEF SInv, Settling, Deliver, Passes
  <2> QED BY SMTT(20), <2>3
<1>12. Early'
  BY <1>1, <1>6, <1>11 DEF SInv, Early
<1>13. InForceFromTheStart'
  BY <1>1, <1>5 DEF SInv, InForceFromTheStart, InForce
<1> QED BY <1>10, <1>12, <1>13

LEMMA ApplySettles ==
  ASSUME OneConfigMap, SInv, ApplyFromAPI PROVE Settling' /\ Early' /\ InForceFromTheStart'
<1>1. /\ phase = "main" /\ phase' = "running" /\ objects = <<>> /\ objects' = objects
      /\ UNCHANGED <<cms, gauge, probe, pc, used, edits>> /\ pc = "idle" /\ probe = "new"
  BY DEF SInv, Settling, Early, ApplyFromAPI, handler
<1>2. /\ \A x \in Listed : \E i \in 1 .. Len(events') : events'[i] = x
      /\ events' \in Seq(Listed)
  BY FinitelyListed, SequencesOfASet DEF ApplyFromAPI
<1>3. \A i \in 1 .. Len(events') : events'[i] \in Listed
  BY SMTT(20), <1>2
<1>4. \A x \in Listed : x.old = NoData /\ (x.name = Default => x.new = cms[Default])
  BY SMTT(20) DEF Listed
<1>5. \A i \in Coming' : events'[i].old = NoData /\ events'[i].new = cms[Default]
  BY <1>3, <1>4 DEF Coming
<1>6. cms[Default] # NoData => Coming' # {}
  <2>1. cms[Default] # NoData => [name |-> Default, old |-> NoData, new |-> cms[Default]] \in Listed
    BY FlagTypes DEF Listed
  <2>2. [name |-> Default, old |-> NoData, new |-> cms[Default]].name = Default
    OBVIOUS
  <2> QED BY <2>1, <2>2, <1>2 DEF Coming
<1>7. /\ cms[Default] \in Contents \cup {NoData} /\ "ConfigName" \in Keys
      /\ g["ConfigName"] = Default
  BY FlagTypes DEF SInv, Settling, Types, TypeOK, Data, Keys
<1>8. g'["ConfigName"] = Default
  <2>1. Overwrite(cms[Default])["ConfigName"] = Default
    BY <1>7, NameStays, ContentTypes DEF Overwrite
  <2> QED BY <2>1, <1>7 DEF ApplyFromAPI
<1>9. fails' = 0 => \A q \in Keys : Valid(q, cms[Default]) => g'[q] = cms[Default][q]
  <2>1. fails \in Nat
    BY SMTT(20), ConfigAssumption DEF SInv, Types, TypeOK
  <2>2. fails' = 0 => g' = Overwrite(cms[Default])
    <3>1. fails + 1 # 0
      BY SMTT(20), <2>1
    <3> QED BY <3>1, <1>7 DEF ApplyFromAPI
  <2>3. \A q \in Keys : Valid(q, cms[Default]) => Overwrite(cms[Default])[q] = cms[Default][q]
    BY ValidIsParsed DEF Overwrite
  <2> QED BY <2>2, <2>3
<1>10. \A q : Valid(q, cms[Default])' <=> Valid(q, cms[Default])
  BY <1>1 DEF Valid, Set
<1>11. Settling'
  BY <1>1, <1>5, <1>6, <1>8 DEF Settling
<1>12. Early'
  <2>1. \A i \in 1 .. Len(objects) : FALSE
    BY SMTT(20), <1>1
  <2> QED BY <2>1, <1>1, <1>5 DEF Early
<1>13. InForceFromTheStart'
  BY <1>1, <1>9, <1>10 DEF InForceFromTheStart
<1> QED BY <1>11, <1>12, <1>13

LEMMA EditSettles ==
  ASSUME SInv, NEW n \in Names, NEW d \in Data, UserEdits(n, d)
  PROVE  Settling' /\ Early' /\ InForceFromTheStart'
<1> DEFINE e == [name |-> n, old |-> cms[n], new |-> d]
<1>1. /\ UNCHANGED <<g, gauge, phase, objects, remaining, probe, pc, used, fails>>
      /\ cms \in [Names -> Data] /\ cms' = [cms EXCEPT ![n] = d] /\ events \in Seq(Events)
      /\ events' = (IF phase = "main" THEN events ELSE Append(events, e))
      /\ phase \in {"main", "running"} /\ Default \in Names
  BY FlagTypes DEF SInv, Types, TypeOK, UserEdits, handler, worker, Events
<1>2. edits' # 0
  <2>1. edits \in Nat
    BY SMTT(20), ConfigAssumption DEF SInv, Types, TypeOK
  <2> QED BY SMTT(20), <2>1 DEF UserEdits
<1>3. e.name = n /\ e.new = d
  OBVIOUS
<1>4. ASSUME phase = "running"
      PROVE  /\ Len(events') = Len(events) + 1 /\ events'[Len(events')] = e /\ Len(events) \in Nat
             /\ \A i \in 1 .. Len(events) : events'[i] = events[i]
  <2>1. events' = Append(events, e)
    BY <1>1, <1>4
  <2> QED BY SMTT(20), <2>1, <1>1
<1>5. ASSUME phase = "running", n = Default
      PROVE  /\ \A i \in Coming' : events'[i].new = cms'[Default] \/ \E j \in Coming' : j > i
             /\ Coming' # {}
  <2>1. Len(events') \in Coming'
    <3>1. Len(events') \in 1 .. Len(events')
      BY SMTT(20), <1>4, <1>5
    <3> QED BY <3>1, <1>3, <1>4, <1>5 DEF Coming
  <2>2. cms'[Default] = d
    BY <1>1, <1>5
  <2>3. \A i \in Coming' : i = Len(events') \/ Len(events') > i
    BY SMTT(20), <1>4, <1>5 DEF Coming
  <2> QED BY <2>1, <2>2, <2>3, <1>3, <1>4, <1>5
<1>6. ASSUME phase = "running", n # Default
      PROVE  Coming' = Coming /\ (\A i \in Coming : events'[i] = events[i])
  <2>1. \A i \in 1 .. Len(events') : i \in 1 .. Len(events) \/ i = Len(events')
    BY SMTT(20), <1>4, <1>6
  <2>2. \A i \in 1 .. Len(events) : i \in 1 .. Len(events')
    BY SMTT(20), <1>4, <1>6
  <2> QED BY <2>1, <2>2, <1>3, <1>4, <1>6 DEF Coming
<1>7. n # Default => cms'[Default] = cms[Default]
  BY <1>1
<1>8. ASSUME phase = "running", n # Default, NEW q
      PROVE  (Valid(q, cms[Default])' <=> Valid(q, cms[Default])) /\ (InForce(q)' <=> InForce(q))
  BY <1>1, <1>7, <1>8 DEF Valid, Set, InForce
<1>9. Settling'
  <2>1. CASE phase = "main"
    BY <2>1, <1>1 DEF SInv, Settling
  <2>2. CASE phase = "running" /\ n = Default
    BY <2>2, <1>1, <1>5 DEF SInv, Settling
  <2>3. CASE phase = "running" /\ n # Default
    BY <2>3, <1>1, <1>6, <1>7, <1>8 DEF SInv, Settling
  <2> QED BY <2>1, <2>2, <2>3, <1>1
<1>10. Early' /\ InForceFromTheStart'
  BY <1>1, <1>2 DEF SInv, Early, InForceFromTheStart
<1> QED BY <1>9, <1>10

LEMMA RestartSettles ==
  ASSUME SInv, Restart PROVE Settling' /\ Early' /\ InForceFromTheStart'
<1>1. /\ g' = Flags /\ phase' = "main" /\ events' = <<>> /\ objects' = <<>> /\ probe' = "new"
      /\ pc' = "idle"
  BY DEF Restart, Fresh
<1>2. Settling'
  BY <1>1, FlagTypes DEF Settling, Flags, Keys
<1>3. (\A i \in 1 .. Len(objects') : FALSE) /\ (\A i \in 1 .. Len(events') : FALSE)
  BY SMTT(20), <1>1
<1>4. Early'
  BY <1>1, <1>3 DEF Early, Coming
<1> QED BY <1>1, <1>2, <1>4 DEF InForceFromTheStart

LEMMA OtherSettles ==
  ASSUME SInv, Start \/ StartProbe \/ Pass \/ Timer
  PROVE  Settling' /\ Early' /\ InForceFromTheStart'
<1>1. /\ UNCHANGED <<cms, events, g, phase, objects, remaining, edits, fails>>
      /\ gauge' = gauge \/ gauge' = 1
  BY DEF Start, StartProbe, Pass, Timer, handler, counts
<1>2. /\ Coming' = Coming
      /\ \A q : (Valid(q, cms[Default])' <=> Valid(q, cms[Default])) /\ (InForce(q)' <=> InForce(q))
  BY <1>1 DEF Coming, Valid, Set, InForce
<1>3. Settling'
  BY <1>1, <1>2 DEF SInv, Settling
<1>4. pc' # "idle" \/ probe' # "new" => phase = "running"
  BY DEF SInv, Early, Start, StartProbe, Pass, Timer, worker
<1>5. Early'
  BY <1>1, <1>2, <1>4 DEF SInv, Early
<1>6. ASSUME edits = 0, fails = 0, pc' = "wait", Valid("EnableLimitedCache", cms[Default])
      PROVE  used'["EnableLimitedCache"] = cms[Default]["EnableLimitedCache"]
  <2>1. CASE pc = "wait" /\ used' = used
    BY <2>1, <1>6 DEF SInv, InForceFromTheStart
  <2>2. CASE pc = "apply" /\ used' = [used EXCEPT !["EnableLimitedCache"] = g["EnableLimitedCache"]]
    <3>1. /\ used'["EnableLimitedCache"] = g["EnableLimitedCache"] /\ "EnableLimitedCache" \in Keys
          /\ phase = "running"
      BY <2>2 DEF SInv, Types, TypeOK, Early, Keys
    <3> QED BY <3>1, <1>6 DEF SInv, InForceFromTheStart
  <2> QED BY <2>1, <2>2, <1>6 DEF Start, StartProbe, Pass, Timer, worker
<1>7. ASSUME edits = 0, fails = 0, cms[Default]["ProbeInterval"] = "0" PROVE probe' # "on"
  <2>1. CASE probe' = probe
    BY <2>1, <1>7 DEF SInv, InForceFromTheStart
  <2>2. CASE StartProbe
    <3>1. "ProbeInterval" \in Keys /\ Valid("ProbeInterval", cms[Default])
      BY <1>7 DEF Valid, Set, Keys
    <3> QED BY <2>2, <3>1, <1>7 DEF SInv, InForceFromTheStart, StartProbe
  <2> QED BY <2>1, <2>2 DEF Start, Pass, Timer
<1>8. InForceFromTheStart'
  BY <1>1, <1>2, <1>6, <1>7 DEF SInv, InForceFromTheStart
<1> QED BY <1>3, <1>5, <1>8

LEMMA NextSettles ==
  ASSUME OneConfigMap, SInv, [Next]_vars PROVE SInv'
<1>1. Types'
  BY NextTypes DEF SInv
<1>2. CASE UNCHANGED vars
  <2>1. UNCHANGED <<cms, events, g, gauge, phase, objects, remaining, probe, pc, used, edits, fails>>
    BY <1>2 DEF vars, handler, worker, counts
  <2>2. /\ Coming' = Coming
        /\ \A q : (Valid(q, cms[Default])' <=> Valid(q, cms[Default])) /\ (InForce(q)' <=> InForce(q))
    BY <2>1 DEF Coming, Valid, Set, InForce
  <2> QED BY <1>1, <2>1, <2>2 DEF SInv, Settling, Early, InForceFromTheStart
<1>3. CASE Next
  BY <1>1, <1>3, AssignSettles, ReturnSettles, DeliverSettles, ApplySettles, EditSettles,
     RestartSettles, OtherSettles DEF Next, SInv
<1> QED BY <1>2, <1>3

\* As long as every content keeps the ConfigMap that the flags name, the
\* settings agree with the stored ConfigMap whenever the watch is idle: no
\* order of edits, restarts, failed reads, assignments in map order and
\* double mapping of an update leaves an older value in force
\* (Handler.Reconcile, the predicates of the watch, ApplyFromAPI).
THEOREM SettingsSettle == ASSUME OneConfigMap PROVE Spec => []SettledWhenQuiet
<1>1. Init => SInv
  BY InitSettles, InitTypes DEF SInv
<1>2. SInv /\ [Next]_vars => SInv'
  BY NextSettles
<1>3. SInv => SettledWhenQuiet
  <2> SUFFICES ASSUME SInv, phase = "running", events = <<>>, objects = <<>>
               PROVE  /\ \A k \in Keys : Valid(k, cms[Default]) => g[k] = cms[Default][k]
                      /\ cms[Default] # NoData => gauge = 1
    BY DEF SettledWhenQuiet
  <2>1. Coming = {} /\ ~(Len(objects) > 1)
    BY SMTT(20) DEF Coming
  <2>2. remaining = {}
    BY DEF SInv, Types, Mapping
  <2>3. \A k \in Keys : ~Valid(k, NoData)
    BY DEF Valid, Set, NoData
  <2> QED BY <2>1, <2>2, <2>3 DEF SInv, Settling, InForce
<1> QED BY <1>1, <1>2, <1>3, PTL DEF Spec

\* The stored settings are in force before the first pass and before the
\* probe looks at its interval: ApplyFromAPI runs before the manager starts
\* (main.go), and the events that the informer lists change nothing.
THEOREM SettingsFromTheStart == ASSUME OneConfigMap PROVE Spec => []InForceFromTheStart
<1>1. Init => SInv
  BY InitSettles, InitTypes DEF SInv
<1>2. SInv /\ [Next]_vars => SInv'
  BY NextSettles
<1>3. SInv => InForceFromTheStart
  BY DEF SInv
<1> QED BY <1>1, <1>2, <1>3, PTL DEF Spec
=============================================================================
