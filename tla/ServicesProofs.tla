---------------------------- MODULE ServicesProofs ----------------------------
(***************************************************************************)
(* Proofs about the components of MCServices: lookups on the remote GPU,   *)
(* for any number of requests and attempts, the registry's containers and  *)
(* their migrations, for any number of containers, and what the theorems   *)
(* about the orchestrator say of the composition.                          *)
(***************************************************************************)
EXTENDS MCServices, TLAPS

-----------------------------------------------------------------------------
(* Lookups on the remote GPU: somebody mends it, or was told.               *)

\* The invariant that carries the property: while the provider is going down, nobody
\* was told and no lookup has died, a request still has the steps in front of it that start the provider.  The
\* chooser's generation comes after them.
Mending == Commands \cup {"wait"}
SomeoneMends ==
  provider \in {"down", "dying"} /\ ~(told \/ died) => \E r \in Requests : job[r].step \in Mending

IInv == TypeOK /\ SomeoneMends

\* What the steps put into a job is of its kind.
LEMMA IdleType == Idle \in Job
  BY AttemptAssumption DEF Idle, Job, Steps

LEMMA FollowingTypes == ASSUME NEW step \in Commands
                        PROVE Following(step) \in Commands \cup {"wait"}
  BY DEF Commands, Following

LEMMA EffectTypes == ASSUME TypeOK, NEW step PROVE Effect(step) \in ProviderState
  BY DEF TypeOK, Effect, ProviderState

\* A job that is replaced by another leaves the jobs well typed.
LEMMA JobsType == ASSUME TypeOK, NEW r \in Requests, NEW j \in Job,
                         job' = [job EXCEPT ![r] = j]
                  PROVE job' \in [Requests -> Job] /\ job'[r] = j
  BY DEF TypeOK

\* A step after which a request mends, or the loss is accounted for, keeps the invariant.
LEMMA MendingKeeps == ASSUME TypeOK', NEW r \in Requests,
                             told' \/ died' \/ job'[r].step \in Mending
                      PROVE IInv'
  BY DEF IInv, SomeoneMends

LEMMA InitIInv == Init => IInv
<1> SUFFICES ASSUME Init PROVE IInv
  OBVIOUS
<1>1. job \in [Requests -> Job]
  BY IdleType DEF Init
<1>2. provider \in ProviderState /\ begun \in 0..MaxLookups
  BY AttemptAssumption DEF Init, ProviderState
<1>3. told \in BOOLEAN /\ died \in BOOLEAN
  BY DEF Init
<1>4. SomeoneMends
  BY DEF Init, SomeoneMends
<1> QED BY <1>1, <1>2, <1>3, <1>4 DEF IInv, TypeOK

LEMMA BeginIInv == ASSUME IInv, NEW r \in Requests, NEW chooser \in BOOLEAN, Begin(r, chooser)
                   PROVE IInv'
<1> DEFINE j == [job[r] EXCEPT !.step = "stop", !.chooser = chooser]
<1>1. j \in Job /\ j.step = "stop"
  BY DEF IInv, TypeOK, Job, Steps, Commands
<1>2. job' = [job EXCEPT ![r] = j]
  BY DEF Begin, IInv, TypeOK, Job
<1>3. job' \in [Requests -> Job] /\ job'[r] = j
  BY <1>1, <1>2, JobsType DEF IInv
<1>4. TypeOK'
  BY <1>3, AttemptAssumption DEF Begin, IInv, TypeOK
<1> QED BY <1>1, <1>3, <1>4, MendingKeeps DEF Mending, Commands

LEMMA SucceedIInv == ASSUME IInv, NEW r \in Requests, Succeed(r) PROVE IInv'
<1> DEFINE j == [job[r] EXCEPT !.step = Following(job[r].step), !.attempt = 1]
<1>1. j \in Job /\ j.step \in Mending
  <2>1. job[r] \in Job /\ job[r].step \in Commands
    BY DEF Succeed, IInv, TypeOK
  <2>2. Following(job[r].step) \in Steps \cap Mending
    BY <2>1, FollowingTypes DEF Steps, Mending
  <2>3. 1 \in 1..MaxAttempts
    BY AttemptAssumption
  <2> QED BY <2>1, <2>2, <2>3 DEF Job
<1>2. job' = [job EXCEPT ![r] = j]
  BY DEF Succeed, IInv, TypeOK, Job
<1>3. job' \in [Requests -> Job] /\ job'[r] = j
  BY <1>1, <1>2, JobsType DEF IInv
<1>4. TypeOK'
  BY <1>3, EffectTypes DEF Succeed, IInv, TypeOK
<1> QED BY <1>1, <1>3, <1>4, MendingKeeps

\* Giving a command up either tells of it or goes on to start the provider.
LEMMA GivenUpMends == ASSUME TypeOK, NEW r \in Requests, job[r].step \in Commands,
                             GivenUp(r), provider' \in ProviderState,
                             begun' = begun, died' = died
                      PROVE IInv'
<1>1. CASE job[r].step \in {"stop", "start"}
  <2>1. job' \in [Requests -> Job]
    BY <1>1, IdleType, JobsType DEF GivenUp
  <2>2. told' = TRUE
    BY <1>1 DEF GivenUp
  <2>3. TypeOK'
    BY <2>1, <2>2 DEF TypeOK
  <2> QED BY <2>2, <2>3, MendingKeeps
<1>2. CASE job[r].step \notin {"stop", "start"}
  <2> DEFINE j == [job[r] EXCEPT !.step = "start", !.attempt = 1, !.failed = TRUE]
  <2>1. j \in Job /\ j.step = "start"
    <3>1. job[r] \in Job
      BY DEF TypeOK
    <3>2. 1 \in 1..MaxAttempts /\ "start" \in Steps /\ TRUE \in BOOLEAN
      BY AttemptAssumption DEF Steps, Commands
    <3> QED BY <3>1, <3>2 DEF Job
  <2>2. job' = [job EXCEPT ![r] = j]
    BY <1>2 DEF GivenUp, TypeOK, Job
  <2>3. job' \in [Requests -> Job] /\ job'[r] = j
    BY <2>1, <2>2, JobsType
  <2>4. told' = told
    BY <1>2 DEF GivenUp
  <2>5. TypeOK'
    BY <2>3, <2>4 DEF TypeOK
  <2> QED BY <2>1, <2>3, <2>5, MendingKeeps DEF Mending, Commands
<1> QED BY <1>1, <1>2

LEMMA BreakIInv == ASSUME IInv, NEW r \in Requests, Break(r) PROVE IInv'
<1>1. provider' \in ProviderState /\ begun' = begun /\ died' = died /\ job[r].step \in Commands
  BY EffectTypes DEF Break, IInv, TypeOK
<1>2. CASE job[r].attempt < MaxAttempts
  <2> DEFINE j == [job[r] EXCEPT !.attempt = job[r].attempt + 1]
  <2>1. j \in Job /\ j.step = job[r].step
    BY <1>2, AttemptAssumption DEF IInv, TypeOK, Job
  <2>2. job' = [job EXCEPT ![r] = j]
    BY <1>2 DEF Break, IInv, TypeOK, Job
  <2>3. job' \in [Requests -> Job] /\ job'[r] = j
    BY <2>1, <2>2, JobsType DEF IInv
  <2>4. told' = told
    BY <1>2 DEF Break
  <2>5. TypeOK'
    BY <1>1, <2>3, <2>4 DEF IInv, TypeOK
  <2> QED BY <1>1, <2>1, <2>3, <2>5, MendingKeeps DEF Mending
<1>3. CASE ~(job[r].attempt < MaxAttempts)
  BY <1>1, <1>3, GivenUpMends DEF Break, IInv
<1> QED BY <1>2, <1>3

LEMMA FailIInv == ASSUME IInv, NEW r \in Requests, Fail(r) PROVE IInv'
<1>1. provider' \in ProviderState /\ begun' = begun /\ died' = died /\ job[r].step \in Commands
  BY EffectTypes DEF Fail, IInv, TypeOK
<1> QED BY <1>1, GivenUpMends DEF Fail, IInv

\* A poll that succeeds has found the provider serving;
LEMMA HealthyIInv == ASSUME IInv, NEW r \in Requests, Healthy(r) PROVE IInv'
<1> DEFINE j == IF job[r].chooser /\ ~job[r].failed THEN [Idle EXCEPT !.step = "choose"]
                                                    ELSE Idle
<1>1. j \in Job
  BY IdleType DEF Job, Steps
<1>2. job' \in [Requests -> Job]
  BY <1>1, JobsType DEF Healthy, IInv
<1>3. TypeOK'
  BY <1>2 DEF Healthy, IInv, TypeOK
<1>4. SomeoneMends'
  BY DEF Healthy, SomeoneMends
<1> QED BY <1>3, <1>4 DEF IInv

\* the other ends of a request tell of a provider that is down, or are a death.
LEMMA EndIInv == ASSUME IInv, NEW r \in Requests, Deadline(r) \/ Choose(r) \/ Die(r)
                 PROVE IInv'
<1>1. job' \in [Requests -> Job]
  BY IdleType, JobsType DEF Deadline, Choose, Die, IInv
<1>2. told' \in BOOLEAN /\ died' \in BOOLEAN
  BY DEF Deadline, Choose, Die, IInv, TypeOK
<1>3. TypeOK'
  BY <1>1, <1>2 DEF Deadline, Choose, Die, IInv, TypeOK
<1>4. provider' \notin {"down", "dying"} \/ told' \/ died'
  BY DEF Deadline, Choose, Die
<1> QED BY <1>3, <1>4 DEF IInv, SomeoneMends

\* The machine on its own: an exit keeps who mends, and so does an encoder in the way of
\* a provider, since its request has the start still in front of it.
LEMMA MachineIInv == ASSUME IInv, Exit \/ ComeUp \/ OutOfMemory PROVE IInv'
<1>1. TypeOK'
  BY DEF Exit, ComeUp, OutOfMemory, IInv, TypeOK, ProviderState
<1>2. SomeoneMends'
  BY DEF Exit, ComeUp, OutOfMemory, IInv, SomeoneMends, Mending, Commands
<1> QED BY <1>1, <1>2 DEF IInv

LEMMA NextIInv == IInv /\ [Next]_vars => IInv'
<1> SUFFICES ASSUME IInv, [Next]_vars PROVE IInv'
  OBVIOUS
<1>1. ASSUME NEW r \in Requests, Work(r) PROVE IInv'
  BY <1>1, SucceedIInv, BreakIInv, FailIInv, HealthyIInv, EndIInv DEF Work
<1>2. ASSUME NEW r \in Requests, Die(r) PROVE IInv'
  BY <1>2, EndIInv
<1>3. ASSUME NEW r \in Requests, NEW chooser \in BOOLEAN, Begin(r, chooser) PROVE IInv'
  BY <1>3, BeginIInv
<1>4. CASE Exit \/ ComeUp \/ OutOfMemory
  BY <1>4, MachineIInv
<1>5. CASE UNCHANGED vars
  BY <1>5 DEF vars, IInv, TypeOK, SomeoneMends
<1> QED BY <1>1, <1>2, <1>3, <1>4, <1>5 DEF Next

LEMMA IInvAlways == Spec => []IInv
  BY InitIInv, NextIInv, PTL DEF Spec

\* Provider, jobs and counters hold values of their kinds (the state RemoteQwen3LookupRunner
\* keeps in its loops and on the machine, live_workflow.py:758-851).
THEOREM LookupTypes == Spec => []TypeOK
<1>1. IInv => TypeOK
  BY DEF IInv
<1> QED BY <1>1, IInvAlways, PTL

\* When no lookup is under way, a provider that is down or going down has been reported, unless a lookup has died,
\* however many lookups overlapped and whatever of theirs failed (live_workflow.py:764-783).
THEOREM ProviderNeverSilentlyDown == Spec => []NeverSilentlyDown
<1>1. IInv => NeverSilentlyDown
  BY DEF IInv, SomeoneMends, NeverSilentlyDown, Mending, Commands, Idle
<1> QED BY <1>1, IInvAlways, PTL

-----------------------------------------------------------------------------
(* The containers of the registry: a transaction holds the names it has     *)
(* touched, so what another one commits leaves them alone; and one that has *)
(* made all its tables found none of them there.                            *)

HeadNames == DOMAIN Deploy!AtHead
DocxNames == DOMAIN Deploy!MasterModels \cup DOMAIN Deploy!OccurrenceModels
               \cup DOMAIN Deploy!StatementModels \cup DOMAIN Deploy!DocumentModels
LegacyNames == {Deploy!LegacyTables[i] : i \in DOMAIN Deploy!LegacyTables}
LegacyStamped == Deploy!Merge(Deploy!Legacy, Deploy!VersionTable)

Creating == {Deploy!Create(t, Deploy!AtHead[t]) : t \in HeadNames}
Dropping == {Deploy!DropLegacy(t) : t \in LegacyNames}
Reverting == {Deploy!Drop(t) : t \in DocxNames}

\* What a script has left to do, and that it does not drop what it has created.
ToCreate(script) == {script[i].table : i \in {k \in DOMAIN script : script[k].op = "create"}}
ToDrop(script) == {script[i].table : i \in {k \in DOMAIN script : script[k].op # "create"}}
Ordered(script) ==
  \A i, j \in DOMAIN script :
    i < j /\ script[i].op = "create" /\ script[j].op # "create" => script[i].table # script[j].table

Up == {"boot", "insert", "serving"}
Running == {"start", "stamp", "upgrade", "ddl"} \cup Up
Fields == {"pc", "read", "script", "created", "dropped"}

\* A container that is not in a transaction holds nothing.
Idling(j) == DOMAIN j.created = {} /\ j.dropped = {} /\ j.script = <<>>

\* One in an upgrade has created, or still creates, all that the version it read lacks.
Upgrading(j, names) ==
  /\ j.script \in Seq(Creating \cup Dropping) /\ Ordered(j.script)
  /\ DOMAIN j.created \cup ToCreate(j.script) = names
  /\ \A t \in DOMAIN j.created : j.created[t] = Deploy!AtHead[t] /\ t \notin ToDrop(j.script)
  /\ j.dropped \subseteq LegacyNames

\* One in a downgrade has dropped, or still drops, what revision 0002 has made.
Reverses(j) == /\ j.script \in Seq(Reverting) /\ DOMAIN j.created = {}
               /\ j.dropped \cup ToDrop(j.script) = DocxNames

ContainerOK(j) ==
  /\ j = [f \in Fields |-> j[f]]
  /\ j.pc \in Running /\ (j.pc # "ddl" => j.read = "none")
  /\ \/ j.read \in {"none", "0002"} /\ Idling(j)
     \/ j.read = "absent" /\ Upgrading(j, HeadNames)
     \/ j.read = "0001" /\ Upgrading(j, DocxNames)
     \/ j.read = "down" /\ Reverses(j)

Holds(j) == DOMAIN j.created \cup j.dropped

RunOK == run = [c \in Containers |-> run[c]] /\ \A c \in Containers : ContainerOK(run[c])

\* No name is held twice; what is dropped is there, and what is created was not.
NamesOK ==
  /\ \A c, d \in Containers : c # d => Holds(run[c]) \cap Holds(run[d]) = {}
  /\ \A c \in Containers : /\ run[c].dropped \subseteq DOMAIN tables
                           /\ DOMAIN run[c].created \cap DOMAIN tables \subseteq run[c].dropped

\* Before the first upgrade nothing serves.
Untouched == tableRows = {} /\ \A c \in Containers : run[c].pc \notin Up

SchemaOK ==
  \/ /\ version = "absent" /\ Untouched
     /\ DOMAIN tables = {} \/ tables = Deploy!Legacy
     /\ \A c \in Containers : /\ run[c].read \in {"none", "absent"}
                              /\ run[c].pc = "stamp" => tables = Deploy!Legacy
  \/ version = "0001" /\ tables = Deploy!AtBaseline
  \/ /\ version = "0001" /\ Untouched /\ tables = LegacyStamped
     /\ \A c \in Containers : run[c].read = "0001" =>
                                LegacyNames \subseteq run[c].dropped \cup ToDrop(run[c].script)
  \/ version = "0002" /\ tables = Deploy!AtHead

DeployInv == RunOK /\ NamesOK /\ SchemaOK

-----------------------------------------------------------------------------
\* The names of the schema.
LEMMA AuthNames == /\ DOMAIN Deploy!AuthModels = {"user", "apitoken"}
                   /\ DOMAIN Deploy!VersionTable = {"alembic_version"}
  BY DEF Deploy!AuthModels, Deploy!VersionTable

LEMMA MasterNames ==
  DOMAIN Deploy!MasterModels =
    {"documentmetadata", "clause", "mastervocabularylist", "locations", "person",
     "socialidentity", "vesselnames", "relationship"}
  BY DEF Deploy!MasterModels

LEMMA OccurrenceNames ==
  DOMAIN Deploy!OccurrenceModels =
    {"mentions", "personoccurrence", "vesseloccurrence", "socialidentityoccurrence"}
  BY DEF Deploy!OccurrenceModels

LEMMA StatementNames ==
  DOMAIN Deploy!StatementModels =
    {"eventoccurrence", "relationshipoccurrence", "attributeoccurrence",
     "quantifiedstatementoccurrence"}
  BY DEF Deploy!StatementModels

LEMMA DocumentNames ==
  DOMAIN Deploy!DocumentModels = {"summary", "keyword", "keywordoccurrence", "chatrecord"}
  BY DEF Deploy!DocumentModels

LEMMA LegacyAre ==
  LegacyNames =
  {"person", "mentions", "ocurrences", "vesselnames", "entity", "relationship",
    "socialidentity", "things", "intangibles", "institutions", "temporalexpressions",
    "concepts", "locations", "occupation", "office", "status", "residence", "worklocation",
    "mastervocabularylist"}
<1>1. DOMAIN Deploy!LegacyTables = 1..19
  BY DEF Deploy!LegacyTables
<1>2. LegacyNames \subseteq
  {"person", "mentions", "ocurrences", "vesselnames", "entity", "relationship",
    "socialidentity", "things", "intangibles", "institutions", "temporalexpressions",
    "concepts", "locations", "occupation", "office", "status", "residence", "worklocation",
    "mastervocabularylist"}
  BY <1>1 DEF LegacyNames, Deploy!LegacyTables
<1>3. {"person", "mentions", "ocurrences", "vesselnames", "entity", "relationship",
    "socialidentity", "things", "intangibles", "institutions", "temporalexpressions",
    "concepts", "locations", "occupation", "office", "status", "residence", "worklocation",
    "mastervocabularylist"} \subseteq LegacyNames
  BY <1>1 DEF LegacyNames, Deploy!LegacyTables
<1>4. QED
  BY <1>2, <1>3

LEMMA NamesApart ==
  /\ LegacyNames \cap {"user", "apitoken", "alembic_version"} = {}
  /\ DocxNames \cap {"user", "apitoken", "alembic_version"} = {}
  BY LegacyAre, MasterNames, OccurrenceNames, StatementNames, DocumentNames DEF DocxNames

LEMMA HeadHas ==
  /\ HeadNames = {"user", "apitoken", "alembic_version"} \cup DocxNames
  /\ \A t \in DOMAIN Deploy!AuthModels : Deploy!AtHead[t] = Deploy!AuthModels[t]
  /\ \A t \in DOMAIN Deploy!VersionTable : Deploy!AtHead[t] = Deploy!VersionTable[t]
  /\ \A t \in DOMAIN Deploy!MasterModels : Deploy!AtHead[t] = Deploy!MasterModels[t]
  /\ \A t \in DOMAIN Deploy!OccurrenceModels : Deploy!AtHead[t] = Deploy!OccurrenceModels[t]
  /\ \A t \in DOMAIN Deploy!StatementModels : Deploy!AtHead[t] = Deploy!StatementModels[t]
  /\ \A t \in DOMAIN Deploy!DocumentModels : Deploy!AtHead[t] = Deploy!DocumentModels[t]
  BY AuthNames, MasterNames, OccurrenceNames, StatementNames, DocumentNames
     DEF HeadNames, DocxNames, Deploy!AtHead, Deploy!AtBaseline, Deploy!Merge

-----------------------------------------------------------------------------
\* A script that creates the tables of a function, with their references.
Builds(script, f) == /\ script \in Seq({Deploy!Create(t, f[t]) : t \in DOMAIN f})
                     /\ ToCreate(script) = DOMAIN f

LEMMA AuthBuild == Builds(Deploy!Baseline, Deploy!AuthModels)
<1>. DEFINE Made(t) == Deploy!Create(t, Deploy!AuthModels[t])
            script == Deploy!Baseline
<1>1. script = <<Made("user"), Made("apitoken")>>
  BY DEF Deploy!Baseline, Deploy!AuthModels
<1>2. script \in Seq({Made(t) : t \in DOMAIN Deploy!AuthModels})
  BY <1>1, AuthNames
<1>3. DOMAIN script = 1..2 /\ \A k \in 1..2 : script[k].op = "create"
  BY <1>1 DEF Deploy!Create
<1>. HIDE DEF script
<1>4. ToCreate(script) = {script[k].table : k \in 1..2}
  BY <1>3 DEF ToCreate
<1>5. ToCreate(script) = DOMAIN Deploy!AuthModels
  BY <1>1, <1>3, <1>4, AuthNames DEF Deploy!Create
<1>6. QED
  BY <1>2, <1>5 DEF Builds, script

LEMMA MastersBuild == Builds(Deploy!CreateMasters, Deploy!MasterModels)
<1>. DEFINE Made(t) == Deploy!Create(t, Deploy!MasterModels[t])
            script == Deploy!CreateMasters
<1>1. script = <<Made("documentmetadata"), Made("clause"), Made("mastervocabularylist"),
                 Made("locations"), Made("socialidentity"), Made("person"), Made("vesselnames"),
                 Made("relationship")>>
  BY DEF Deploy!CreateMasters, Deploy!MasterModels
<1>2. script \in Seq({Made(t) : t \in DOMAIN Deploy!MasterModels})
  BY <1>1, MasterNames
<1>3. DOMAIN script = 1..8 /\ \A k \in 1..8 : script[k].op = "create"
  BY <1>1 DEF Deploy!Create
<1>. HIDE DEF script
<1>4. ToCreate(script) = {script[k].table : k \in 1..8}
  BY <1>3 DEF ToCreate
<1>5. ToCreate(script) = DOMAIN Deploy!MasterModels
  BY <1>1, <1>3, <1>4, MasterNames DEF Deploy!Create
<1>6. QED
  BY <1>2, <1>5 DEF Builds, script

LEMMA OccurrencesBuild == Builds(Deploy!CreateOccurrences, Deploy!OccurrenceModels)
<1>. DEFINE Made(t) == Deploy!Create(t, Deploy!OccurrenceModels[t])
            script == Deploy!CreateOccurrences
<1>1. script = <<Made("mentions"), Made("personoccurrence"), Made("vesseloccurrence"),
                 Made("socialidentityoccurrence")>>
  BY DEF Deploy!CreateOccurrences, Deploy!OccurrenceModels
<1>2. script \in Seq({Made(t) : t \in DOMAIN Deploy!OccurrenceModels})
  BY <1>1, OccurrenceNames
<1>3. DOMAIN script = 1..4 /\ \A k \in 1..4 : script[k].op = "create"
  BY <1>1 DEF Deploy!Create
<1>. HIDE DEF script
<1>4. ToCreate(script) = {script[k].table : k \in 1..4}
  BY <1>3 DEF ToCreate
<1>5. ToCreate(script) = DOMAIN Deploy!OccurrenceModels
  BY <1>1, <1>3, <1>4, OccurrenceNames DEF Deploy!Create
<1>6. QED
  BY <1>2, <1>5 DEF Builds, script

LEMMA StatementsBuild == Builds(Deploy!CreateStatements, Deploy!StatementModels)
<1>. DEFINE Made(t) == Deploy!Create(t, Deploy!StatementModels[t])
            script == Deploy!CreateStatements
<1>1. script = <<Made("eventoccurrence"), Made("relationshipoccurrence"),
                 Made("attributeoccurrence"), Made("quantifiedstatementoccurrence")>>
  BY DEF Deploy!CreateStatements, Deploy!StatementModels
<1>2. script \in Seq({Made(t) : t \in DOMAIN Deploy!StatementModels})
  BY <1>1, StatementNames
<1>3. DOMAIN script = 1..4 /\ \A k \in 1..4 : script[k].op = "create"
  BY <1>1 DEF Deploy!Create
<1>. HIDE DEF script
<1>4. ToCreate(script) = {script[k].table : k \in 1..4}
  BY <1>3 DEF ToCreate
<1>5. ToCreate(script) = DOMAIN Deploy!StatementModels
  BY <1>1, <1>3, <1>4, StatementNames DEF Deploy!Create
<1>6. QED
  BY <1>2, <1>5 DEF Builds, script

LEMMA PartsBuild == Builds(Deploy!CreateDocumentParts, Deploy!DocumentModels)
<1>. DEFINE Made(t) == Deploy!Create(t, Deploy!DocumentModels[t])
            script == Deploy!CreateDocumentParts
<1>1. script = <<Made("summary"), Made("keyword"), Made("keywordoccurrence"), Made("chatrecord")>>
  BY DEF Deploy!CreateDocumentParts, Deploy!DocumentModels
<1>2. script \in Seq({Made(t) : t \in DOMAIN Deploy!DocumentModels})
  BY <1>1, DocumentNames
<1>3. DOMAIN script = 1..4 /\ \A k \in 1..4 : script[k].op = "create"
  BY <1>1 DEF Deploy!Create
<1>. HIDE DEF script
<1>4. ToCreate(script) = {script[k].table : k \in 1..4}
  BY <1>3 DEF ToCreate
<1>5. ToCreate(script) = DOMAIN Deploy!DocumentModels
  BY <1>1, <1>3, <1>4, DocumentNames DEF Deploy!Create
<1>6. QED
  BY <1>2, <1>5 DEF Builds, script

-----------------------------------------------------------------------------
(* Scripts one after another *)

Joins(q, r, s) == /\ ToCreate(q) = ToCreate(r) \cup ToCreate(s)
                  /\ ToDrop(q) = ToDrop(r) \cup ToDrop(s)

LEMMA Concat ==
  ASSUME NEW U, NEW r \in Seq(U), NEW s \in Seq(U), NEW q, q = r \o s,
         Ordered(r), Ordered(s), ToCreate(r) \cap ToDrop(s) = {}
  PROVE  q \in Seq(U) /\ Joins(q, r, s) /\ Ordered(q)
<1>1. /\ q \in Seq(U)
      /\ DOMAIN q = 1..(Len(r) + Len(s)) /\ DOMAIN r = 1..Len(r) /\ DOMAIN s = 1..Len(s)
      /\ Len(r) \in Nat /\ Len(s) \in Nat
      /\ \A i \in DOMAIN r : i \in DOMAIN q /\ q[i] = r[i]
      /\ \A i \in DOMAIN s : i + Len(r) \in DOMAIN q /\ q[i + Len(r)] = s[i]
  OBVIOUS
<1>2. \A i \in DOMAIN q : \/ i \in DOMAIN r /\ q[i] = r[i]
                          \/ i - Len(r) \in DOMAIN s /\ q[i] = s[i - Len(r)]
  OBVIOUS
<1>3. ToCreate(q) = ToCreate(r) \cup ToCreate(s)
  <2>1. ASSUME NEW t \in ToCreate(q) PROVE t \in ToCreate(r) \cup ToCreate(s)
    <3>1. PICK i \in DOMAIN q : q[i].op = "create" /\ t = q[i].table
      BY DEF ToCreate
    <3>2. QED
      BY <1>2, <3>1 DEF ToCreate
  <2>2. ASSUME NEW t \in ToCreate(r) PROVE t \in ToCreate(q)
    <3>1. PICK i \in DOMAIN r : r[i].op = "create" /\ t = r[i].table
      BY DEF ToCreate
    <3>2. QED
      BY <1>1, <3>1 DEF ToCreate
  <2>3. ASSUME NEW t \in ToCreate(s) PROVE t \in ToCreate(q)
    <3>1. PICK i \in DOMAIN s : s[i].op = "create" /\ t = s[i].table
      BY DEF ToCreate
    <3>2. QED
      BY <1>1, <3>1 DEF ToCreate
  <2>4. QED
    BY <2>1, <2>2, <2>3
<1>4. ToDrop(q) = ToDrop(r) \cup ToDrop(s)
  <2>1. ASSUME NEW t \in ToDrop(q) PROVE t \in ToDrop(r) \cup ToDrop(s)
    <3>1. PICK i \in DOMAIN q : q[i].op # "create" /\ t = q[i].table
      BY DEF ToDrop
    <3>2. QED
      BY <1>2, <3>1 DEF ToDrop
  <2>2. ASSUME NEW t \in ToDrop(r) PROVE t \in ToDrop(q)
    <3>1. PICK i \in DOMAIN r : r[i].op # "create" /\ t = r[i].table
      BY DEF ToDrop
    <3>2. QED
      BY <1>1, <3>1 DEF ToDrop
  <2>3. ASSUME NEW t \in ToDrop(s) PROVE t \in ToDrop(q)
    <3>1. PICK i \in DOMAIN s : s[i].op # "create" /\ t = s[i].table
      BY DEF ToDrop
    <3>2. QED
      BY <1>1, <3>1 DEF ToDrop
  <2>4. QED
    BY <2>1, <2>2, <2>3
<1>5. Ordered(q)
  <2>. SUFFICES ASSUME NEW i \in DOMAIN q, NEW j \in DOMAIN q,
                       i < j, q[i].op = "create", q[j].op # "create"
                PROVE  q[i].table # q[j].table
    BY DEF Ordered
  <2>1. CASE i \in DOMAIN r /\ q[i] = r[i]
    <3>1. CASE j \in DOMAIN r /\ q[j] = r[j]
      BY <2>1, <3>1 DEF Ordered
    <3>2. CASE j - Len(r) \in DOMAIN s /\ q[j] = s[j - Len(r)]
      BY <2>1, <3>2 DEF ToCreate, ToDrop
    <3>3. QED
      BY <1>2, <3>1, <3>2
  <2>2. CASE i - Len(r) \in DOMAIN s /\ q[i] = s[i - Len(r)] /\ i \notin DOMAIN r
    <3>1. j \notin DOMAIN r
      BY <1>1, <2>2
    <3>2. j - Len(r) \in DOMAIN s /\ q[j] = s[j - Len(r)]
      BY <1>2, <3>1
    <3>3. i - Len(r) < j - Len(r)
      BY <1>1
    <3>4. QED
      BY <2>2, <3>2, <3>3 DEF Ordered
  <2>3. QED
    BY <1>2, <2>1, <2>2
<1>6. QED
  BY <1>1, <1>3, <1>4, <1>5 DEF Joins

\* A script that creates tables of the head drops nothing.
LEMMA BuildsOnly ==
  ASSUME NEW f, NEW script, Builds(script, f), DOMAIN f \subseteq HeadNames,
         \A t \in DOMAIN f : Deploy!AtHead[t] = f[t]
  PROVE  /\ script \in Seq(Creating \cup Dropping) /\ Ordered(script)
         /\ ToCreate(script) = DOMAIN f /\ ToDrop(script) = {}
<1>. DEFINE S == {Deploy!Create(t, f[t]) : t \in DOMAIN f}
<1>1. S \subseteq Creating
  BY DEF Creating
<1>2. \A x \in S : x.op = "create"
  BY DEF Deploy!Create
<1>3. script \in Seq(S)
  BY DEF Builds
<1>. HIDE DEF S
<1>4. \A i \in DOMAIN script : script[i] \in S
  BY <1>3
<1>5. script \in Seq(Creating \cup Dropping)
  BY <1>1, <1>3
<1>6. QED
  BY <1>2, <1>4, <1>5 DEF Builds, Ordered, ToDrop

LEMMA LegacyDrops ==
  LET script == Deploy!Each(Deploy!DropLegacy, Deploy!LegacyTables)
  IN /\ script \in Seq(Creating \cup Dropping) /\ Ordered(script)
     /\ ToCreate(script) = {} /\ ToDrop(script) = LegacyNames
<1>. DEFINE script == Deploy!Each(Deploy!DropLegacy, Deploy!LegacyTables)
<1>1. DOMAIN Deploy!LegacyTables = 1..19
  BY DEF Deploy!LegacyTables
<1>2. /\ DOMAIN script = 1..19
      /\ script = [i \in 1..19 |-> Deploy!DropLegacy(Deploy!LegacyTables[i])]
  BY <1>1 DEF Deploy!Each
<1>3. \A i \in 1..19 : /\ script[i] \in Dropping /\ script[i].op # "create"
                       /\ script[i].table = Deploy!LegacyTables[i]
  <2>. SUFFICES ASSUME NEW i \in 1..19
                PROVE  /\ script[i] \in Dropping /\ script[i].op # "create"
                       /\ script[i].table = Deploy!LegacyTables[i]
    OBVIOUS
  <2>1. script[i] = Deploy!DropLegacy(Deploy!LegacyTables[i])
    BY <1>2
  <2>2. Deploy!LegacyTables[i] \in LegacyNames
    BY <1>1 DEF LegacyNames
  <2>3. \A t \in LegacyNames : /\ Deploy!DropLegacy(t) \in Dropping
                               /\ Deploy!DropLegacy(t).op # "create"
                               /\ Deploy!DropLegacy(t).table = t
    BY DEF Dropping, Deploy!DropLegacy
  <2>4. QED
    BY <2>1, <2>2, <2>3
<1>. HIDE DEF script
<1>4. script \in Seq(Creating \cup Dropping)
  BY <1>2, <1>3
<1>5. Ordered(script) /\ ToCreate(script) = {}
  BY <1>2, <1>3 DEF Ordered, ToCreate
<1>6. ToDrop(script) = {script[i].table : i \in 1..19}
  BY <1>2, <1>3 DEF ToDrop
<1>7. ToDrop(script) = LegacyNames
  BY <1>1, <1>3, <1>6 DEF LegacyNames
<1>8. QED
  BY <1>4, <1>5, <1>7 DEF script

LEMMA DowngradeDrops == /\ Deploy!DowngradeDocx \in Seq(Reverting)
                        /\ ToDrop(Deploy!DowngradeDocx) = DocxNames
<1>. DEFINE order == <<"chatrecord", "keywordoccurrence", "keyword", "summary",
               "quantifiedstatementoccurrence", "attributeoccurrence",
               "relationshipoccurrence", "eventoccurrence", "socialidentityoccurrence",
               "vesseloccurrence", "personoccurrence", "mentions", "relationship",
               "vesselnames", "person", "socialidentity", "locations",
               "mastervocabularylist", "clause", "documentmetadata">>
            script == Deploy!DowngradeDocx
<1>1. /\ DOMAIN order = 1..20 /\ \A i \in 1..20 : order[i] \in DocxNames
      /\ DocxNames \subseteq {order[i] : i \in 1..20}
  BY MasterNames, OccurrenceNames, StatementNames, DocumentNames DEF DocxNames
<1>2. script = Deploy!Each(Deploy!Drop, order)
  BY DEF Deploy!DowngradeDocx
<1>. HIDE DEF order, script
<1>3. DOMAIN script = 1..20 /\ script = [i \in 1..20 |-> Deploy!Drop(order[i])]
  BY <1>1, <1>2 DEF Deploy!Each
<1>4. \A i \in 1..20 : /\ script[i] \in Reverting /\ script[i].op # "create"
                       /\ script[i].table = order[i]
  BY <1>1, <1>3 DEF Deploy!Drop, Reverting
<1>5. script \in Seq(Reverting)
  BY <1>3, <1>4
<1>6. ToDrop(script) = DocxNames
  BY <1>1, <1>3, <1>4 DEF ToDrop
<1>7. QED
  BY <1>5, <1>6 DEF script

\* What a transaction that reads a version has in front of it.
LEMMA DocxScript ==
  /\ Deploy!DocxTables \in Seq(Creating \cup Dropping) /\ Ordered(Deploy!DocxTables)
  /\ ToCreate(Deploy!DocxTables) = DocxNames /\ ToDrop(Deploy!DocxTables) = LegacyNames
<1>. DEFINE U == Creating \cup Dropping
            drops == Deploy!Each(Deploy!DropLegacy, Deploy!LegacyTables)
            a == drops \o Deploy!CreateMasters
            b == a \o Deploy!CreateOccurrences
            c == b \o Deploy!CreateStatements
<1>1. drops \in Seq(U) /\ Ordered(drops) /\ ToCreate(drops) = {} /\ ToDrop(drops) = LegacyNames
  BY LegacyDrops
<1>2. /\ DOMAIN Deploy!MasterModels \subseteq HeadNames
      /\ DOMAIN Deploy!OccurrenceModels \subseteq HeadNames
      /\ DOMAIN Deploy!StatementModels \subseteq HeadNames
      /\ DOMAIN Deploy!DocumentModels \subseteq HeadNames
  BY HeadHas DEF DocxNames
<1>3. /\ Deploy!CreateMasters \in Seq(U) /\ Ordered(Deploy!CreateMasters)
      /\ ToCreate(Deploy!CreateMasters) = DOMAIN Deploy!MasterModels
      /\ ToDrop(Deploy!CreateMasters) = {}
  BY <1>2, HeadHas, MastersBuild, BuildsOnly
<1>4. /\ Deploy!CreateOccurrences \in Seq(U) /\ Ordered(Deploy!CreateOccurrences)
      /\ ToCreate(Deploy!CreateOccurrences) = DOMAIN Deploy!OccurrenceModels
      /\ ToDrop(Deploy!CreateOccurrences) = {}
  BY <1>2, HeadHas, OccurrencesBuild, BuildsOnly
<1>5. /\ Deploy!CreateStatements \in Seq(U) /\ Ordered(Deploy!CreateStatements)
      /\ ToCreate(Deploy!CreateStatements) = DOMAIN Deploy!StatementModels
      /\ ToDrop(Deploy!CreateStatements) = {}
  BY <1>2, HeadHas, StatementsBuild, BuildsOnly
<1>6. /\ Deploy!CreateDocumentParts \in Seq(U) /\ Ordered(Deploy!CreateDocumentParts)
      /\ ToCreate(Deploy!CreateDocumentParts) = DOMAIN Deploy!DocumentModels
      /\ ToDrop(Deploy!CreateDocumentParts) = {}
  BY <1>2, HeadHas, PartsBuild, BuildsOnly
<1>. HIDE DEF U, drops
<1>7. a \in Seq(U) /\ Ordered(a) /\ ToDrop(a) = LegacyNames /\ ToCreate(a) = DOMAIN Deploy!MasterModels
  <2>1. a \in Seq(U) /\ Ordered(a) /\ Joins(a, drops, Deploy!CreateMasters)
    BY <1>1, <1>3, Concat
  <2>2. QED
    BY <1>1, <1>3, <2>1 DEF Joins
<1>. HIDE DEF a
<1>8. /\ b \in Seq(U) /\ Ordered(b) /\ ToDrop(b) = LegacyNames
      /\ ToCreate(b) = DOMAIN Deploy!MasterModels \cup DOMAIN Deploy!OccurrenceModels
  <2>1. b \in Seq(U) /\ Ordered(b) /\ Joins(b, a, Deploy!CreateOccurrences)
    BY <1>4, <1>7, Concat
  <2>2. QED
    BY <1>4, <1>7, <2>1 DEF Joins
<1>. HIDE DEF b
<1>9. /\ c \in Seq(U) /\ Ordered(c) /\ ToDrop(c) = LegacyNames
      /\ ToCreate(c) = DOMAIN Deploy!MasterModels \cup DOMAIN Deploy!OccurrenceModels
                         \cup DOMAIN Deploy!StatementModels
  <2>1. c \in Seq(U) /\ Ordered(c) /\ Joins(c, b, Deploy!CreateStatements)
    BY <1>5, <1>8, Concat
  <2>2. QED
    BY <1>5, <1>8, <2>1 DEF Joins
<1>. HIDE DEF c
<1>10. Deploy!DocxTables = c \o Deploy!CreateDocumentParts
  BY DEF Deploy!DocxTables, c, b, a, drops
<1>11. /\ Deploy!DocxTables \in Seq(U) /\ Ordered(Deploy!DocxTables)
       /\ Joins(Deploy!DocxTables, c, Deploy!CreateDocumentParts)
  BY <1>6, <1>9, <1>10, Concat
<1>12. QED
  BY <1>6, <1>9, <1>11 DEF DocxNames, U, Joins

LEMMA FreshScript ==
  LET script == Deploy!Script("absent")
  IN /\ script \in Seq(Creating \cup Dropping) /\ Ordered(script)
     /\ ToCreate(script) = HeadNames
<1>. DEFINE U == Creating \cup Dropping
            first == <<Deploy!Create("alembic_version", {})>>
            a == first \o Deploy!Baseline
<1>1. Deploy!Script("absent") = a \o Deploy!DocxTables
  BY DEF Deploy!Script
<1>2. "alembic_version" \in HeadNames /\ Deploy!AtHead["alembic_version"] = {}
  BY HeadHas, AuthNames DEF Deploy!VersionTable
<1>3. Deploy!Create("alembic_version", {}) \in U
  BY <1>2 DEF Creating
<1>4. /\ Len(first) = 1 /\ first[1].op = "create" /\ first[1].table = "alembic_version"
      /\ DOMAIN first = {1}
  BY DEF Deploy!Create
<1>5. first \in Seq(U)
  BY <1>3
<1>. HIDE DEF U, first
<1>6. Ordered(first) /\ ToCreate(first) = {"alembic_version"} /\ ToDrop(first) = {}
  BY <1>4 DEF Ordered, ToCreate, ToDrop
<1>7. /\ Deploy!Baseline \in Seq(U) /\ Ordered(Deploy!Baseline)
      /\ ToCreate(Deploy!Baseline) = {"user", "apitoken"} /\ ToDrop(Deploy!Baseline) = {}
  BY HeadHas, AuthNames, AuthBuild, BuildsOnly DEF U
<1>8. /\ a \in Seq(U) /\ Ordered(a) /\ ToDrop(a) = {}
      /\ ToCreate(a) = {"user", "apitoken", "alembic_version"}
  <2>1. a \in Seq(U) /\ Ordered(a) /\ Joins(a, first, Deploy!Baseline)
    BY <1>5, <1>6, <1>7, Concat
  <2>2. QED
    BY <1>5, <1>6, <1>7, <2>1 DEF Joins
<1>. HIDE DEF a
<1>9. /\ Deploy!DocxTables \in Seq(U) /\ Ordered(Deploy!DocxTables)
      /\ ToCreate(Deploy!DocxTables) = DocxNames /\ ToDrop(Deploy!DocxTables) = LegacyNames
  BY DocxScript DEF U
<1>10. ToCreate(a) \cap ToDrop(Deploy!DocxTables) = {}
  BY <1>8, <1>9, NamesApart
<1>11. /\ Deploy!Script("absent") \in Seq(U) /\ Ordered(Deploy!Script("absent"))
       /\ Joins(Deploy!Script("absent"), a, Deploy!DocxTables)
  BY <1>1, <1>8, <1>9, <1>10, Concat
<1>12. QED
  BY <1>8, <1>9, <1>11, HeadHas DEF U, Joins

\* The head of a script, and what it leaves.
LEMMA Popped ==
  ASSUME NEW U, NEW script \in Seq(U), script # <<>>
  PROVE  /\ Head(script) \in U /\ Tail(script) \in Seq(U)
         /\ Ordered(script) => Ordered(Tail(script))
         /\ ToDrop(Tail(script)) \subseteq ToDrop(script)
         /\ IF Head(script).op = "create"
              THEN /\ ToCreate(script) = ToCreate(Tail(script)) \cup {Head(script).table}
                   /\ ToDrop(script) = ToDrop(Tail(script))
                   /\ Ordered(script) => Head(script).table \notin ToDrop(Tail(script))
              ELSE /\ ToCreate(script) = ToCreate(Tail(script))
                   /\ ToDrop(script) = ToDrop(Tail(script)) \cup {Head(script).table}
<1>. DEFINE rest == Tail(script)
<1>1. /\ Head(script) = script[1] /\ Head(script) \in U /\ rest \in Seq(U)
      /\ Len(script) \in Nat /\ Len(script) > 0 /\ Len(rest) = Len(script) - 1
      /\ DOMAIN script = 1..Len(script) /\ DOMAIN rest = 1..Len(rest)
      /\ \A i \in DOMAIN rest : rest[i] = script[i + 1]
  OBVIOUS
<1>. HIDE DEF rest
<1>2. \A i \in DOMAIN rest : i + 1 \in DOMAIN script /\ i + 1 > 1
  BY <1>1
<1>3. \A i \in DOMAIN script : i # 1 => i - 1 \in DOMAIN rest /\ rest[i - 1] = script[i]
  BY <1>1
<1>4. Ordered(script) => Ordered(rest)
  BY <1>1, <1>2 DEF Ordered
<1>5. \A t : t \in ToCreate(script) <=>
               t \in ToCreate(rest) \/ (script[1].op = "create" /\ t = script[1].table)
  <2>1. ASSUME NEW t \in ToCreate(script)
        PROVE t \in ToCreate(rest) \/ (script[1].op = "create" /\ t = script[1].table)
    BY <1>1, <1>3 DEF ToCreate
  <2>2. ASSUME NEW t \in ToCreate(rest) PROVE t \in ToCreate(script)
    BY <1>1, <1>2 DEF ToCreate
  <2>3. script[1].op = "create" => script[1].table \in ToCreate(script)
    BY <1>1 DEF ToCreate
  <2>4. QED
    BY <2>1, <2>2, <2>3
<1>6. \A t : t \in ToDrop(script) <=>
               t \in ToDrop(rest) \/ (script[1].op # "create" /\ t = script[1].table)
  <2>1. ASSUME NEW t \in ToDrop(script)
        PROVE t \in ToDrop(rest) \/ (script[1].op # "create" /\ t = script[1].table)
    BY <1>1, <1>3 DEF ToDrop
  <2>2. ASSUME NEW t \in ToDrop(rest) PROVE t \in ToDrop(script)
    BY <1>1, <1>2 DEF ToDrop
  <2>3. script[1].op # "create" => script[1].table \in ToDrop(script)
    BY <1>1 DEF ToDrop
  <2>4. QED
    BY <2>1, <2>2, <2>3
<1>7. ASSUME Ordered(script), script[1].op = "create", script[1].table \in ToDrop(rest) PROVE FALSE
  <2>1. PICK i \in DOMAIN rest : rest[i].op # "create" /\ rest[i].table = script[1].table
    BY <1>7 DEF ToDrop
  <2>2. /\ i + 1 \in DOMAIN script /\ i + 1 > 1 /\ 1 \in DOMAIN script
        /\ script[i + 1].op # "create" /\ script[i + 1].table = script[1].table
    BY <1>1, <1>2, <2>1
  <2>3. QED
    BY <1>7, <2>2 DEF Ordered
<1>8. CASE script[1].op = "create"
  <2>1. ToCreate(script) = ToCreate(rest) \cup {script[1].table} /\ ToDrop(script) = ToDrop(rest)
    BY <1>5, <1>6, <1>8
  <2>2. QED
    BY <1>1, <1>4, <1>7, <1>8, <2>1 DEF rest
<1>9. CASE script[1].op # "create"
  <2>1. ToDrop(script) = ToDrop(rest) \cup {script[1].table} /\ ToCreate(script) = ToCreate(rest)
    BY <1>5, <1>6, <1>9
  <2>2. QED
    BY <1>1, <1>4, <1>9, <2>1 DEF rest
<1>10. QED
  BY <1>8, <1>9

-----------------------------------------------------------------------------
(* Containers and the names they hold *)

LEMMA StartedOK ==
  /\ ContainerOK(Deploy!Started) /\ Holds(Deploy!Started) = {}
  /\ Deploy!Started.pc = "start" /\ Deploy!Started.read = "none"
  /\ Deploy!Started = [f \in Fields |-> Deploy!Started[f]] /\ Idling(Deploy!Started)
  BY DEF Deploy!Started, ContainerOK, Holds, Idling, Fields, Running

\* One container goes on.
LEMMA RunMoves ==
  ASSUME RunOK, NEW c \in Containers, NEW j, ContainerOK(j), run' = [run EXCEPT ![c] = j]
  PROVE  RunOK' /\ \A d \in Containers : run'[d] = IF d = c THEN j ELSE run[d]
  BY DEF RunOK

\* One that holds nothing afterwards, and commits nothing.
LEMMA LetsGo ==
  ASSUME DeployInv, NEW c \in Containers, NEW j, ContainerOK(j), Holds(j) = {},
         run' = [run EXCEPT ![c] = j], UNCHANGED <<tables, version, tableRows>>,
         j.pc \in Up => run[c].pc \in Up,
         version = "absent" => /\ j.read \in {"none", "absent"}
                               /\ j.pc = "stamp" => tables = Deploy!Legacy,
         j.read = "0001" => LegacyNames \subseteq ToDrop(j.script)
  PROVE  DeployInv'
<1>1. RunOK' /\ \A d \in Containers : run'[d] = IF d = c THEN j ELSE run[d]
  BY RunMoves DEF DeployInv
<1>2. NamesOK'
  BY <1>1 DEF DeployInv, NamesOK, Holds
<1>3. Untouched => Untouched'
  BY <1>1 DEF Untouched
<1>4. SchemaOK'
  <2>1. CASE version = "absent"
    BY <1>1, <1>3, <2>1 DEF DeployInv, SchemaOK
  <2>2. CASE version = "0001"
    BY <1>1, <1>3, <2>2 DEF DeployInv, SchemaOK
  <2>3. CASE version = "0002"
    BY <2>3 DEF DeployInv, SchemaOK
  <2>4. QED
    BY <2>1, <2>2, <2>3 DEF DeployInv, SchemaOK
<1>5. QED
  BY <1>1, <1>2, <1>4 DEF DeployInv

\* One that goes back to its start.
LEMMA StartsAgain ==
  ASSUME DeployInv, NEW c \in Containers, run' = [run EXCEPT ![c] = Deploy!Started],
         UNCHANGED <<tables, version, tableRows>>
  PROVE  DeployInv'
  BY StartedOK, LetsGo DEF Up

\* One that is in no transaction and moves on outside of one.
LEMMA Waiting ==
  ASSUME DeployInv, NEW c \in Containers, run[c].pc # "ddl", NEW pc \in Running \ {"ddl"}
  PROVE  LET j == [run[c] EXCEPT !.pc = pc]
         IN /\ ContainerOK(j) /\ Holds(j) = {} /\ j.pc = pc /\ j.read = "none"
            /\ [run EXCEPT ![c].pc = pc] = [run EXCEPT ![c] = j]
<1>. DEFINE j == [run[c] EXCEPT !.pc = pc]
<1>1. /\ run[c] = [f \in Fields |-> run[c][f]] /\ run[c].read = "none" /\ Idling(run[c])
      /\ run = [d \in Containers |-> run[d]]
  BY DEF DeployInv, RunOK, ContainerOK
<1>2. /\ j = [f \in Fields |-> j[f]] /\ j.pc = pc /\ j.read = "none"
      /\ j.created = run[c].created /\ j.dropped = run[c].dropped /\ j.script = run[c].script
  BY <1>1 DEF Fields
<1>3. [run EXCEPT ![c].pc = pc] = [run EXCEPT ![c] = j]
  BY <1>1
<1>. HIDE DEF j
<1>4. ContainerOK(j) /\ Holds(j) = {}
  BY <1>1, <1>2 DEF ContainerOK, Holds, Idling
<1>5. QED
  BY <1>2, <1>3, <1>4 DEF j

\* What a transaction sees.
LEMMA Sees ==
  ASSUME NEW c \in Containers
  PROVE  /\ Deploy!Visible(c) =
              [t \in (DOMAIN tables \ run[c].dropped) \cup DOMAIN run[c].created |->
                 IF t \in DOMAIN run[c].created THEN run[c].created[t] ELSE tables[t]]
         /\ DOMAIN Deploy!Visible(c) = (DOMAIN tables \ run[c].dropped) \cup DOMAIN run[c].created
  BY DEF Deploy!Visible, Deploy!Merge, Deploy!Without

\* What a transaction commits leaves the names of the others as they are.
LEMMA CommitNames ==
  ASSUME DeployInv, NEW c \in Containers, NEW j, ContainerOK(j), Holds(j) = {},
         run' = [run EXCEPT ![c] = j], tables' = Deploy!Visible(c)
  PROVE  RunOK' /\ NamesOK' /\ \A d \in Containers : run'[d] = IF d = c THEN j ELSE run[d]
<1>1. RunOK' /\ \A d \in Containers : run'[d] = IF d = c THEN j ELSE run[d]
  BY RunMoves DEF DeployInv
<1>2. DOMAIN tables' = (DOMAIN tables \ run[c].dropped) \cup DOMAIN run[c].created
  BY Sees
<1>3. \A d, e \in Containers : d # e => Holds(run'[d]) \cap Holds(run'[e]) = {}
  BY <1>1 DEF DeployInv, NamesOK
<1>4. ASSUME NEW d \in Containers
      PROVE  /\ run'[d].dropped \subseteq DOMAIN tables'
             /\ DOMAIN run'[d].created \cap DOMAIN tables' \subseteq run'[d].dropped
  <2>1. CASE d = c
    BY <1>1, <2>1 DEF Holds
  <2>2. CASE d # c
    <3>1. run'[d] = run[d] /\ Holds(run[d]) \cap Holds(run[c]) = {}
      BY <1>1, <2>2 DEF DeployInv, NamesOK
    <3>2. QED
      BY <1>2, <3>1 DEF DeployInv, NamesOK, Holds
  <2>3. QED
    BY <2>1, <2>2
<1>5. QED
  BY <1>1, <1>3, <1>4 DEF NamesOK

-----------------------------------------------------------------------------
(* The actions *)

LEMMA InitDeployInv == Deploy!Init => DeployInv
<1>. SUFFICES ASSUME Deploy!Init PROVE DeployInv
  OBVIOUS
<1>1. RunOK /\ \A c \in Containers : run[c] = Deploy!Started
  BY StartedOK DEF Deploy!Init, RunOK
<1>2. NamesOK
  BY <1>1, StartedOK DEF NamesOK, Holds
<1>3. Untouched
  BY <1>1, StartedOK DEF Deploy!Init, Untouched, Up
<1>4. SchemaOK
  <2>1. tables = Deploy!Without(Deploy!AtHead, DOMAIN Deploy!AtHead) => DOMAIN tables = {}
    BY DEF Deploy!Without
  <2>2. QED
    BY <1>1, <1>3, <2>1, StartedOK DEF Deploy!Init, SchemaOK
<1>5. QED
  BY <1>1, <1>2, <1>4 DEF DeployInv

LEMMA CheckStampKeeps == ASSUME DeployInv, NEW c \in Containers, Deploy!CheckStamp(c)
                         PROVE  DeployInv'
<1>. DEFINE pc == IF version = "absent" /\ "user" \in DOMAIN tables THEN "stamp" ELSE "upgrade"
            j == [run[c] EXCEPT !.pc = pc]
<1>1. /\ run[c].pc = "start" /\ run' = [run EXCEPT ![c].pc = pc]
      /\ UNCHANGED <<tables, version, tableRows>>
  BY DEF Deploy!CheckStamp
<1>2. pc \in Running \ {"ddl"} /\ pc \notin Up
  BY DEF Running, Up
<1>3. version = "absent" /\ pc = "stamp" => tables = Deploy!Legacy
  BY DEF DeployInv, SchemaOK
<1>. HIDE DEF pc
<1>4. /\ ContainerOK(j) /\ Holds(j) = {} /\ j.pc = pc /\ j.read = "none"
      /\ run' = [run EXCEPT ![c] = j]
  BY <1>1, <1>2, Waiting
<1>. HIDE DEF j
<1>5. QED
  BY <1>1, <1>2, <1>3, <1>4, LetsGo

\* The stamp finds the tables that create_all made, and adds its own.
LEMMA StampKeeps == ASSUME DeployInv, NEW c \in Containers, Deploy!Stamp(c) PROVE DeployInv'
<1>1. /\ run[c].pc = "stamp" /\ ~Deploy!Held(Deploy!Create("alembic_version", {}), c)
      /\ UNCHANGED tableRows
  BY DEF Deploy!Stamp
<1>2. CASE version # "absent"
  <2>1. run' = [run EXCEPT ![c] = Deploy!Started] /\ UNCHANGED <<tables, version>>
    BY <1>2 DEF Deploy!Stamp
  <2>2. QED
    BY <1>1, <2>1, StartsAgain
<1>3. CASE version = "absent"
  <2>. DEFINE j == [run[c] EXCEPT !.pc = "upgrade"]
  <2>1. /\ version' = "0001" /\ tables' = Deploy!Merge(tables, Deploy!VersionTable)
        /\ run' = [run EXCEPT ![c].pc = "upgrade"]
    BY <1>3 DEF Deploy!Stamp
  <2>2. /\ ContainerOK(j) /\ Holds(j) = {} /\ j.pc = "upgrade" /\ j.read = "none"
        /\ run' = [run EXCEPT ![c] = j]
    BY <1>1, <2>1, Waiting DEF Running, Up
  <2>. HIDE DEF j
  <2>3. RunOK' /\ \A d \in Containers : run'[d] = IF d = c THEN j ELSE run[d]
    BY <2>2, RunMoves DEF DeployInv
  <2>4. /\ tables = Deploy!Legacy /\ Untouched
        /\ \A d \in Containers : run[d].read \in {"none", "absent"}
    BY <1>1, <1>3 DEF DeployInv, SchemaOK
  <2>5. DOMAIN tables' = DOMAIN tables \cup {"alembic_version"}
    BY <2>1, AuthNames DEF Deploy!Merge
  <2>6. "alembic_version" \notin DOMAIN tables
    <3>1. DOMAIN Deploy!Legacy = {"user", "apitoken"} \cup LegacyNames
      BY AuthNames DEF LegacyNames, Deploy!Legacy, Deploy!Merge
    <3>2. QED
      BY <2>4, <3>1, LegacyAre
  <2>7. \A d \in Containers \ {c} : "alembic_version" \notin Holds(run[d])
    <3>1. \A d \in Containers \ {c} : "alembic_version" \notin DOMAIN run[d].created
      <4>1. DOMAIN run[c].created = {}
        BY <1>1 DEF DeployInv, RunOK, ContainerOK, Idling
      <4>2. "alembic_version" \notin DOMAIN Deploy!Visible(c)
        BY <2>6, <4>1, Sees
      <4>3. QED
        BY <1>1, <4>2 DEF Deploy!Held, Deploy!Blocks, Deploy!Create
    <3>2. \A d \in Containers : "alembic_version" \notin run[d].dropped
      BY <2>6 DEF DeployInv, NamesOK
    <3>3. QED
      BY <3>1, <3>2 DEF Holds
  <2>8. NamesOK'
    BY <2>2, <2>3, <2>5, <2>7 DEF DeployInv, NamesOK, Holds
  <2>9. Untouched'
    BY <1>1, <2>2, <2>3, <2>4 DEF Untouched, Up
  <2>10. SchemaOK'
    BY <2>1, <2>2, <2>3, <2>4, <2>9 DEF SchemaOK, LegacyStamped
  <2>11. QED
    BY <2>3, <2>8, <2>10 DEF DeployInv
<1>4. QED
  BY <1>2, <1>3

\* A transaction begins: all that its version lacks is before it.
LEMMA BeginUpgradeKeeps == ASSUME DeployInv, NEW c \in Containers, Deploy!BeginUpgrade(c)
                           PROVE  DeployInv'
<1>. DEFINE j == [Deploy!Started EXCEPT !.pc = "ddl", !.read = version,
                                        !.script = Deploy!Script(version)]
<1>1. run' = [run EXCEPT ![c] = j] /\ UNCHANGED <<tables, version, tableRows>>
  BY DEF Deploy!BeginUpgrade
<1>2. /\ j = [f \in Fields |-> j[f]] /\ j.pc = "ddl" /\ j.read = version
      /\ j.script = Deploy!Script(version) /\ DOMAIN j.created = {} /\ j.dropped = {}
  BY StartedOK DEF Fields, Idling
<1>. HIDE DEF j
<1>3. version \in {"absent", "0001", "0002"}
  BY DEF DeployInv, SchemaOK
<1>4. version = "0001" => j.script = Deploy!DocxTables
  BY <1>2 DEF Deploy!Script
<1>5. ContainerOK(j)
  <2>1. CASE version = "absent"
    BY <1>2, <2>1, FreshScript DEF ContainerOK, Upgrading, Running
  <2>2. CASE version = "0001"
    BY <1>2, <1>4, <2>2, DocxScript DEF ContainerOK, Upgrading, Running
  <2>3. CASE version = "0002"
    <3>1. j.script = <<>>
      BY <1>2, <2>3 DEF Deploy!Script
    <3>2. QED
      BY <1>2, <2>3, <3>1 DEF ContainerOK, Idling, Running
  <2>4. QED
    BY <1>3, <2>1, <2>2, <2>3
<1>6. Holds(j) = {}
  BY <1>2 DEF Holds
<1>7. j.read = "0001" => LegacyNames \subseteq ToDrop(j.script)
  BY <1>2, <1>4, DocxScript
<1>8. QED
  BY <1>1, <1>2, <1>5, <1>6, <1>7, LetsGo DEF Up

LEMMA BeginDowngradeKeeps == ASSUME DeployInv, NEW c \in Containers, Deploy!BeginDowngrade(c)
                             PROVE  DeployInv'
<1>. DEFINE j == [Deploy!Started EXCEPT !.pc = "ddl", !.read = "down",
                                        !.script = Deploy!DowngradeDocx]
<1>1. /\ run' = [run EXCEPT ![c] = j] /\ UNCHANGED <<tables, version, tableRows>>
      /\ version = "0002"
  BY DEF Deploy!BeginDowngrade
<1>2. /\ j = [f \in Fields |-> j[f]] /\ j.pc = "ddl" /\ j.read = "down"
      /\ j.script = Deploy!DowngradeDocx /\ DOMAIN j.created = {} /\ j.dropped = {}
  BY StartedOK DEF Fields, Idling
<1>. HIDE DEF j
<1>3. ContainerOK(j)
  BY <1>2, DowngradeDrops DEF ContainerOK, Reverses, Running
<1>4. QED
  BY <1>1, <1>2, <1>3, LetsGo DEF Up, Holds

\* A transaction that takes a name no other transaction has, or none.
LEMMA TakesName ==
  ASSUME DeployInv, NEW c \in Containers, NEW j, ContainerOK(j),
         run' = [run EXCEPT ![c] = j], UNCHANGED <<tables, version, tableRows>>,
         \A d \in Containers \ {c} : Holds(run[d]) \cap Holds(j) \subseteq Holds(run[c]),
         j.dropped \subseteq DOMAIN tables, DOMAIN j.created \cap DOMAIN tables \subseteq j.dropped,
         j.pc = "ddl", j.read = run[c].read,
         tables = LegacyStamped /\ j.read = "0001"
             /\ LegacyNames \subseteq run[c].dropped \cup ToDrop(run[c].script)
           => LegacyNames \subseteq j.dropped \cup ToDrop(j.script)
  PROVE  DeployInv'
<1>1. RunOK' /\ \A d \in Containers : run'[d] = IF d = c THEN j ELSE run[d]
  BY RunMoves DEF DeployInv
<1>2. NamesOK'
  <2>1. \A d \in Containers \ {c} : Holds(run[d]) \cap Holds(j) = {}
    BY DEF DeployInv, NamesOK
  <2>2. \A d, e \in Containers : d # e => Holds(run'[d]) \cap Holds(run'[e]) = {}
    BY <1>1, <2>1 DEF DeployInv, NamesOK
  <2>3. QED
    BY <1>1, <2>2 DEF DeployInv, NamesOK
<1>3. Untouched => Untouched'
  BY <1>1 DEF Untouched, Up
<1>4. SchemaOK'
  <2>1. CASE version = "absent"
    BY <1>1, <1>3, <2>1 DEF DeployInv, SchemaOK
  <2>2. CASE version = "0001"
    BY <1>1, <1>3, <2>2 DEF DeployInv, SchemaOK
  <2>3. CASE version = "0002"
    BY <2>3 DEF DeployInv, SchemaOK
  <2>4. QED
    BY <2>1, <2>2, <2>3 DEF DeployInv, SchemaOK
<1>5. QED
  BY <1>1, <1>2, <1>4 DEF DeployInv

LEMMA StampedNames == /\ LegacyNames \subseteq DOMAIN LegacyStamped
                      /\ DOMAIN LegacyStamped = {"user", "apitoken", "alembic_version"} \cup LegacyNames
  BY AuthNames DEF LegacyStamped, LegacyNames, Deploy!Legacy, Deploy!Merge

LEMMA DroppingAre == \A x \in Dropping : x.op # "create" /\ x.table \in LegacyNames
<1>. SUFFICES ASSUME NEW x \in Dropping PROVE x.op # "create" /\ x.table \in LegacyNames
  OBVIOUS
<1>1. PICK t \in LegacyNames : x = Deploy!DropLegacy(t)
  BY DEF Dropping
<1>2. QED
  BY <1>1 DEF Deploy!DropLegacy

\* The statements of an upgrade.
LEMMA UpgradeCreates ==
  ASSUME DeployInv, NEW c \in Containers, run[c].pc = "ddl", run[c].script # <<>>,
         NEW names, Upgrading(run[c], names), Head(run[c].script).op = "create",
         Head(run[c].script).table \notin DOMAIN Deploy!Visible(c), NEW j,
         j.script = Tail(run[c].script), j.dropped = run[c].dropped,
         j.created = Deploy!Merge(run[c].created,
                       [t \in {Head(run[c].script).table} |-> Head(run[c].script).references])
  PROVE  /\ Upgrading(j, names)
         /\ DOMAIN j.created \cap DOMAIN tables \subseteq j.dropped
         /\ ToDrop(j.script) = ToDrop(run[c].script)
<1>. DEFINE s == Head(run[c].script)
<1>1. /\ run[c].script \in Seq(Creating \cup Dropping) /\ Ordered(run[c].script)
      /\ DOMAIN run[c].created \cup ToCreate(run[c].script) = names
      /\ \A t \in DOMAIN run[c].created : /\ run[c].created[t] = Deploy!AtHead[t]
                                          /\ t \notin ToDrop(run[c].script)
      /\ run[c].dropped \subseteq LegacyNames
  BY DEF Upgrading
<1>2. /\ s \in Creating \cup Dropping /\ Tail(run[c].script) \in Seq(Creating \cup Dropping)
      /\ Ordered(Tail(run[c].script))
      /\ ToCreate(run[c].script) = ToCreate(Tail(run[c].script)) \cup {s.table}
      /\ ToDrop(run[c].script) = ToDrop(Tail(run[c].script))
      /\ s.table \notin ToDrop(Tail(run[c].script))
  BY <1>1, Popped
<1>3. s.references = Deploy!AtHead[s.table]
  <2>1. \A x \in Creating : x.references = Deploy!AtHead[x.table]
    BY DEF Creating, Deploy!Create
  <2>2. QED
    BY <1>2, <2>1, DroppingAre
<1>. HIDE DEF s
<1>4. /\ DOMAIN j.created = DOMAIN run[c].created \cup {s.table}
      /\ \A t \in DOMAIN j.created :
           j.created[t] = IF t = s.table THEN s.references ELSE run[c].created[t]
  BY DEF Deploy!Merge, s
<1>5. Upgrading(j, names)
  BY <1>1, <1>2, <1>3, <1>4 DEF Upgrading
<1>6. DOMAIN run[c].created \cap DOMAIN tables \subseteq run[c].dropped
  BY DEF DeployInv, NamesOK
<1>7. s.table \in DOMAIN tables => s.table \in run[c].dropped
  BY Sees DEF s
<1>8. DOMAIN j.created \cap DOMAIN tables \subseteq j.dropped
  BY <1>4, <1>6, <1>7
<1>9. QED
  BY <1>2, <1>4, <1>5, <1>8 DEF Holds, s

LEMMA UpgradeDrops ==
  ASSUME DeployInv, NEW c \in Containers, run[c].pc = "ddl", run[c].script # <<>>,
         NEW names, Upgrading(run[c], names), Head(run[c].script).op # "create", NEW j,
         j.script = Tail(run[c].script),
         j.dropped = IF Head(run[c].script).table \in DOMAIN tables
                       THEN run[c].dropped \cup {Head(run[c].script).table} ELSE run[c].dropped,
         j.created = Deploy!Without(run[c].created, {Head(run[c].script).table})
  PROVE  /\ Upgrading(j, names)
         /\ DOMAIN j.created \cap DOMAIN tables \subseteq j.dropped
         /\ j.dropped \subseteq DOMAIN tables
         /\ ToDrop(run[c].script) = ToDrop(j.script) \cup {Head(run[c].script).table}
<1>. DEFINE s == Head(run[c].script)
<1>1. /\ run[c].script \in Seq(Creating \cup Dropping) /\ Ordered(run[c].script)
      /\ DOMAIN run[c].created \cup ToCreate(run[c].script) = names
      /\ \A t \in DOMAIN run[c].created : /\ run[c].created[t] = Deploy!AtHead[t]
                                          /\ t \notin ToDrop(run[c].script)
      /\ run[c].dropped \subseteq LegacyNames
  BY DEF Upgrading
<1>2. /\ s \in Creating \cup Dropping /\ Tail(run[c].script) \in Seq(Creating \cup Dropping)
      /\ Ordered(Tail(run[c].script))
      /\ ToCreate(run[c].script) = ToCreate(Tail(run[c].script))
      /\ ToDrop(run[c].script) = ToDrop(Tail(run[c].script)) \cup {s.table}
  BY <1>1, Popped
<1>3. s.table \in LegacyNames
  <2>1. \A x \in Creating : x.op = "create"
    BY DEF Creating, Deploy!Create
  <2>2. QED
    BY <1>2, <2>1, DroppingAre
<1>. HIDE DEF s
<1>4. s.table \notin DOMAIN run[c].created
  BY <1>1, <1>2
<1>5. /\ DOMAIN j.created = DOMAIN run[c].created
      /\ \A t \in DOMAIN j.created : j.created[t] = run[c].created[t]
  BY <1>4 DEF Deploy!Without, s
<1>6. Upgrading(j, names)
  <2>1. j.script \in Seq(Creating \cup Dropping) /\ Ordered(j.script)
    BY <1>2
  <2>2. DOMAIN j.created \cup ToCreate(j.script) = names
    BY <1>1, <1>2, <1>5
  <2>3. \A t \in DOMAIN j.created : j.created[t] = Deploy!AtHead[t] /\ t \notin ToDrop(j.script)
    BY <1>1, <1>2, <1>5
  <2>4. j.dropped \subseteq LegacyNames
    BY <1>1, <1>3 DEF s
  <2>5. QED
    BY <2>1, <2>2, <2>3, <2>4 DEF Upgrading
<1>7. /\ DOMAIN run[c].created \cap DOMAIN tables \subseteq run[c].dropped
      /\ run[c].dropped \subseteq DOMAIN tables
  BY DEF DeployInv, NamesOK
<1>8. QED
  BY <1>2, <1>5, <1>6, <1>7 DEF Holds, s

\* A statement of the downgrade succeeds on a table that is there.
LEMMA DowngradeGoesOn ==
  ASSUME DeployInv, NEW c \in Containers, run[c].pc = "ddl", run[c].script # <<>>,
         Reverses(run[c]), ~Deploy!Fails(Deploy!Visible(c), Head(run[c].script)), NEW j,
         j.script = Tail(run[c].script),
         j.dropped = IF Head(run[c].script).table \in DOMAIN tables
                       THEN run[c].dropped \cup {Head(run[c].script).table} ELSE run[c].dropped,
         j.created = Deploy!Without(run[c].created, {Head(run[c].script).table})
  PROVE  /\ Reverses(j)
         /\ DOMAIN j.created \cap DOMAIN tables \subseteq j.dropped
         /\ j.dropped \subseteq DOMAIN tables
<1>. DEFINE s == Head(run[c].script)
<1>1. /\ run[c].script \in Seq(Reverting) /\ DOMAIN run[c].created = {}
      /\ run[c].dropped \cup ToDrop(run[c].script) = DocxNames
  BY DEF Reverses
<1>2. \A x \in Reverting : x.op = "drop"
  BY DEF Reverting, Deploy!Drop
<1>3. /\ s \in Reverting /\ Tail(run[c].script) \in Seq(Reverting) /\ s.op = "drop"
      /\ ToDrop(run[c].script) = ToDrop(Tail(run[c].script)) \cup {s.table}
  BY <1>1, <1>2, Popped
<1>4. s.table \in DOMAIN Deploy!Visible(c)
  BY <1>3 DEF Deploy!Fails
<1>. HIDE DEF s
<1>5. s.table \in DOMAIN tables
  BY <1>1, <1>4, Sees
<1>6. DOMAIN j.created = {}
  BY <1>1 DEF Deploy!Without
<1>7. run[c].dropped \subseteq DOMAIN tables
  BY DEF DeployInv, NamesOK
<1>8. QED
  BY <1>1, <1>3, <1>5, <1>6, <1>7 DEF Reverses, Holds, s

LEMMA StatementKeeps == ASSUME DeployInv, NEW c \in Containers, Deploy!Statement(c)
                        PROVE  DeployInv'
<1>. DEFINE now == run[c]
            s == Head(now.script)
            j == [now EXCEPT !.script = Tail(@),
                    !.created = IF s.op = "create"
                                  THEN Deploy!Merge(@, [t \in {s.table} |-> s.references])
                                  ELSE Deploy!Without(@, {s.table}),
                    !.dropped = IF s.op # "create" /\ s.table \in DOMAIN tables
                                  THEN @ \cup {s.table} ELSE @]
<1>1. /\ now.pc = "ddl" /\ now.script # <<>> /\ ~Deploy!Held(s, c)
      /\ UNCHANGED <<tables, version, tableRows>>
  BY DEF Deploy!Statement
<1>2. CASE Deploy!Fails(Deploy!Visible(c), s)
  <2>1. run' = [run EXCEPT ![c] = Deploy!Started]
    BY <1>2 DEF Deploy!Statement
  <2>2. QED
    BY <1>1, <2>1, StartsAgain
<1>3. CASE ~Deploy!Fails(Deploy!Visible(c), s)
  <2>1. run' = [run EXCEPT ![c] = j]
    BY <1>3 DEF Deploy!Statement
  <2>2. now = [f \in Fields |-> now[f]] /\ ContainerOK(now)
    BY DEF DeployInv, RunOK, ContainerOK
  <2>3. /\ j = [f \in Fields |-> j[f]] /\ j.pc = now.pc /\ j.read = now.read
        /\ j.script = Tail(now.script)
        /\ j.created = IF s.op = "create"
                         THEN Deploy!Merge(now.created, [t \in {s.table} |-> s.references])
                         ELSE Deploy!Without(now.created, {s.table})
        /\ j.dropped = IF s.op # "create" /\ s.table \in DOMAIN tables
                         THEN now.dropped \cup {s.table} ELSE now.dropped
    BY <2>2 DEF Fields
  <2>. HIDE DEF j
  <2>4. now.dropped \subseteq DOMAIN tables
    BY DEF DeployInv, NamesOK
  <2>5. ASSUME NEW names, Upgrading(now, names), s.op = "create"
        PROVE  /\ Upgrading(j, names)
               /\ DOMAIN j.created \cap DOMAIN tables \subseteq j.dropped
               /\ ToDrop(j.script) = ToDrop(now.script) /\ j.dropped = now.dropped
    <3>1. s.table \notin DOMAIN Deploy!Visible(c)
      BY <1>3, <2>5 DEF Deploy!Fails
    <3>2. QED
      BY <1>1, <2>3, <2>5, <3>1, UpgradeCreates
  <2>6. ASSUME NEW names, Upgrading(now, names), s.op # "create"
        PROVE  /\ Upgrading(j, names)
               /\ DOMAIN j.created \cap DOMAIN tables \subseteq j.dropped
               /\ j.dropped \subseteq DOMAIN tables
               /\ ToDrop(now.script) = ToDrop(j.script) \cup {s.table}
    BY <1>1, <2>3, <2>6, UpgradeDrops
  <2>7. ASSUME Reverses(now)
        PROVE  /\ Reverses(j)
               /\ DOMAIN j.created \cap DOMAIN tables \subseteq j.dropped
               /\ j.dropped \subseteq DOMAIN tables
    <3>1. s.op = "drop"
      <4>1. now.script \in Seq(Reverting)
        BY <2>7 DEF Reverses
      <4>2. s \in Reverting
        BY <1>1, <4>1
      <4>3. \A x \in Reverting : x.op = "drop"
        BY DEF Reverting, Deploy!Drop
      <4>4. QED
        BY <4>2, <4>3
    <3>2. QED
      BY <1>1, <1>3, <2>3, <2>7, <3>1, DowngradeGoesOn
  <2>8. ASSUME NEW d \in Containers \ {c}
         PROVE  Holds(run[d]) \cap Holds(j) \subseteq Holds(now)
    <3>1. /\ Holds(run[d]) \cap Holds(now) = {}
          /\ run[d].dropped \subseteq DOMAIN tables
          /\ DOMAIN run[d].created \cap DOMAIN tables \subseteq run[d].dropped
      BY DEF DeployInv, NamesOK
    <3>2. CASE s.op = "create"
      <4>1. s.table \notin (DOMAIN tables \ now.dropped) \cup DOMAIN now.created
        BY <1>3, <3>2, Sees DEF Deploy!Fails
      <4>2. s.table \notin DOMAIN run[d].created
        BY <1>1, <3>2, <4>1, Sees DEF Deploy!Held, Deploy!Blocks
      <4>3. DOMAIN j.created = DOMAIN now.created \cup {s.table} /\ j.dropped = now.dropped
        BY <2>3, <3>2 DEF Deploy!Merge
      <4>4. QED
        BY <3>1, <4>1, <4>2, <4>3 DEF Holds
    <3>3. CASE s.op # "create"
      <4>1. s.table \notin run[d].dropped
        BY <1>1, <3>3 DEF Deploy!Held, Deploy!Blocks
      <4>2. DOMAIN j.created \subseteq DOMAIN now.created
        BY <2>3, <3>3 DEF Deploy!Without
      <4>3. QED
        BY <2>3, <3>1, <3>3, <4>1, <4>2 DEF Holds
    <3>4. QED
      BY <3>2, <3>3
  <2>. HIDE DEF s, now
  <2>9. /\ ContainerOK(j)
        /\ j.dropped \subseteq DOMAIN tables
        /\ DOMAIN j.created \cap DOMAIN tables \subseteq j.dropped
    <3>1. \/ now.read = "absent" /\ Upgrading(now, HeadNames)
          \/ now.read = "0001" /\ Upgrading(now, DocxNames)
          \/ now.read = "down" /\ Reverses(now)
      BY <1>1, <2>2 DEF ContainerOK, Idling
    <3>2. QED
      BY <1>1, <2>2, <2>3, <2>4, <2>5, <2>6, <2>7, <3>1 DEF ContainerOK, Running
  <2>10. ASSUME tables = LegacyStamped, j.read = "0001",
               LegacyNames \subseteq now.dropped \cup ToDrop(now.script)
        PROVE  LegacyNames \subseteq j.dropped \cup ToDrop(j.script)
    <3>1. Upgrading(now, DocxNames)
      BY <2>2, <2>3, <2>10 DEF ContainerOK
    <3>2. CASE s.op = "create"
      BY <2>5, <2>10, <3>1, <3>2
    <3>3. CASE s.op # "create"
      <4>1. ToDrop(now.script) = ToDrop(j.script) \cup {s.table}
        BY <2>6, <3>1, <3>3
      <4>2. s.table \in LegacyNames => s.table \in j.dropped
        BY <2>3, <2>10, <3>3, StampedNames
      <4>3. now.dropped \subseteq j.dropped
        BY <2>3
      <4>4. QED
        BY <2>10, <4>1, <4>2, <4>3
    <3>4. QED
      BY <3>2, <3>3
  <2>11. QED
    BY <1>1, <2>1, <2>3, <2>9, <2>10, <2>8, TakesName DEF now
<1>4. QED
  BY <1>2, <1>3

\* What a commit leaves.
LEMMA FreshCommits ==
  ASSUME DeployInv, NEW c \in Containers, run[c].pc = "ddl", run[c].script = <<>>,
         run[c].read = version, version \in {"absent", "0001"}
  PROVE  Deploy!Visible(c) = Deploy!AtHead /\ tableRows \cap run[c].dropped = {}
<1>. DEFINE j == run[c]
<1>1. ToCreate(<<>>) = {} /\ ToDrop(<<>>) = {}
  BY DEF ToCreate, ToDrop
<1>2. /\ DOMAIN j.created = IF version = "absent" THEN HeadNames ELSE DocxNames
      /\ \A t \in DOMAIN j.created : j.created[t] = Deploy!AtHead[t]
      /\ j.dropped \subseteq LegacyNames
  BY <1>1 DEF DeployInv, RunOK, ContainerOK, Upgrading
<1>3. /\ j.dropped \subseteq DOMAIN tables
      /\ DOMAIN j.created \cap DOMAIN tables \subseteq j.dropped
  BY DEF DeployInv, NamesOK
<1>4. Deploy!AtHead = [t \in HeadNames |-> Deploy!AtHead[t]]
  BY DEF Deploy!AtHead, Deploy!Merge, HeadNames
<1>5. ASSUME DOMAIN Deploy!Visible(c) = HeadNames,
             \A t \in HeadNames \ DOMAIN j.created : tables[t] = Deploy!AtHead[t]
      PROVE  Deploy!Visible(c) = Deploy!AtHead
  <2>1. \A t \in HeadNames : Deploy!Visible(c)[t] = Deploy!AtHead[t]
    BY <1>2, <1>5, Sees
  <2>2. Deploy!Visible(c) = [t \in HeadNames |-> Deploy!Visible(c)[t]]
    BY <1>5, Sees
  <2>3. QED
    BY <1>4, <2>1, <2>2
<1>6. CASE version = "absent"
  <2>1. "user" \notin DOMAIN tables
    BY <1>2, <1>3, <1>6, HeadHas, NamesApart
  <2>2. "user" \in DOMAIN Deploy!Legacy
    BY AuthNames DEF Deploy!Legacy, Deploy!Merge
  <2>3. DOMAIN tables = {} /\ tableRows = {}
    BY <1>6, <2>1, <2>2 DEF DeployInv, SchemaOK, Untouched
  <2>4. QED
    BY <1>2, <1>3, <1>5, <1>6, <2>3, Sees
<1>7. ASSUME version = "0001", {"user", "apitoken", "alembic_version"} \subseteq DOMAIN tables,
             DOMAIN tables \ j.dropped = {"user", "apitoken", "alembic_version"},
             \A t \in {"user", "apitoken", "alembic_version"} : tables[t] = Deploy!AtHead[t]
      PROVE  Deploy!Visible(c) = Deploy!AtHead
  BY <1>2, <1>5, <1>7, HeadHas, Sees
<1>8. /\ DOMAIN Deploy!AtBaseline = {"user", "apitoken", "alembic_version"}
      /\ \A t \in DOMAIN Deploy!AtBaseline : Deploy!AtBaseline[t] = Deploy!AtHead[t]
  BY AuthNames, HeadHas DEF Deploy!AtBaseline, Deploy!Merge
<1>9. \A t \in {"user", "apitoken", "alembic_version"} : LegacyStamped[t] = Deploy!AtHead[t]
  BY AuthNames, HeadHas, NamesApart
     DEF LegacyStamped, LegacyNames, Deploy!Legacy, Deploy!Merge
<1>10. CASE version = "0001" /\ tables = Deploy!AtBaseline
  <2>1. j.dropped = {}
    BY <1>2, <1>3, <1>8, <1>10, NamesApart
  <2>2. QED
    BY <1>7, <1>8, <1>10, <2>1
<1>11. CASE version = "0001" /\ tables = LegacyStamped /\ Untouched
            /\ LegacyNames \subseteq j.dropped \cup ToDrop(j.script)
  <2>1. LegacyNames = j.dropped
    BY <1>1, <1>2, <1>11
  <2>2. QED
    BY <1>7, <1>9, <1>11, <2>1, StampedNames, NamesApart DEF Untouched
<1>12. QED
  BY <1>6, <1>10, <1>11 DEF DeployInv, SchemaOK

LEMMA RevertCommits ==
  ASSUME DeployInv, NEW c \in Containers, run[c].script = <<>>, run[c].read = "down",
         version = "0002"
  PROVE  Deploy!Visible(c) = Deploy!AtBaseline
<1>1. ToDrop(<<>>) = {}
  BY DEF ToDrop
<1>2. DOMAIN run[c].created = {} /\ run[c].dropped = DocxNames
  BY <1>1 DEF DeployInv, RunOK, ContainerOK, Reverses
<1>3. tables = Deploy!AtHead
  BY DEF DeployInv, SchemaOK
<1>4. /\ DOMAIN Deploy!AtBaseline = {"user", "apitoken", "alembic_version"}
      /\ \A t \in DOMAIN Deploy!AtBaseline : Deploy!AtBaseline[t] = Deploy!AtHead[t]
      /\ Deploy!AtBaseline = [t \in DOMAIN Deploy!AtBaseline |-> Deploy!AtBaseline[t]]
  BY AuthNames, HeadHas DEF Deploy!AtBaseline, Deploy!Merge
<1>5. DOMAIN Deploy!Visible(c) = {"user", "apitoken", "alembic_version"}
  <2>1. DOMAIN Deploy!Visible(c) = HeadNames \ DocxNames
    BY <1>2, <1>3, Sees DEF HeadNames
  <2>2. QED
    BY <2>1, HeadHas, NamesApart
<1>6. \A t \in DOMAIN Deploy!Visible(c) : Deploy!Visible(c)[t] = Deploy!AtBaseline[t]
  <2>. SUFFICES ASSUME NEW t \in DOMAIN Deploy!Visible(c)
                PROVE  Deploy!Visible(c)[t] = Deploy!AtBaseline[t]
    OBVIOUS
  <2>1. Deploy!Visible(c)[t] = tables[t]
    BY <1>2, Sees
  <2>2. QED
    BY <1>3, <1>4, <1>5, <2>1
<1>7. Deploy!Visible(c) = [t \in DOMAIN Deploy!Visible(c) |-> Deploy!Visible(c)[t]]
  BY Sees
<1>8. QED
  BY <1>4, <1>5, <1>6, <1>7

\* What RowsSurvive says of a step.
RowsKept == tableRows \subseteq tableRows' \/ \E c \in Containers : run[c].read = "down" /\ run'[c] # run[c]

LEMMA CommitUpgradeKeeps == ASSUME DeployInv, NEW c \in Containers, Deploy!CommitUpgrade(c)
                            PROVE  DeployInv' /\ RowsKept
<1>1. run[c].pc = "ddl" /\ run[c].script = <<>>
  BY DEF Deploy!CommitUpgrade
<1>2. CASE version # IF run[c].read = "down" THEN "0002" ELSE run[c].read
  <2>1. run' = [run EXCEPT ![c] = Deploy!Started] /\ UNCHANGED <<tables, version, tableRows>>
    BY <1>2 DEF Deploy!CommitUpgrade
  <2>2. QED
    BY <2>1, StartsAgain DEF RowsKept
<1>3. CASE version = IF run[c].read = "down" THEN "0002" ELSE run[c].read
  <2>. DEFINE j == [Deploy!Started EXCEPT !.pc = IF run[c].read = "down" THEN "start" ELSE "boot"]
  <2>1. /\ tables' = Deploy!Visible(c) /\ tableRows' = tableRows \ run[c].dropped
        /\ version' = IF run[c].read = "down" THEN "0001" ELSE "0002"
        /\ run' = [run EXCEPT ![c] = j]
    BY <1>3 DEF Deploy!CommitUpgrade
  <2>2. /\ j = [f \in Fields |-> j[f]] /\ j.read = "none" /\ Idling(j)
        /\ j.pc = IF run[c].read = "down" THEN "start" ELSE "boot"
    BY StartedOK DEF Fields, Idling
  <2>. HIDE DEF j
  <2>3. ContainerOK(j) /\ Holds(j) = {}
    BY <2>2 DEF ContainerOK, Holds, Idling, Running, Up
  <2>4. /\ RunOK' /\ NamesOK'
        /\ \A d \in Containers : run'[d] = IF d = c THEN j ELSE run[d]
    BY <2>1, <2>3, CommitNames
  <2>5. version \in {"absent", "0001", "0002"}
    BY DEF DeployInv, SchemaOK
  <2>6. CASE run[c].read = "down"
    <3>1. tables' = Deploy!AtBaseline /\ version' = "0001"
      BY <1>1, <1>3, <2>1, <2>6, RevertCommits
    <3>2. run'[c] # run[c]
      BY <1>1, <2>2, <2>4, <2>6
    <3>3. QED
      BY <2>4, <2>6, <3>1, <3>2 DEF DeployInv, SchemaOK, RowsKept
  <2>7. CASE run[c].read = version /\ version \in {"absent", "0001"}
    <3>1. tables' = Deploy!AtHead /\ tableRows \cap run[c].dropped = {} /\ version' = "0002"
      BY <1>1, <2>1, <2>7, FreshCommits
    <3>2. QED
      BY <2>1, <2>4, <3>1 DEF DeployInv, SchemaOK, RowsKept
  <2>8. CASE run[c].read = version /\ version = "0002"
    <3>1. DOMAIN run[c].created = {} /\ run[c].dropped = {}
      BY <2>8 DEF DeployInv, RunOK, ContainerOK, Idling
    <3>2. tables = Deploy!AtHead
      BY <2>8 DEF DeployInv, SchemaOK
    <3>3. Deploy!AtHead = [t \in DOMAIN Deploy!AtHead |-> Deploy!AtHead[t]]
      BY DEF Deploy!AtHead, Deploy!Merge
    <3>4. Deploy!Visible(c) = tables
      BY <3>1, <3>2, <3>3, Sees
    <3>5. QED
      BY <2>1, <2>4, <2>8, <3>1, <3>2, <3>4 DEF DeployInv, SchemaOK, RowsKept
  <2>9. QED
    BY <1>3, <2>5, <2>6, <2>7, <2>8
<1>4. QED
  BY <1>2, <1>3

LEMMA BootKeeps == ASSUME DeployInv, NEW c \in Containers, Deploy!Boot(c) PROVE DeployInv'
<1>. DEFINE pc == IF admins = 0 THEN "insert" ELSE "serving"
            j == [run[c] EXCEPT !.pc = pc]
<1>1. /\ run[c].pc = "boot" /\ run' = [run EXCEPT ![c].pc = pc]
      /\ UNCHANGED <<tables, version, tableRows>>
  BY DEF Deploy!Boot
<1>2. pc \in Running \ {"ddl"} /\ pc # "stamp"
  BY DEF Running, Up
<1>. HIDE DEF pc
<1>3. /\ ContainerOK(j) /\ Holds(j) = {} /\ j.pc = pc /\ j.read = "none"
      /\ run' = [run EXCEPT ![c] = j]
  BY <1>1, <1>2, Waiting
<1>. HIDE DEF j
<1>4. QED
  BY <1>1, <1>2, <1>3, LetsGo DEF Up

LEMMA InsertAdminKeeps == ASSUME DeployInv, NEW c \in Containers, Deploy!InsertAdmin(c)
                          PROVE  DeployInv'
<1>1. run[c].pc = "insert" /\ UNCHANGED <<tables, version, tableRows>>
  BY DEF Deploy!InsertAdmin
<1>2. CASE run' = [run EXCEPT ![c] = Deploy!Started]
  BY <1>1, <1>2, StartsAgain
<1>3. CASE run' = [run EXCEPT ![c] = [Deploy!Started EXCEPT !.pc = "serving"]]
  <2>. DEFINE j == [Deploy!Started EXCEPT !.pc = "serving"]
  <2>1. j = [f \in Fields |-> j[f]] /\ j.read = "none" /\ Idling(j) /\ j.pc = "serving"
    BY StartedOK DEF Fields, Idling
  <2>. HIDE DEF j
  <2>2. ContainerOK(j) /\ Holds(j) = {}
    BY <2>1 DEF ContainerOK, Holds, Idling, Running, Up
  <2>3. run' = [run EXCEPT ![c] = j]
    BY <1>3 DEF j
  <2>4. QED
    BY <1>1, <2>1, <2>2, <2>3, LetsGo DEF Up
<1>4. QED
  BY <1>2, <1>3 DEF Deploy!InsertAdmin

LEMMA ServeKeeps == ASSUME DeployInv, NEW c \in Containers, NEW t, Deploy!Serve(c, t)
                    PROVE  DeployInv' /\ RowsKept
<1>1. /\ run[c].pc = "serving" /\ tableRows' = tableRows \cup {t}
      /\ UNCHANGED <<tables, version, run>>
  BY DEF Deploy!Serve
<1>2. ~Untouched
  BY <1>1 DEF Untouched, Up
<1>3. RunOK' /\ NamesOK'
  BY <1>1 DEF DeployInv, RunOK, NamesOK
<1>4. QED
  BY <1>1, <1>2, <1>3 DEF DeployInv, SchemaOK, RowsKept

LEMMA DeployStep == DeployInv /\ [Deploy!Next]_Deploy!vars => DeployInv' /\ RowsKept
<1>. SUFFICES ASSUME DeployInv, [Deploy!Next]_Deploy!vars PROVE DeployInv' /\ RowsKept
  OBVIOUS
<1>1. ASSUME NEW c \in Containers,
             \/ Deploy!CheckStamp(c) \/ Deploy!Stamp(c) \/ Deploy!BeginUpgrade(c)
             \/ Deploy!BeginDowngrade(c) \/ Deploy!Statement(c) \/ Deploy!Boot(c)
             \/ Deploy!InsertAdmin(c)
      PROVE  DeployInv' /\ RowsKept
  <2>1. UNCHANGED tableRows
    BY <1>1 DEF Deploy!CheckStamp, Deploy!Stamp, Deploy!BeginUpgrade, Deploy!BeginDowngrade,
                Deploy!Statement, Deploy!Boot, Deploy!InsertAdmin
  <2>2. DeployInv'
    BY <1>1, CheckStampKeeps, StampKeeps, BeginUpgradeKeeps, BeginDowngradeKeeps,
       StatementKeeps, BootKeeps, InsertAdminKeeps
  <2>3. QED
    BY <2>1, <2>2 DEF RowsKept
<1>2. ASSUME NEW c \in Containers, Deploy!BreakDeadlock(c) \/ Deploy!Crash(c)
      PROVE  DeployInv' /\ RowsKept
  <2>1. /\ run' = [run EXCEPT ![c] = Deploy!Started]
        /\ UNCHANGED <<tables, version, tableRows>>
    BY <1>2 DEF Deploy!BreakDeadlock, Deploy!Crash
  <2>2. QED
    BY <2>1, StartsAgain DEF RowsKept
<1>3. CASE UNCHANGED Deploy!vars
  BY <1>3 DEF Deploy!vars, DeployInv, RunOK, NamesOK, SchemaOK, Untouched, RowsKept
<1>4. QED
  BY <1>1, <1>2, <1>3, CommitUpgradeKeeps, ServeKeeps DEF Deploy!Next, Deploy!Step

-----------------------------------------------------------------------------
(* A behaviour of MCSpec is one of the orchestrator in either of its parts. *)

allvars == <<part, gpu, deploy, plans, pages>>

LEMMA Moves == MCSpec => MCInit /\ [][MCNext]_allvars
BY PTL DEF MCSpec, allvars

LEMMA PlansMove == MCSpec => Plans!Init /\ [][Plans!Next]_Plans!vars
<1>1. MCInit => Plans!Init
  BY DEF MCInit
<1>2. [MCNext]_allvars => [Plans!Next]_Plans!vars
  BY DEF MCNext, allvars, plans, Plans!vars
<1>3. QED
  BY <1>1, <1>2, Moves, PTL

\* No resume is lost to another that overlaps it, unless the workbench has saved over the
\* plan what it had read before (workflow_orchestrator.py:118-136).
THEOREM PlansAlwaysKept == MCSpec => []PlanKept
<1>1. Plans!Init /\ [][Plans!Next]_Plans!vars => []Plans!PlanKept
  BY NoneAssumption, Plans!StepsKeepPlans DEF Plans!NoneApart
<1>2. Plans!PlanKept => PlanKept
  BY DEF PlanKept
<1>3. QED
  BY <1>1, <1>2, PlansMove, PTL

\* A plan is never blocked (workflow_orchestrator.py:80-106).
THEOREM PlansNeverBlocked == MCSpec => []NeverBlocked
<1>1. Page!NeverBlocked
  BY ProfilesInOrder, Page!NextIsPossible
<1>2. Page!NeverBlocked => NeverBlocked
  BY DEF NeverBlocked
<1>3. QED
  BY <1>1, <1>2, PTL

\* A complete plan is one whose every stage the page shows as accepted
\* (stage_config.py:239-325).
THEOREM CompletePlansShown == MCSpec => []CompleteIsShown
<1>1. Page!CompleteIsShown
  BY ProfilesInOrder, Page!CompletionShows
<1>2. Page!CompleteIsShown => CompleteIsShown
  BY DEF CompleteIsShown
<1>3. QED
  BY <1>1, <1>2, PTL

LEMMA DeployMoves == MCSpec => Deploy!Init /\ [][Deploy!Next]_Deploy!vars
<1>1. MCInit => Deploy!Init
  BY DEF MCInit
<1>2. [MCNext]_allvars => [Deploy!Next]_Deploy!vars
  BY DEF MCNext, allvars, deploy, Deploy!vars
<1>3. QED
  BY <1>1, <1>2, Moves, PTL

LEMMA DeployInvHolds == MCSpec => []DeployInv
<1>1. DeployInv /\ [Deploy!Next]_Deploy!vars => DeployInv'
  BY DeployStep
<1>2. QED
  BY <1>1, InitDeployInv, DeployMoves, PTL

\* The version of the database tells which tables there are, reference for reference,
\* for any number of containers that run the revisions, fail, deadlock, die and are
\* started again (Dockerfile:25-30, alembic/env.py:51-107).
THEOREM VersionAlwaysTells == MCSpec => []VersionTellsSchema
<1>1. DeployInv => VersionTellsSchema
  <2>. SUFFICES ASSUME DeployInv PROVE Deploy!VersionTellsSchema
    BY DEF VersionTellsSchema
  <2>1. \A t \in DOMAIN Deploy!AuthModels : Deploy!AtBaseline[t] = Deploy!AuthModels[t]
    BY AuthNames DEF Deploy!AtBaseline, Deploy!Merge
  <2>2. \A t \in DOMAIN Deploy!AuthModels : LegacyStamped[t] = Deploy!AuthModels[t]
    BY AuthNames, LegacyAre DEF LegacyStamped, LegacyNames, Deploy!Legacy, Deploy!Merge
  <2>3. QED
    BY <2>1, <2>2 DEF DeployInv, SchemaOK, Deploy!VersionTellsSchema
<1>2. QED
  BY <1>1, DeployInvHolds, PTL

\* No upgrade destroys rows of the API, also not one that began before the tables it
\* drops were made: it fails on the first it creates (0002_docx_tables.py:66-70).
THEOREM RowsAlwaysSurvive == MCSpec => RowsSurvive
<1>1. DeployInv /\ [Deploy!Next]_Deploy!vars =>
        [\/ tableRows \subseteq tableRows'
         \/ \E c \in Containers : run[c].read = "down" /\ run'[c] # run[c]]_Deploy!vars
  BY DeployStep DEF RowsKept
<1>2. QED
  BY <1>1, DeployInvHolds, DeployMoves, PTL DEF RowsSurvive, Deploy!RowsSurvive
=============================================================================
