-------------------------- MODULE OrchestratorProofs --------------------------
(* That no resume is lost to another one that overlaps it, that no plan is ever  *)
(* blocked, and that a complete plan is shown as such, for any number of         *)
(* processes, stages and plans.                                                  *)
EXTENDS Orchestrator, WellFoundedInduction, TLAPS

\* None is no process.
NoneApart == None \notin Workers

\* A metadata column and what a process holds are records of their fields.
RequestFields == {"op", "read", "requested", "plan"}
IsMetadata(m) == m = [changed |-> m.changed, orchestrator |-> m.orchestrator]
IsRequest(j) == j = [f \in RequestFields |-> j[f]]

Shapes == /\ IsMetadata(metadata)
          /\ req = [w \in Workers |-> req[w]]
          /\ \A w \in Workers : IsRequest(req[w]) /\ IsMetadata(req[w].read)

\* Who makes a plan holds the lock, and has read the metadata as it is.
PlanningLocked ==
  \A w \in Workers : req[w].op \in {"plan", "snapshot"} => lock = w /\ req[w].read = metadata

IInv == NoneApart /\ Shapes /\ PlanningLocked /\ PlanKept

-----------------------------------------------------------------------------
LEMMA InitIInv == NoneApart /\ Init => IInv
<1> SUFFICES ASSUME NoneApart, Init PROVE IInv
  OBVIOUS
<1>1. Shapes
  BY DEF Init, Shapes, IsMetadata, IsRequest, RequestFields, Idle, NoPlan
<1>2. PlanningLocked
  BY DEF Init, PlanningLocked, Idle
<1>3. PlanKept
  BY DEF Init, PlanKept, Idle, NoPlan
<1> QED BY <1>1, <1>2, <1>3 DEF IInv

\* A process that goes on with another request leaves the others what they hold.
LEMMA RequestMoves ==
  ASSUME Shapes, NEW w \in Workers, NEW j, IsRequest(j), IsMetadata(j.read),
         IsMetadata(metadata'), req' = [req EXCEPT ![w] = j]
  PROVE Shapes' /\ req'[w] = j /\ \A v \in Workers \ {w} : req'[v] = req[v]
<1>1. req' = [v \in Workers |-> IF v = w THEN j ELSE req[v]]
  BY DEF Shapes
<1>2. req'[w] = j /\ \A v \in Workers \ {w} : req'[v] = req[v]
  BY <1>1
<1>3. req' = [v \in Workers |-> req'[v]]
  BY <1>1
<1>4. \A v \in Workers : IsRequest(req'[v]) /\ IsMetadata(req'[v].read)
  BY <1>2 DEF Shapes
<1> QED BY <1>2, <1>3, <1>4 DEF Shapes, IsMetadata, IsRequest

\* While nobody holds the lock nobody plans, so that nobody's copy becomes old.
LEMMA UnlockedKeeps ==
  ASSUME IInv, NEW w \in Workers, lock = None, UNCHANGED lock,
         \A v \in Workers \ {w} : req'[v] = req[v],
         req'[w].op \notin {"plan", "snapshot"}
  PROVE PlanningLocked'
<1>1. \A v \in Workers : req[v].op \notin {"plan", "snapshot"}
  BY DEF IInv, NoneApart, PlanningLocked
<1> QED BY <1>1 DEF PlanningLocked

-----------------------------------------------------------------------------
LEMMA RowMovesKeeps == ASSUME IInv, NEW s \in Stages, RowMoves(s) PROVE IInv'
<1>1. UNCHANGED <<metadata, lock, made, latest, stale, req>>
  BY DEF RowMoves
<1> QED BY <1>1 DEF IInv, NoneApart, Shapes, IsMetadata, IsRequest, PlanningLocked, PlanKept

LEMMA SaveSourceKeeps == ASSUME IInv, NEW w \in Workers, SaveSource(w) PROVE IInv'
<1>1. UNCHANGED <<metadata, lock, made, latest, stale, req>>
  BY DEF SaveSource
<1> QED BY <1>1 DEF IInv, NoneApart, Shapes, IsMetadata, IsRequest, PlanningLocked, PlanKept

\* A request whose fields change is still one.
LEMMA RequestStays ==
  ASSUME NEW r, IsRequest(r), NEW op, NEW read, NEW requested, NEW plan
  PROVE /\ IsRequest([r EXCEPT !.op = op, !.read = read])
        /\ IsRequest([r EXCEPT !.op = op, !.plan = plan])
        /\ IsRequest([r EXCEPT !.op = op, !.read = read, !.requested = requested])
  BY DEF IsRequest

LEMMA IdleShape == /\ IsRequest(Idle) /\ IsMetadata(Idle.read)
                   /\ Idle.op = "idle" /\ Idle.read.orchestrator = NoPlan
  BY DEF IsRequest, RequestFields, IsMetadata, Idle

\* The lock is taken together with a copy of the metadata.
LEMMA BeginResumeKeeps == ASSUME IInv, NEW w \in Workers, NEW R, BeginResume(w, R)
                          PROVE IInv'
<1> USE DEF IInv
<1> DEFINE j == [Idle EXCEPT !.op = "plan", !.read = metadata, !.requested = R]
<1>1. IsRequest(j) /\ j.read = metadata /\ j.op = "plan"
  BY RequestStays, IdleShape DEF Idle
<1>2. /\ lock = None /\ lock' = w /\ UNCHANGED <<metadata, made, latest, stale>>
      /\ req' = [req EXCEPT ![w] = j]
  BY DEF BeginResume
<1> HIDE DEF j
<1>3. IsMetadata(metadata') /\ IsMetadata(j.read)
  BY <1>1, <1>2 DEF Shapes, IsMetadata
<1>4. Shapes' /\ req'[w] = j /\ \A v \in Workers \ {w} : req'[v] = req[v]
  BY <1>1, <1>2, <1>3, RequestMoves
<1>5. PlanningLocked'
  BY <1>1, <1>2, <1>4 DEF PlanningLocked, NoneApart
<1> QED BY <1>2, <1>4, <1>5 DEF NoneApart, PlanKept

LEMMA MakePlanKeeps == ASSUME IInv, NEW w \in Workers, MakePlan(w) PROVE IInv'
<1> USE DEF IInv
<1> DEFINE plan == Plan(rows, req[w].requested)
           j == [req[w] EXCEPT !.op = "snapshot", !.plan = plan]
<1>1. req[w].op = "plan" /\ UNCHANGED <<metadata, lock, made, latest, stale>>
  BY DEF MakePlan
<1>2. req' = [req EXCEPT ![w] = j]
  BY DEF MakePlan, Shapes
<1> HIDE DEF plan
<1>3. IsRequest(j) /\ j.read = req[w].read
  <2>1. IsRequest(j)
    BY RequestStays DEF Shapes
  <2> QED BY <2>1 DEF Shapes, IsRequest, RequestFields
<1> HIDE DEF j
<1>4. IsMetadata(metadata') /\ IsMetadata(j.read)
  BY <1>1, <1>3 DEF Shapes, IsMetadata
<1>5. Shapes' /\ req'[w] = j /\ \A v \in Workers \ {w} : req'[v] = req[v]
  BY <1>2, <1>3, <1>4, RequestMoves
<1>6. PlanningLocked'
  BY <1>1, <1>3, <1>5 DEF PlanningLocked
<1> QED BY <1>1, <1>5, <1>6 DEF NoneApart, PlanKept

\* The copy that a snapshot continues is the metadata as it is.
LEMMA SnapshotKeeps == ASSUME IInv, NEW w \in Workers, Snapshot(w) PROVE IInv'
<1> USE DEF IInv
<1> DEFINE o == [plan |-> req[w].plan, count |-> metadata.orchestrator.count + 1,
                 previous |-> metadata.orchestrator.plan]
<1>1. lock = w /\ req[w].read = metadata
  BY DEF Snapshot, PlanningLocked
<1>2. metadata' = [changed |-> metadata.changed, orchestrator |-> o]
  BY <1>1 DEF Snapshot, Shapes, IsMetadata
<1>3. /\ made' = made + 1 /\ latest' = <<latest[2], req[w].plan>> /\ lock' = None
      /\ req' = [req EXCEPT ![w] = Idle] /\ UNCHANGED stale
  BY DEF Snapshot
<1>4. Shapes' /\ req'[w] = Idle /\ \A v \in Workers \ {w} : req'[v] = req[v]
  BY <1>2, <1>3, IdleShape, RequestMoves DEF IsMetadata
<1>5. PlanningLocked'
  BY <1>1, <1>4, IdleShape DEF PlanningLocked
<1>6. PlanKept'
  BY <1>2, <1>3 DEF PlanKept
<1> QED BY <1>4, <1>5, <1>6 DEF NoneApart

-----------------------------------------------------------------------------
LEMMA BeginEditKeeps == ASSUME IInv, NEW w \in Workers, NEW op \in {"edit", "clear"},
                               BeginEdit(w, op)
                        PROVE IInv'
<1> USE DEF IInv
<1> DEFINE j == [Idle EXCEPT !.op = op, !.read = metadata]
<1>1. IsRequest(j) /\ j.read = metadata /\ j.op = op
  BY RequestStays, IdleShape DEF Idle
<1>2. req' = [req EXCEPT ![w] = j] /\ UNCHANGED <<metadata, lock, made, latest, stale>>
  BY DEF BeginEdit
<1> HIDE DEF j
<1>3. IsMetadata(metadata') /\ IsMetadata(j.read)
  BY <1>1, <1>2 DEF Shapes, IsMetadata
<1>4. Shapes' /\ req'[w] = j /\ \A v \in Workers \ {w} : req'[v] = req[v]
  BY <1>1, <1>2, <1>3, RequestMoves
<1>5. PlanningLocked'
  BY <1>1, <1>2, <1>4 DEF PlanningLocked
<1> QED BY <1>2, <1>4, <1>5 DEF NoneApart, PlanKept

\* A copy that is saved over a plan it does not hold is noted as stale.
LEMMA SavedCopy ==
  ASSUME PlanKept, NEW w \in Workers, UNCHANGED <<made, latest>>,
         metadata'.orchestrator = req[w].read.orchestrator,
         stale' = (stale \/ Outdated(w))
  PROVE PlanKept'
  BY DEF PlanKept, Outdated

LEMMA EditTextKeeps == ASSUME IInv, NEW w \in Workers, EditText(w) PROVE IInv'
<1> USE DEF IInv
<1> DEFINE j == [req[w] EXCEPT !.op = "mark", !.read = metadata']
<1>1. /\ lock = None /\ metadata' = req[w].read /\ UNCHANGED <<lock, made, latest>>
      /\ stale' = (stale \/ Outdated(w))
  BY DEF EditText
<1>2. req' = [req EXCEPT ![w] = j]
  BY DEF EditText, Shapes
<1>3. IsRequest(j) /\ j.read = metadata' /\ j.op = "mark"
  <2>1. IsRequest(j)
    BY RequestStays DEF Shapes
  <2> QED BY <2>1 DEF Shapes, IsRequest, RequestFields
<1> HIDE DEF j
<1>4. IsMetadata(metadata') /\ IsMetadata(j.read)
  BY <1>1, <1>3 DEF Shapes
<1>5. Shapes' /\ req'[w] = j /\ \A v \in Workers \ {w} : req'[v] = req[v]
  BY <1>2, <1>3, <1>4, RequestMoves
<1>6. PlanningLocked'
  BY <1>1, <1>3, <1>5, UnlockedKeeps
<1>7. PlanKept'
  BY <1>1, SavedCopy
<1> QED BY <1>5, <1>6, <1>7 DEF NoneApart

\* The change flag is not part of the plan.
LEMMA FlagApart == ASSUME NEW m, IsMetadata(m), NEW flag
                   PROVE /\ IsMetadata([m EXCEPT !.changed = flag])
                         /\ [m EXCEPT !.changed = flag].orchestrator = m.orchestrator
  BY DEF IsMetadata

LEMMA FlagsKeep == ASSUME IInv, NEW w \in Workers, MarkChanged(w) \/ ClearChanged(w)
                   PROVE IInv'
<1> USE DEF IInv
<1>1. /\ lock = None /\ UNCHANGED <<lock, made, latest>>
      /\ req' = [req EXCEPT ![w] = Idle]
  BY DEF MarkChanged, ClearChanged
<1>2. IsMetadata(req[w].read)
  BY DEF Shapes
<1>3. IsMetadata(metadata') /\ PlanKept'
  <2>1. CASE MarkChanged(w)
    <3>1. /\ metadata' = [req[w].read EXCEPT !.changed = TRUE]
          /\ stale' = (stale \/ Outdated(w))
      BY <2>1 DEF MarkChanged
    <3> QED BY <1>1, <1>2, <3>1, FlagApart, SavedCopy
  <2>2. CASE ClearChanged(w) /\ req[w].read.changed
    <3>1. metadata' = [req[w].read EXCEPT !.changed = FALSE]
      BY <2>2 DEF ClearChanged
    <3>2. stale' = (stale \/ Outdated(w))
      BY <2>2 DEF ClearChanged
    <3> QED BY <1>1, <1>2, <3>1, <3>2, FlagApart, SavedCopy
  <2>3. CASE ClearChanged(w) /\ ~req[w].read.changed
    <3>1. metadata' = metadata
      BY <2>3 DEF ClearChanged
    <3>2. stale' \/ ~stale
      BY <2>3 DEF ClearChanged
    <3> QED BY <1>1, <3>1, <3>2 DEF PlanKept, Shapes, IsMetadata
  <2> QED BY <2>1, <2>2, <2>3
<1>4. Shapes' /\ req'[w] = Idle /\ \A v \in Workers \ {w} : req'[v] = req[v]
  BY <1>1, <1>3, IdleShape, RequestMoves
<1>5. PlanningLocked'
  BY <1>1, <1>4, IdleShape, UnlockedKeeps
<1> QED BY <1>3, <1>4, <1>5 DEF NoneApart

LEMMA UseSampleKeeps == ASSUME IInv, NEW w \in Workers, UseSample(w) PROVE IInv'
<1> USE DEF IInv
<1>1. /\ req[w] = Idle /\ lock = None /\ UNCHANGED <<lock, made, latest, req>>
      /\ metadata' = Idle.read /\ stale' = (stale \/ metadata.orchestrator # NoPlan)
  BY DEF UseSample
<1>2. Shapes'
  BY <1>1, IdleShape DEF Shapes, IsMetadata, IsRequest
<1>3. PlanningLocked'
  BY <1>1, IdleShape, UnlockedKeeps
<1>4. PlanKept'
  BY <1>1, IdleShape DEF PlanKept
<1> QED BY <1>2, <1>3, <1>4 DEF NoneApart

LEMMA AbandonKeeps == ASSUME IInv, NEW w \in Workers, Abandon(w) PROVE IInv'
<1> USE DEF IInv
<1>1. /\ req' = [req EXCEPT ![w] = Idle] /\ UNCHANGED <<metadata, made, latest, stale>>
      /\ lock' = IF lock = w THEN None ELSE lock
  BY DEF Abandon
<1>2. IsMetadata(metadata')
  BY <1>1 DEF Shapes, IsMetadata
<1>3. Shapes' /\ req'[w] = Idle /\ \A v \in Workers \ {w} : req'[v] = req[v]
  BY <1>1, <1>2, IdleShape, RequestMoves
<1>4. PlanningLocked'
  BY <1>1, <1>3, IdleShape DEF PlanningLocked
<1> QED BY <1>1, <1>3, <1>4 DEF NoneApart, PlanKept

-----------------------------------------------------------------------------
LEMMA NextIInv == IInv /\ [Next]_vars => IInv'
<1> SUFFICES ASSUME IInv, [Next]_vars PROVE IInv'
  OBVIOUS
<1>1. CASE UNCHANGED vars
  BY <1>1 DEF vars, IInv, NoneApart, Shapes, IsMetadata, IsRequest, PlanningLocked, PlanKept
<1>2. ASSUME NEW s \in Stages, RowMoves(s) PROVE IInv'
  BY <1>2, RowMovesKeeps
<1>3. ASSUME NEW w \in Workers, Resuming(w) PROVE IInv'
  BY <1>3, BeginResumeKeeps, MakePlanKeeps, SnapshotKeeps DEF Resuming
<1>4. ASSUME NEW w \in Workers, \/ SaveSource(w)
                                \/ \E op \in {"edit", "clear"} : BeginEdit(w, op)
                                \/ EditText(w) \/ MarkChanged(w) \/ ClearChanged(w)
                                \/ UseSample(w) \/ Abandon(w)
      PROVE IInv'
  BY <1>4, SaveSourceKeeps, BeginEditKeeps, EditTextKeeps, FlagsKeep, UseSampleKeeps,
     AbandonKeeps
<1> QED BY <1>1, <1>2, <1>3, <1>4 DEF Next

\* (Without the fairness of Spec, for specifications that compose this one.)
LEMMA StepsKeepPlans == ASSUME NoneApart PROVE Init /\ [][Next]_vars => []PlanKept
<1>1. Init => IInv
  BY InitIInv
<1>2. IInv => PlanKept
  BY DEF IInv
<1> QED BY <1>1, <1>2, NextIInv, PTL

\* Unless a handler without the lock has saved over it, the stored plan is the latest,
\* with its number and the one before it (workflow_orchestrator.py:118-136).
THEOREM PlanAlwaysKept == ASSUME NoneApart PROVE Spec => []PlanKept
BY StepsKeepPlans, PTL DEF Spec

-----------------------------------------------------------------------------
(* What a plan says of its next step, for every order of the stages that is  *)
(* in keeping with what they require, and whatever their rows are.           *)

\* Of some stages one comes first.
LEMMA FirstOfStages ==
  ASSUME WellOrdered, NEW T \in SUBSET Stages, T # {}
  PROVE  \E s \in T : \A t \in T : ~Before(t, s)
<1>. DEFINE I == {i \in 1..Len(Order) : Order[i] \in T}
            less == OpToRel(<, Nat)
<1>1. I \subseteq Nat /\ I # {}
  BY DEF WellOrdered, Stages
<1>2. PICK i \in I : \A j \in I : ~(<<j, i>> \in less)
  BY <1>1, WFMin, NatLessThanWellFounded
<1>3. \A j \in I : ~(j < i)
  BY <1>1, <1>2 DEF OpToRel
<1>4. ASSUME NEW t \in T, Before(t, Order[i]) PROVE FALSE
  <2>1. PICK j \in DOMAIN Order, k \in DOMAIN Order :
          j < k /\ Order[j] = t /\ Order[k] = Order[i]
    BY <1>4 DEF Before, Precedence
  <2>2. j \in I /\ i < k
    BY <1>3, <2>1 DEF WellOrdered
  <2>3. Before(Order[i], Order[i])
    BY <2>1, <2>2 DEF Before, Precedence, WellOrdered, Stages
  <2>4. QED
    BY <2>3 DEF WellOrdered, Before, Precedence
<1>5. QED
  BY <1>4

\* The closure of a selection holds what its stages require.
LEMMA ClosureCloses ==
  ASSUME WellOrdered, NEW R \in SUBSET Stages, NEW s \in ClosureOf[R]
  PROVE  s \in Stages /\ Requires[s] \subseteq ClosureOf[R]
<1>1. Requires[s] \subseteq Stages
  BY DEF WellOrdered, ClosureOf
<1>2. QED
  BY <1>1 DEF ClosureOf, Closed

\* A stage is passed over as accepted exactly when its output can be reused.
LEMMA ReuseIsReusable ==
  ASSUME NEW R, NEW s
  PROVE  StageAction(rows, R, s) = "reuse_accepted" <=> Reusable(rows, s)
BY DEF StageAction

\* The first stage that is not reused lacks nothing.
LEMMA NextLacksNothing ==
  ASSUME WellOrdered, NEW R \in SUBSET Stages, NEW s \in Stages, IsNext(rows, R, s)
  PROVE  StageAction(rows, R, s) # "wait_for_dependencies"
<1>1. \A r \in Requires[s] : r \in ReusableBefore(rows, R, s)
  <2>. TAKE r \in Requires[s]
  <2>1. r \in ClosureOf[R] /\ Before(r, s)
    BY ClosureCloses DEF IsNext, WellOrdered
  <2>2. Reusable(rows, r)
    BY <2>1, ReuseIsReusable DEF IsNext
  <2>3. QED
    BY <2>1, <2>2 DEF ReusableBefore
<1>2. QED
  BY <1>1, ReuseIsReusable DEF StageAction, Lacking, IsNext

\* The first stage with something to do has everything it requires.
LEMMA NextIsPossible == ASSUME WellOrdered PROVE NeverBlocked
<1>. SUFFICES ASSUME NEW R \in SUBSET Stages PROVE PlanState(rows, R) # "blocked"
  BY DEF NeverBlocked
<1>1. "wait_for_dependencies" \notin
        {StageAction(rows, R, s) : s \in {t \in Stages : IsNext(rows, R, t)}}
  BY NextLacksNothing
<1>2. QED
  BY <1>1 DEF PlanState

\* Where nothing comes next, everything can be reused.
LEMMA CompletionShows == ASSUME WellOrdered PROVE CompleteIsShown
<1>. SUFFICES ASSUME NEW R \in SUBSET Stages, PlanState(rows, R) = "complete",
                     NEW s \in ClosureOf[R] \ Future
              PROVE  Chip(rows, ClosureOf[R], s) = "accepted"
  BY DEF CompleteIsShown
<1>1. \A t \in Stages : ~IsNext(rows, R, t)
  <2>. DEFINE next == {StageAction(rows, R, t) : t \in {u \in Stages : IsNext(rows, R, u)}}
  <2>1. next = {}
    BY DEF PlanState
  <2>2. QED
    BY <2>1
<1>. DEFINE Left == {t \in ClosureOf[R] : StageAction(rows, R, t) # "reuse_accepted"}
<1>2. Left = {}
  <2>1. SUFFICES ASSUME Left # {} PROVE FALSE
    OBVIOUS
  <2>2. Left \in SUBSET Stages
    BY DEF ClosureOf
  <2>3. PICK t \in Left : \A u \in Left : ~Before(u, t)
    BY <2>1, <2>2, FirstOfStages
  <2>4. QED
    BY <1>1, <2>2, <2>3 DEF IsNext
<1>3. Reusable(rows, s)
  BY <1>2, ReuseIsReusable
<1>4. QED
  BY <1>3 DEF Reusable, Chip

\* The state "blocked" is never the answer, whatever the stage rows become
\* (workflow_orchestrator.py:80-106).
THEOREM PlanNeverBlocked == ASSUME WellOrdered PROVE Spec => []NeverBlocked
BY NextIsPossible, PTL

\* A plan that says it is complete is one whose every stage the page shows as accepted
\* (stage_config.py:239-325).
THEOREM CompleteAlwaysShown == ASSUME WellOrdered PROVE Spec => []CompleteIsShown
BY CompletionShows, PTL
=============================================================================
