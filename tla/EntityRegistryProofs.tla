------------------------ MODULE EntityRegistryProofs ------------------------
(***************************************************************************)
(* Proofs about EntityRegistry, for every set of requests, handlers and    *)
(* proposals, every number of rows and every number of source edits.       *)
(* Inductive is the inductive invariant; the safety properties follow.     *)
(***************************************************************************)
EXTENDS EntityRegistry, FiniteSetTheorems, TLAPS

-----------------------------------------------------------------------------
(* Data *)

LEMMA ReviewsIntro ==
  ASSUME NEW D \in SUBSET (1..MaxRows), NEW f \in [D -> Decisions]
  PROVE  f \in Reviews
BY DEF Reviews

LEMMA ReviewsElim ==
  ASSUME NEW f \in Reviews
  PROVE  /\ DOMAIN f \in SUBSET (1..MaxRows)
         /\ f \in [DOMAIN f -> Decisions]
BY DEF Reviews

LEMMA EmptyPayloadType == EmptyPayload \in Payload
<1>1. NoReview \in [{} -> Decisions]
  BY DEF NoReview
<1>. NoReview \in Reviews
  BY <1>1, ReviewsIntro
<1>2. QED
  BY <1>1 DEF EmptyPayload, Payload, AttemptId, ReviewState

LEMMA ResetRowType == ResetRow \in Row
BY EmptyPayloadType DEF ResetRow, Row, Status, RawId, AttemptId

LEMMA IdleType == Idle \in Handler
BY EmptyPayloadType, BoundsAssumption DEF Idle, Handler, Op, Status, AttemptId

\* As many decisions as rows, all about rows: every row is decided.
LEMMA AllDecided ==
  ASSUME NEW n \in Nat, NEW D \in SUBSET (1..n), Cardinality(D) = n
  PROVE  D = 1..n
<1>1. /\ IsFiniteSet(1..n)
      /\ Cardinality(1..n) = n
  BY FS_Interval
<1>2. QED
  BY <1>1, FS_Subset

\* The columns of a payload are set one at a time.
LEMMA PayloadColumns ==
  ASSUME NEW p \in Payload, NEW f \in Reviews, NEW state \in ReviewState,
         NEW reviewed \in Reviewed
  PROVE  /\ [p EXCEPT !.decisions = f] \in Payload
         /\ [p EXCEPT !.review = state] \in Payload
         /\ Approved(p, reviewed) \in Payload
BY DEF Payload, Approved, ReviewState

LEMMA CandidateType ==
  ASSUME NEW q \in Requests
  PROVE  /\ Candidate(q) \in Row
         /\ Candidate(q).payload \in Payload
BY EmptyPayloadType DEF Candidate, Row, Payload, Status, RawId, AttemptId, ReviewState

LEMMA ResultColumns ==
  ASSUME NEW result \in Result
  PROVE  result.execution \in Execution /\ result.rows \in 0..MaxRows
BY BoundsAssumption DEF Result, Execution

LEMMA RowsOfType ==
  ASSUME TypeOK, NEW p \in Payload, CandidateUsable(p)
  PROVE  RowsOf(p) \in 0..MaxRows
BY BoundsAssumption DEF TypeOK, Payload, AttemptId, CandidateUsable, RowsOf, Attempt, Usable

LEMMA EmptyFits == Fits(EmptyPayload)
BY DEF Fits, CandidateUsable, DecisionsFit, ReviewFits, EmptyPayload, NoReview

-----------------------------------------------------------------------------
(* What a handler keeps *)

\* The part of the invariant that is about the handlers.
HandlersFit == /\ req \in [Workers -> Handler]
               /\ OwnedPending
               /\ \A w \in Workers : Fits(req[w].payload)

\* A handler takes up or drops work that owns no attempt.
LEMMA HandlerMoves ==
  ASSUME HandlersFit, NEW w \in Workers, NEW h \in Handler,
         h.op \notin {"generate", "persist"}, Fits(h.payload),
         req' = [req EXCEPT ![w] = h], UNCHANGED <<attempts, calls>>
  PROVE  HandlersFit'
<1>1. \A v \in Workers : req'[v] = IF v = w THEN h ELSE req[v]
  BY DEF HandlersFit
<1>2. req' \in [Workers -> Handler]
  BY DEF HandlersFit
<1>3. OwnedPending'
  BY <1>1 DEF HandlersFit, OwnedPending, Owns
<1>4. \A v \in Workers : Fits(req[v].payload)'
  BY <1>1 DEF HandlersFit, Fits, CandidateUsable, DecisionsFit, ReviewFits, RowsOf
<1>5. QED
  BY <1>2, <1>3, <1>4 DEF HandlersFit

LEMMA HandlerDone ==
  ASSUME HandlersFit, NEW w \in Workers, Finish(w), UNCHANGED <<attempts, calls>>
  PROVE  HandlersFit'
<1>1. Idle.op \notin {"generate", "persist"} /\ Idle.payload = EmptyPayload
  BY DEF Idle
<1>2. QED
  BY <1>1, HandlerMoves, IdleType, EmptyFits DEF Finish

LEMMA HandlersRest ==
  ASSUME HandlersFit, UNCHANGED <<req, attempts, calls>>
  PROVE  HandlersFit'
BY DEF HandlersFit, OwnedPending, Owns, Fits, CandidateUsable, DecisionsFit, ReviewFits,
       RowsOf

-----------------------------------------------------------------------------
(* The invariant in three parts *)

RowFits == row \in Row /\ Fits(row.payload)

DataFits == /\ source \in 0..MaxSource
            /\ attempts \in [Requests -> Attempt \cup {None}]
            /\ calls \in [Requests -> Nat]
            /\ proposals \in [Proposals -> ProposalStatus]
            /\ file \in File \cup {None}
            /\ CallsReserved

LEMMA Parts ==
  /\ Inductive <=> RowFits /\ DataFits /\ HandlersFit
  /\ Inductive' <=> RowFits' /\ DataFits' /\ HandlersFit'
BY DEF Inductive, TypeOK, PayloadsFit, RowFits, DataFits, HandlersFit

LEMMA RowRests ==
  ASSUME RowFits, UNCHANGED <<row, attempts>>
  PROVE  RowFits'
BY DEF RowFits, Fits, CandidateUsable, DecisionsFit, ReviewFits, RowsOf

\* The row gets a new value that fits the attempts as they are.
LEMMA RowSet ==
  ASSUME NEW r \in Row, Fits(r.payload), row' = r, UNCHANGED attempts
  PROVE  RowFits'
BY DEF RowFits, Fits, CandidateUsable, DecisionsFit, ReviewFits, RowsOf

LEMMA DataRest ==
  ASSUME DataFits, UNCHANGED <<source, attempts, calls>>,
         proposals' \in [Proposals -> ProposalStatus], file' \in File \cup {None}
  PROVE  DataFits'
BY DEF DataFits, CallsReserved

LEMMA ApprovePendingType ==
  ASSUME DataFits, ApprovePending
  PROVE  proposals' \in [Proposals -> ProposalStatus]
BY DEF DataFits, ApprovePending, ProposalStatus

LEMMA InitInductive == Init => Inductive
<1> SUFFICES ASSUME Init PROVE Inductive
  OBVIOUS
<1>1. RowFits
  BY ResetRowType, EmptyFits DEF Init, RowFits, ResetRow
<1>2. DataFits
  BY BoundsAssumption DEF Init, DataFits, CallsReserved, ProposalStatus
<1>3. HandlersFit
  BY IdleType, EmptyFits DEF Init, HandlersFit, OwnedPending, Owns, Idle
<1>4. QED
  BY <1>1, <1>2, <1>3, Parts

-----------------------------------------------------------------------------
(* Generation *)

\* What was recorded usable stays recorded with the same rows.
Kept == \A q \in Requests :
          attempts[q] # None /\ Usable(attempts[q].execution)
            => /\ attempts'[q] # None
               /\ Usable(attempts'[q].execution)
               /\ attempts'[q].rows = attempts[q].rows

LEMMA KeptFits ==
  ASSUME Kept, NEW p \in Payload, Fits(p)
  PROVE  Fits(p)'
BY DEF Kept, Fits, CandidateUsable, DecisionsFit, ReviewFits, RowsOf, Payload, AttemptId

LEMMA BeginInductive ==
  ASSUME Inductive, NEW w \in Workers, NEW h \in Handler,
         h.op \notin {"generate", "persist"}, Fits(h.payload), Begin(w, h)
  PROVE  Inductive'
<1>1. HandlersFit'
  BY Parts, HandlerMoves DEF Begin
<1>2. QED
  BY <1>1, Parts, RowRests, DataRest DEF Begin, DataFits

LEMMA BeginRunInductive ==
  ASSUME Inductive, NEW w \in Workers, BeginRun(w)
  PROVE  Inductive'
<1>. DEFINE h == [Idle EXCEPT !.op = "run", !.source = source]
<1>1. h \in Handler /\ h.op = "run" /\ h.payload = EmptyPayload
  BY IdleType DEF Inductive, TypeOK, Handler, Op, Idle
<1>2. QED
  BY <1>1, BeginInductive, EmptyFits DEF BeginRun

LEMMA ReserveInductive ==
  ASSUME Inductive, NEW w \in Workers, NEW q \in Requests, Reserve(w, q)
  PROVE  Inductive'
<1>. DEFINE a == [execution |-> "pending", rows |-> 0, source |-> req[w].source,
                  disposition |-> "recorded_only"]
            h == [Idle EXCEPT !.op = "generate", !.request = q]
<1>1. a \in Attempt /\ a # None
  BY BoundsAssumption, NoneAssumption
     DEF Inductive, TypeOK, Handler, Attempt, Execution, Disposition
<1>2. /\ h \in Handler /\ h.op = "generate" /\ h.request = q
      /\ h.payload = EmptyPayload
  BY IdleType DEF Handler, Op, AttemptId, Idle
<1>3. attempts' = [attempts EXCEPT ![q] = a] /\ req' = [req EXCEPT ![w] = h]
  BY DEF Reserve
<1>4. /\ attempts' \in [Requests -> Attempt \cup {None}]
      /\ \A r \in Requests : attempts'[r] = IF r = q THEN a ELSE attempts[r]
  BY <1>1, <1>3 DEF Inductive, TypeOK
<1>5. /\ req' \in [Workers -> Handler]
      /\ \A v \in Workers : req'[v] = IF v = w THEN h ELSE req[v]
  BY <1>2, <1>3 DEF Inductive, TypeOK
<1>6. Kept
  BY <1>4 DEF Reserve, Kept
<1>7. RowFits'
  <2>1. row.payload \in Payload /\ Fits(row.payload)
    BY DEF Inductive, TypeOK, PayloadsFit, Row
  <2>2. Fits(row.payload)'
    BY <2>1, <1>6, KeptFits DEF Reserve
  <2>3. QED
    BY <2>2 DEF RowFits, Reserve, Inductive, TypeOK
<1>8. DataFits'
  BY <1>4, Parts DEF DataFits, CallsReserved, Reserve
<1>9. HandlersFit'
  <2>1. OwnedPending'
    BY <1>1, <1>2, <1>4, <1>5 DEF Reserve, Inductive, OwnedPending, Owns, CallsReserved
  <2>2. ASSUME NEW v \in Workers PROVE Fits(req[v].payload)'
    <3>1. req'[v].payload \in Payload /\ Fits(req'[v].payload)
      BY <1>2, <1>5, EmptyFits, EmptyPayloadType
         DEF Inductive, PayloadsFit, TypeOK, Handler
    <3>2. QED
      BY <3>1, <1>6, KeptFits
  <2>3. QED
    BY <2>1, <2>2, <1>5 DEF HandlersFit
<1>10. QED
  BY <1>7, <1>8, <1>9, Parts

\* The owner of a pending attempt learns its outcome, and stays the owner.
LEMMA OutcomeKnown ==
  ASSUME Inductive, NEW w \in Workers, req[w].op = "generate", NEW result \in Result,
         req' = [req EXCEPT ![w].op = "persist", ![w].result = result],
         UNCHANGED attempts,
         \A q \in Requests : q # req[w].request => calls'[q] = calls[q]
  PROVE  HandlersFit'
<1>. DEFINE h == [req[w] EXCEPT !.op = "persist", !.result = result]
<1>1. /\ h \in Handler /\ h.op = "persist" /\ h.request = req[w].request
      /\ h.payload = req[w].payload /\ h.result = result
  BY DEF Inductive, TypeOK, Handler, Op
<1>2. /\ req' \in [Workers -> Handler]
      /\ \A v \in Workers : req'[v] = IF v = w THEN h ELSE req[v]
  BY <1>1 DEF Inductive, TypeOK
<1>3. OwnedPending'
  <2>1. result # None
    BY NoneAssumption
  <2>2. ASSUME NEW v \in Workers, Owns(v)'
        PROVE  /\ Owns(v)
               /\ req'[v].request = req[v].request
               /\ req'[v].op = "generate" => v # w /\ req[v].op = "generate"
               /\ req'[v].op = "persist" => req'[v].result # None
    BY <1>1, <1>2, <2>1, <2>2 DEF Owns, Inductive, OwnedPending
  <2>3. ASSUME NEW v \in Workers, Owns(v)', req'[v].op = "generate"
        PROVE  calls'[req'[v].request] = 0
    <3>1. v # w /\ req[v].op = "generate" /\ Owns(v) /\ Owns(w)
      BY <2>2, <2>3 DEF Owns
    <3>2. req[v].request # req[w].request /\ calls[req[v].request] = 0
      BY <3>1 DEF Inductive, OwnedPending
    <3>3. QED
      BY <3>2, <2>2, <2>3 DEF Owns, Inductive, OwnedPending
  <2>4. \A v \in Workers : Owns(v)' =>
          /\ req'[v].request \in Requests
          /\ attempts'[req'[v].request] # None
          /\ attempts'[req'[v].request].execution = "pending"
          /\ req'[v].op = "generate" => calls'[req'[v].request] = 0
          /\ req'[v].op = "persist" => req'[v].result # None
    BY <2>2, <2>3 DEF Inductive, OwnedPending
  <2>5. ASSUME NEW u \in Workers, NEW v \in Workers, Owns(u)', Owns(v)', u # v
        PROVE  req'[u].request # req'[v].request
    <3>1. /\ Owns(u) /\ Owns(v)
          /\ req'[u].request = req[u].request
          /\ req'[v].request = req[v].request
      BY <2>2, <2>5
    <3>2. req[u].request # req[v].request
      BY <3>1, <2>5 DEF Inductive, OwnedPending
    <3>3. QED
      BY <3>1, <3>2
  <2>6. QED
    BY <2>4, <2>5 DEF OwnedPending
<1>4. ASSUME NEW v \in Workers PROVE Fits(req[v].payload)'
  BY <1>1, <1>2 DEF Inductive, PayloadsFit, Fits, CandidateUsable, DecisionsFit,
                    ReviewFits, RowsOf
<1>5. QED
  BY <1>2, <1>3, <1>4 DEF HandlersFit

LEMMA GateFailsInductive ==
  ASSUME Inductive, NEW w \in Workers, GateFails(w)
  PROVE  Inductive'
<1>. DEFINE result == [execution |-> "unusable", rows |-> 0]
<1>1. result \in Result
  BY DEF Result
<1>2. HandlersFit'
  BY <1>1, OutcomeKnown DEF GateFails
<1>3. QED
  BY <1>2, Parts, RowRests, DataRest DEF GateFails, DataFits

LEMMA GenerateInductive ==
  ASSUME Inductive, NEW w \in Workers, NEW result \in Result, Generate(w, result)
  PROVE  Inductive'
<1>. DEFINE q == req[w].request
<1>1. q \in Requests /\ attempts[q] # None /\ calls[q] = 0
  BY DEF Inductive, OwnedPending, Owns, Generate
<1>2. /\ calls' \in [Requests -> Nat]
      /\ \A r \in Requests : calls'[r] = IF r = q THEN 1 ELSE calls[r]
  BY <1>1 DEF Generate, Inductive, TypeOK
<1>3. HandlersFit'
  BY <1>2, OutcomeKnown DEF Generate
<1>4. DataFits'
  BY <1>1, <1>2, Parts DEF DataFits, CallsReserved, Generate
<1>5. QED
  BY <1>3, <1>4, Parts, RowRests DEF Generate

\* What persist_entity_registry_attempt leaves, given that it records no other
\* outcome over a usable one.
LEMMA PersistAttemptFits ==
  ASSUME Inductive, NEW q \in Requests, NEW a \in Attempt, PersistAttempt(q, a),
         attempts[q] # None /\ Usable(attempts[q].execution)
           => Usable(a.execution) /\ a.rows = attempts[q].rows
  PROVE  /\ attempts' \in [Requests -> Attempt \cup {None}]
         /\ attempts'[q] # None
         /\ attempts'[q].execution = a.execution
         /\ attempts'[q].rows = a.rows
         /\ \A r \in Requests : r # q => attempts'[r] = attempts[r]
         /\ Kept
         /\ RowFits'
<1>. DEFINE disposition == IF row.status = "accepted" THEN "accepted_protected"
                           ELSE IF Usable(a.execution) THEN "applied_to_checking"
                           ELSE "invalid_not_applied"
            b == [a EXCEPT !.disposition = disposition]
<1>1. /\ b \in Attempt /\ b # None
      /\ b.execution = a.execution /\ b.rows = a.rows
  BY NoneAssumption DEF Attempt, Disposition
<1>2. /\ attempts' = [attempts EXCEPT ![q] = b]
      /\ row' = IF disposition = "applied_to_checking" THEN Candidate(q) ELSE row
  BY DEF PersistAttempt
<1>3. /\ attempts' \in [Requests -> Attempt \cup {None}]
      /\ attempts'[q] = b
      /\ \A r \in Requests : r # q => attempts'[r] = attempts[r]
  BY <1>1, <1>2 DEF Inductive, TypeOK
<1>4. Kept
  <2>1. ASSUME NEW r \in Requests, attempts[r] # None, Usable(attempts[r].execution)
        PROVE  /\ attempts'[r] # None
               /\ Usable(attempts'[r].execution)
               /\ attempts'[r].rows = attempts[r].rows
    <3>1. CASE r = q
      <4>1. Usable(a.execution) /\ a.rows = attempts[q].rows
        BY <2>1, <3>1
      <4>2. attempts'[r] # None /\ attempts'[r].execution = a.execution
            /\ attempts'[r].rows = a.rows
        BY <3>1, <1>1, <1>3
      <4>3. QED
        BY <3>1, <4>1, <4>2 DEF Usable
    <3>2. CASE r # q
      BY <2>1, <3>2, <1>3
    <3>3. QED
      BY <3>1, <3>2
  <2>2. QED
    BY <2>1 DEF Kept
<1>5. RowFits'
  <2>1. CASE disposition = "applied_to_checking"
    <3>1. row' = Candidate(q) /\ Usable(a.execution)
      BY <2>1, <1>2
    <3>2. /\ row'.payload.attempt = q
          /\ row'.payload.reviewed = None
          /\ row'.payload.decisions = NoReview
      BY <3>1 DEF Candidate, EmptyPayload
    <3>3. Fits(row.payload)'
      BY <3>1, <3>2, <1>1, <1>3
         DEF Fits, CandidateUsable, DecisionsFit, ReviewFits, NoReview
    <3>4. QED
      BY <3>1, <3>3, CandidateType DEF RowFits
  <2>2. CASE disposition # "applied_to_checking"
    <3>1. row' = row
      BY <2>2, <1>2
    <3>2. row.payload \in Payload /\ Fits(row.payload)
      BY DEF Inductive, TypeOK, PayloadsFit, Row
    <3>3. Fits(row.payload)'
      BY <3>1, <3>2, <1>4, KeptFits
    <3>4. QED
      BY <3>1, <3>3 DEF RowFits, Inductive, TypeOK
  <2>3. QED
    BY <2>1, <2>2
<1>6. QED
  BY <1>1, <1>3, <1>4, <1>5

\* A record is written: the handlers under way keep their pending attempts.
LEMMA HandlersKeep ==
  ASSUME Inductive, Kept, UNCHANGED calls,
         NEW h \in [Workers -> Handler], req' = h,
         \A v \in Workers : h[v] \in {req[v], Idle},
         \A v \in Workers : Owns(v) /\ h[v] = req[v] =>
            /\ attempts'[req[v].request] # None
            /\ attempts'[req[v].request].execution = "pending"
  PROVE  HandlersFit'
<1>1. ASSUME NEW v \in Workers, Owns(v)'
      PROVE  Owns(v) /\ h[v] = req[v]
  BY <1>1 DEF Owns, Idle
<1>2. \A v \in Workers : Owns(v)' =>
        /\ req'[v].request \in Requests
        /\ attempts'[req'[v].request] # None
        /\ attempts'[req'[v].request].execution = "pending"
        /\ req'[v].op = "generate" => calls'[req'[v].request] = 0
        /\ req'[v].op = "persist" => req'[v].result # None
  BY <1>1 DEF Inductive, OwnedPending
<1>3. ASSUME NEW u \in Workers, NEW v \in Workers, Owns(u)', Owns(v)', u # v
      PROVE  req'[u].request # req'[v].request
  <2>1. Owns(u) /\ Owns(v) /\ h[u] = req[u] /\ h[v] = req[v]
    BY <1>1, <1>3
  <2>2. QED
    BY <2>1, <1>3 DEF Inductive, OwnedPending
<1>4. OwnedPending'
  BY <1>2, <1>3 DEF OwnedPending
<1>5. ASSUME NEW v \in Workers PROVE Fits(req[v].payload)'
  <2>1. req'[v].payload \in Payload /\ Fits(req'[v].payload)
    <3>1. CASE req'[v] = req[v]
      BY <3>1 DEF Inductive, PayloadsFit, TypeOK, Handler
    <3>2. CASE req'[v] = Idle
      BY <3>2, EmptyFits, EmptyPayloadType DEF Idle
    <3>3. QED
      BY <3>1, <3>2
  <2>2. QED
    BY <2>1, KeptFits
<1>6. QED
  BY <1>4, <1>5 DEF HandlersFit

LEMMA PersistInductive ==
  ASSUME Inductive, NEW w \in Workers, Persist(w)
  PROVE  Inductive'
<1>. DEFINE q == req[w].request
            a == [attempts[q] EXCEPT !.execution = req[w].result.execution,
                                     !.rows = req[w].result.rows]
<1>1. /\ Owns(w) /\ q \in Requests /\ attempts[q] \in Attempt
      /\ attempts[q].execution = "pending" /\ req[w].result \in Result
  BY DEF Inductive, OwnedPending, Owns, Persist, TypeOK, Handler
<1>2. a \in Attempt
  <2>1. /\ req[w].result.execution \in Execution
        /\ req[w].result.rows \in 0..MaxRows
    BY <1>1, ResultColumns
  <2>2. \A b \in Attempt, e \in Execution, n \in 0..MaxRows :
          [b EXCEPT !.execution = e, !.rows = n] \in Attempt
    BY DEF Attempt
  <2>3. QED
    BY <1>1, <2>1, <2>2
<1>3. PersistAttempt(q, a) /\ Finish(w) /\ UNCHANGED <<source, calls, proposals, file>>
  BY DEF Persist
<1>4. ~ Usable(attempts[q].execution)
  BY <1>1 DEF Usable
<1>5. /\ attempts' \in [Requests -> Attempt \cup {None}]
      /\ attempts'[q] # None
      /\ \A r \in Requests : r # q => attempts'[r] = attempts[r]
      /\ Kept
      /\ RowFits'
  <2>. HIDE DEF q, a
  <2>. QED
    BY <1>1, <1>2, <1>3, <1>4, PersistAttemptFits
<1>6. DataFits'
  BY <1>3, <1>5, Parts DEF DataFits, CallsReserved
<1>7. HandlersFit'
  <2>. DEFINE h == [req EXCEPT ![w] = Idle]
  <2>1. /\ h \in [Workers -> Handler] /\ req' = h
        /\ \A v \in Workers : h[v] = IF v = w THEN Idle ELSE req[v]
    BY <1>3, IdleType DEF Finish, Inductive, TypeOK
  <2>2. ASSUME NEW v \in Workers, Owns(v), h[v] = req[v]
        PROVE  /\ attempts'[req[v].request] # None
               /\ attempts'[req[v].request].execution = "pending"
    <3>1. v # w
      BY <2>1, <2>2, <1>1 DEF Owns, Idle
    <3>2. /\ req[v].request \in Requests /\ req[v].request # q
          /\ attempts[req[v].request] # None
          /\ attempts[req[v].request].execution = "pending"
      BY <3>1, <2>2, <1>1 DEF Inductive, OwnedPending
    <3>3. QED
      BY <3>2, <1>5
  <2>. HIDE DEF h
  <2>3. QED
    BY <2>1, <2>2, <1>3, <1>5, HandlersKeep
<1>8. QED
  BY <1>5, <1>6, <1>7, Parts

LEMMA PromoteInductive ==
  ASSUME Inductive, NEW q \in Requests, Promote(q)
  PROVE  Inductive'
<1>1. attempts[q] \in Attempt /\ PersistAttempt(q, attempts[q])
  BY DEF Inductive, TypeOK, Promote
<1>2. /\ attempts' \in [Requests -> Attempt \cup {None}]
      /\ attempts'[q] # None
      /\ attempts'[q].execution = attempts[q].execution
      /\ \A r \in Requests : r # q => attempts'[r] = attempts[r]
      /\ Kept
      /\ RowFits'
  BY <1>1, PersistAttemptFits
<1>3. DataFits'
  BY <1>2, Parts DEF DataFits, CallsReserved, Promote
<1>4. HandlersFit'
  <2>1. req \in [Workers -> Handler] /\ req' = req /\ UNCHANGED calls
    BY DEF Promote, Inductive, TypeOK
  <2>2. ASSUME NEW v \in Workers, Owns(v)
        PROVE  /\ attempts'[req[v].request] # None
               /\ attempts'[req[v].request].execution = "pending"
    BY <1>2, <2>2 DEF Inductive, OwnedPending
  <2>3. QED
    BY <2>1, <2>2, <1>2, HandlersKeep
<1>5. QED
  BY <1>2, <1>3, <1>4, Parts

LEMMA RunLocalInductive ==
  ASSUME Inductive, NEW w \in Workers, NEW q \in Requests, NEW result \in Result,
         RunLocal(w, q, result)
  PROVE  Inductive'
<1>. DEFINE a == [execution |-> result.execution, rows |-> result.rows,
                  source |-> req[w].source, disposition |-> "recorded_only"]
<1>1. a \in Attempt
  BY ResultColumns DEF Inductive, TypeOK, Handler, Attempt, Disposition
<1>2. /\ PersistAttempt(q, a) /\ Finish(w) /\ attempts[q] = None
      /\ UNCHANGED <<source, calls, proposals, file>>
  BY DEF RunLocal
<1>3. /\ attempts' \in [Requests -> Attempt \cup {None}]
      /\ attempts'[q] # None
      /\ \A r \in Requests : r # q => attempts'[r] = attempts[r]
      /\ Kept
      /\ RowFits'
  <2>. HIDE DEF a
  <2>. QED
    BY <1>1, <1>2, PersistAttemptFits
<1>4. DataFits'
  BY <1>2, <1>3, Parts DEF DataFits, CallsReserved
<1>5. HandlersFit'
  <2>. DEFINE h == [req EXCEPT ![w] = Idle]
  <2>1. /\ h \in [Workers -> Handler] /\ req' = h
        /\ \A v \in Workers : h[v] = IF v = w THEN Idle ELSE req[v]
    BY <1>2, IdleType DEF Finish, Inductive, TypeOK
  <2>2. ASSUME NEW v \in Workers, Owns(v)
        PROVE  /\ attempts'[req[v].request] # None
               /\ attempts'[req[v].request].execution = "pending"
    BY <2>2, <1>2, <1>3 DEF Inductive, OwnedPending
  <2>. HIDE DEF h
  <2>3. QED
    BY <2>1, <2>2, <1>2, <1>3, HandlersKeep
<1>6. QED
  BY <1>3, <1>4, <1>5, Parts

-----------------------------------------------------------------------------
(* Review *)

\* The row is set under the lock to a value that fits; the handler goes on.
LEMMA RowStep ==
  ASSUME Inductive, NEW r \in Row, Fits(r.payload), row' = r, HandlersFit',
         UNCHANGED <<attempts, calls, source>>,
         proposals' \in [Proposals -> ProposalStatus], file' \in File \cup {None}
  PROVE  Inductive'
BY Parts, RowSet, DataRest

LEMMA SaveDecisionInductive ==
  ASSUME Inductive, NEW i \in 0..MaxRows + 1, NEW d \in Decisions, SaveDecision(i, d)
  PROVE  Inductive'
<1>. DEFINE p == row.payload
            f == [j \in DOMAIN p.decisions \cup {i} |->
                    IF j = i THEN d ELSE p.decisions[j]]
            r == [row EXCEPT !.payload.decisions = f]
<1>1. /\ row \in Row /\ p \in Payload /\ Fits(p) /\ p.decisions \in Reviews
  BY DEF Inductive, TypeOK, PayloadsFit, Row, Payload
<1>2. RowsOf(p) \in 0..MaxRows
  BY <1>1, RowsOfType DEF Inductive, Fits
<1>3. f \in Reviews
  <2>1. DOMAIN p.decisions \cup {i} \in SUBSET (1..MaxRows)
    BY <1>1, <1>2, ReviewsElim, BoundsAssumption DEF SaveDecision
  <2>2. f \in [DOMAIN p.decisions \cup {i} -> Decisions]
    BY <1>1, ReviewsElim
  <2>3. QED
    BY <2>1, <2>2, ReviewsIntro
<1>4. /\ r \in Row /\ r.payload = [p EXCEPT !.decisions = f]
  <2>1. [p EXCEPT !.decisions = f] \in Payload
    BY <1>1, <1>3 DEF Payload
  <2>. HIDE DEF f
  <2>2. QED
    BY <1>1, <2>1 DEF Row
<1>5. Fits(r.payload)
  <2>1. r.payload.attempt = p.attempt /\ r.payload.reviewed = p.reviewed
        /\ r.payload.decisions = f
    BY <1>1, <1>4 DEF Payload
  <2>2. DOMAIN f = DOMAIN p.decisions \cup {i} /\ i \in 1..RowsOf(p)
    BY DEF SaveDecision
  <2>. HIDE DEF f
  <2>3. QED
    BY <1>1, <2>1, <2>2 DEF Fits, CandidateUsable, DecisionsFit, ReviewFits, RowsOf
<1>6. HandlersFit' /\ row' = r
  BY Parts, HandlersRest DEF SaveDecision
<1>. HIDE DEF r
<1>7. QED
  BY <1>4, <1>5, <1>6, RowStep DEF SaveDecision, Inductive, TypeOK

\* The row of the invariant, and the columns an action sets beside its payload.
LEMMA RowParts ==
  ASSUME Inductive
  PROVE  /\ row \in Row /\ row.payload \in Payload /\ Fits(row.payload)
         /\ row.payload.decisions \in Reviews
         /\ RowsOf(row.payload) \in 0..MaxRows
<1>1. /\ row \in Row /\ row.payload \in Payload /\ Fits(row.payload)
      /\ row.payload.decisions \in Reviews
  BY DEF Inductive, TypeOK, PayloadsFit, Row, Payload
<1>2. QED
  BY <1>1, RowsOfType DEF Inductive, Fits

LEMMA RowColumns ==
  ASSUME NEW r \in Row, NEW status \in Status, NEW approved \in BOOLEAN, NEW p \in Payload
  PROVE  /\ [r EXCEPT !.payload = p] \in Row
         /\ [r EXCEPT !.approved = approved] \in Row
         /\ [r EXCEPT !.status = status, !.approved = approved] \in Row
         /\ [r EXCEPT !.approved = approved, !.status = status] \in Row
BY DEF Row

LEMMA RowApproved ==
  ASSUME NEW r \in Row, NEW p \in Payload
  PROVE  LET accepted == [r EXCEPT !.status = "accepted", !.approved = TRUE, !.payload = p]
         IN accepted \in Row /\ accepted.payload = p
BY DEF Row, Status

\* A review of every row, made of the payload's attempt, fits the payload.
LEMMA ApprovedFits ==
  ASSUME NEW p \in Payload, Fits(p), NEW rows \in Reviews, DOMAIN rows = 1..RowsOf(p)
  PROVE  LET approved == Approved(p, [of |-> p.attempt, rows |-> rows])
         IN approved \in Payload /\ Fits(approved)
<1>. DEFINE reviewed == [of |-> p.attempt, rows |-> rows]
            approved == Approved(p, reviewed)
<1>1. reviewed \in Reviewed
  BY DEF Reviewed, Payload
<1>2. approved \in Payload
  BY <1>1, PayloadColumns DEF ReviewState
<1>3. /\ approved.attempt = p.attempt /\ approved.decisions = p.decisions
      /\ approved.reviewed.of = p.attempt /\ approved.reviewed.rows = rows
  BY DEF Approved, Payload
<1>4. Fits(approved)
  BY <1>3 DEF Fits, CandidateUsable, DecisionsFit, ReviewFits, RowsOf
<1>5. QED
  BY <1>2, <1>4

LEMMA FinalizeReviewInductive ==
  ASSUME Inductive, NEW w \in Workers, FinalizeReview(w)
  PROVE  Inductive'
<1>. DEFINE p == row.payload
            n == RowsOf(p)
            rows == [i \in 1..n |-> p.decisions[i]]
            approved == Approved(p, [of |-> p.attempt, rows |-> rows])
            r == [row EXCEPT !.status = "accepted", !.approved = TRUE, !.payload = approved]
<1>1. DOMAIN p.decisions = 1..n
  BY RowParts, AllDecided DEF FinalizeReview, Fits, DecisionsFit
<1>2. rows \in Reviews /\ DOMAIN rows = 1..n
  <2>1. 1..n \in SUBSET (1..MaxRows)
    BY RowParts, BoundsAssumption
  <2>2. rows \in [1..n -> Decisions]
    BY <1>1, RowParts, ReviewsElim
  <2>3. QED
    BY <2>1, <2>2, ReviewsIntro
<1>3. approved \in Payload /\ Fits(approved)
  <2>. HIDE DEF rows
  <2>. QED
    BY <1>2, RowParts, ApprovedFits
<1>4. r \in Row /\ r.payload = approved
  <2>. HIDE DEF approved
  <2>. QED
    BY <1>3, RowParts, RowApproved
<1>5. row' = r
  BY DEF FinalizeReview
<1>6. HandlersFit'
  BY Parts, HandlerDone DEF FinalizeReview
<1>. HIDE DEF r, approved
<1>7. QED
  BY <1>3, <1>4, <1>5, <1>6, RowStep DEF FinalizeReview, Inductive, TypeOK

LEMMA ImportReviewInductive ==
  ASSUME Inductive, NEW decisions \in Reviews, ImportReview(decisions)
  PROVE  Inductive'
<1>. DEFINE p == row.payload
            approved == Approved(p, [of |-> p.attempt, rows |-> decisions])
            r == [row EXCEPT !.status = "accepted", !.approved = TRUE, !.payload = approved]
<1>1. approved \in Payload /\ Fits(approved)
  BY RowParts, ApprovedFits DEF ImportReview
<1>2. r \in Row /\ r.payload = approved
  <2>. HIDE DEF approved
  <2>. QED
    BY <1>1, RowParts, RowApproved
<1>3. row' = r
  BY DEF ImportReview
<1>4. HandlersFit'
  BY Parts, HandlersRest DEF ImportReview
<1>. HIDE DEF r, approved
<1>5. QED
  BY <1>1, <1>2, <1>3, <1>4, RowStep DEF ImportReview, Inductive, TypeOK

LEMMA AcceptRemainingInductive ==
  ASSUME Inductive, NEW w \in Workers, AcceptRemaining(w)
  PROVE  Inductive'
<1>. DEFINE p == req[w].payload
            n == RowsOf(p)
            f == Completed(p).decisions
            r == [row EXCEPT !.payload = Completed(p)]
            h == [Idle EXCEPT !.op = "approve_proposals"]
<1>1. /\ p \in Payload /\ Fits(p) /\ p.decisions \in Reviews
      /\ n \in 0..MaxRows /\ row \in Row
  <2>1. p \in Payload /\ Fits(p) /\ p.decisions \in Reviews /\ row \in Row
    BY DEF Inductive, TypeOK, PayloadsFit, Handler, Payload
  <2>2. QED
    BY <2>1, RowsOfType DEF Inductive, Fits
<1>2. /\ f = [i \in DOMAIN p.decisions \cup 1..n |->
                IF i \in DOMAIN p.decisions THEN p.decisions[i] ELSE "accepted"]
      /\ Completed(p) = [p EXCEPT !.decisions = f]
  BY <1>1 DEF Completed, Payload
<1>3. f \in Reviews /\ DOMAIN f \subseteq 1..n
  <2>1. DOMAIN p.decisions \cup 1..n \in SUBSET (1..MaxRows)
    BY <1>1, ReviewsElim, BoundsAssumption
  <2>2. f \in [DOMAIN p.decisions \cup 1..n -> Decisions]
    <3>1. \A i \in DOMAIN p.decisions : p.decisions[i] \in Decisions
      BY <1>1, ReviewsElim
    <3>2. QED
      BY <1>2, <3>1, BoundsAssumption
  <2>3. f \in Reviews
    BY <2>1, <2>2, ReviewsIntro
  <2>4. QED
    BY <1>1, <1>2, <2>3 DEF Fits, DecisionsFit
<1>4. /\ Completed(p) \in Payload
      /\ Fits(Completed(p))
  <2>. HIDE DEF f
  <2>1. /\ Completed(p) \in Payload /\ Completed(p).decisions = f
        /\ Completed(p).attempt = p.attempt /\ Completed(p).reviewed = p.reviewed
    BY <1>1, <1>2, <1>3 DEF Payload
  <2>2. QED
    BY <1>1, <1>3, <2>1 DEF Fits, CandidateUsable, DecisionsFit, ReviewFits, RowsOf
<1>5. r \in Row /\ r.payload = Completed(p)
  BY <1>1, <1>4 DEF Row
<1>6. /\ h \in Handler /\ h.op = "approve_proposals" /\ h.payload = EmptyPayload
  BY IdleType DEF Handler, Op, Idle
<1>7. HandlersFit'
  BY <1>6, Parts, HandlerMoves, EmptyFits DEF AcceptRemaining
<1>8. row' = r
  BY DEF AcceptRemaining
<1>. HIDE DEF r
<1>9. QED
  BY <1>4, <1>5, <1>7, <1>8, RowStep DEF AcceptRemaining, Inductive, TypeOK

\* A handler ends, or nothing but the proposals and the file change.
LEMMA ProposalStep ==
  ASSUME Inductive, UNCHANGED <<source, row, attempts, calls>>, HandlersFit',
         proposals' \in [Proposals -> ProposalStatus], file' \in File \cup {None}
  PROVE  Inductive'
BY Parts, RowRests, DataRest

\* A handler writes the status and the provenance, not the payload.
LEMMA ColumnsStep ==
  ASSUME Inductive, UNCHANGED <<source, attempts, calls, file>>, HandlersFit',
         proposals' \in [Proposals -> ProposalStatus],
         row' \in Row, Fits(row'.payload)
  PROVE  Inductive'
BY RowStep DEF Inductive, TypeOK

\* Setting columns other than the payload's leaves a row that fits.
LEMMA OtherColumns ==
  ASSUME Inductive, NEW status \in Status, NEW approved \in BOOLEAN,
         \/ row' = [row EXCEPT !.status = status, !.approved = approved]
         \/ row' = [row EXCEPT !.approved = approved, !.status = status]
         \/ row' = [row EXCEPT !.approved = approved]
  PROVE  row' \in Row /\ Fits(row'.payload)
<1>1. row' \in Row /\ row'.payload = row.payload
  BY RowParts DEF Row
<1>2. QED
  BY <1>1, RowParts

LEMMA ProposeInductive ==
  ASSUME Inductive, NEW w \in Workers, NEW p \in Proposals, Propose(w, p)
  PROVE  Inductive'
<1>. DEFINE c == [row.payload EXCEPT !.review = "review_candidate"]
<1>1. /\ c \in Payload /\ c.attempt = row.payload.attempt
      /\ c.decisions = row.payload.decisions /\ c.reviewed = row.payload.reviewed
  BY RowParts DEF Payload, ReviewState
<1>2. Fits(c)
  BY <1>1, RowParts DEF Fits, CandidateUsable, DecisionsFit, ReviewFits, RowsOf
<1>3. row' \in Row /\ row'.payload = c
  BY <1>1, RowParts DEF Propose, Row, Status
<1>4. HandlersFit'
  <2>1. CASE UNCHANGED req
    BY <2>1, Parts, HandlersRest DEF Propose
  <2>2. CASE req' = [req EXCEPT ![w] = [Idle EXCEPT !.op = "approve_own", !.proposal = p]]
    <3>. DEFINE h == [Idle EXCEPT !.op = "approve_own", !.proposal = p]
    <3>1. /\ h \in Handler /\ h.op = "approve_own" /\ h.payload = EmptyPayload
      BY IdleType DEF Handler, Op, Idle
    <3>2. QED
      BY <3>1, <2>2, Parts, HandlerMoves, EmptyFits DEF Propose
  <2>3. QED
    BY <2>1, <2>2 DEF Propose
<1>5. proposals' \in [Proposals -> ProposalStatus]
  BY DEF Propose, Inductive, TypeOK, ProposalStatus
<1>6. QED
  BY <1>2, <1>3, <1>4, <1>5, ColumnsStep DEF Propose

\* The steps that touch the proposals or the file alone.
LEMMA ProposalsInductive ==
  ASSUME Inductive, NEW w \in Workers
  PROVE  /\ ApproveProposals(w) => Inductive'
         /\ ApproveOwn(w) => Inductive'
<1>1. ASSUME ApproveProposals(w) PROVE Inductive'
  BY <1>1, Parts, HandlerDone, ApprovePendingType, ProposalStep
     DEF ApproveProposals, Inductive, TypeOK
<1>2. ASSUME ApproveOwn(w) PROVE Inductive'
  <2>1. proposals' \in [Proposals -> ProposalStatus]
    BY <1>2 DEF ApproveOwn, Inductive, TypeOK, ProposalStatus
  <2>2. QED
    BY <1>2, <2>1, Parts, HandlerDone, ProposalStep DEF ApproveOwn, Inductive, TypeOK
<1>3. QED
  BY <1>1, <1>2

LEMMA ExportReviewInductive ==
  ASSUME Inductive, ExportReview
  PROVE  Inductive'
<1>1. file' \in File
  BY RowParts DEF ExportReview, File, Row, Payload
<1>2. QED
  BY <1>1, Parts, HandlersRest, ProposalStep DEF ExportReview, Inductive, TypeOK

LEMMA SaveSourceInductive ==
  ASSUME Inductive, SaveSource
  PROVE  Inductive'
<1>1. RowFits'
  BY ResetRowType, EmptyFits, RowSet DEF SaveSource, ResetRow
<1>2. DataFits'
  BY BoundsAssumption DEF SaveSource, Inductive, TypeOK, DataFits, CallsReserved,
                          ProposalStatus
<1>3. QED
  BY <1>1, <1>2, Parts, HandlersRest DEF SaveSource

LEMMA RunFixtureInductive ==
  ASSUME Inductive, RunFixture
  PROVE  Inductive'
<1>1. row' \in Row /\ row'.payload = EmptyPayload
  BY ResetRowType DEF RunFixture, ResetRow, Row, Status, RawId
<1>2. QED
  BY <1>1, EmptyFits, Parts, HandlersRest, ColumnsStep DEF RunFixture, Inductive, TypeOK

\* The requests of the live page and of the workbench that begin by reading.
LEMMA ReadersInductive ==
  ASSUME Inductive, NEW w \in Workers
  PROVE  /\ BeginAccept(w) => Inductive'
         /\ BeginFinalize(w) => Inductive'
         /\ BeginAcceptRemaining(w) => Inductive'
         /\ BeginIgnore(w) => Inductive'
         /\ BeginRunLocal(w) => Inductive'
         /\ \A op \in {"check", "request_rerun"} : BeginMark(w, op) => Inductive'
         /\ BeginWriteBack(w) => Inductive'
         /\ BeginContinue(w) => Inductive'
<1>1. /\ row.status \in Status /\ row.approved \in BOOLEAN /\ row.payload \in Payload
      /\ Fits(row.payload) /\ source \in 0..MaxSource
  BY RowParts DEF Row, Inductive, TypeOK
<1>2. ASSUME BeginAccept(w) PROVE Inductive'
  <2>. DEFINE h == [Idle EXCEPT !.op = "accept"]
  <2>1. h \in Handler /\ h.op = "accept" /\ h.payload = EmptyPayload
    BY <1>1, IdleType DEF Handler, Op, Idle
  <2>2. QED
    BY <1>2, <1>1, <2>1, BeginInductive, EmptyFits DEF BeginAccept
<1>3. ASSUME BeginFinalize(w) PROVE Inductive'
  <2>. DEFINE h == [Idle EXCEPT !.op = "finalize"]
  <2>1. h \in Handler /\ h.op = "finalize" /\ h.payload = EmptyPayload
    BY <1>1, IdleType DEF Handler, Op, Idle
  <2>2. QED
    BY <1>3, <1>1, <2>1, BeginInductive, EmptyFits DEF BeginFinalize
<1>4. ASSUME BeginAcceptRemaining(w) PROVE Inductive'
  <2>. DEFINE h == [Idle EXCEPT !.op = "accept_remaining", !.payload = row.payload]
  <2>1. h \in Handler /\ h.op = "accept_remaining" /\ h.payload = row.payload
    BY <1>1, IdleType DEF Handler, Op, Idle
  <2>2. QED
    BY <1>4, <1>1, <2>1, BeginInductive, EmptyFits DEF BeginAcceptRemaining
<1>5. ASSUME BeginIgnore(w) PROVE Inductive'
  <2>. DEFINE h == [Idle EXCEPT !.op = "ignore", !.approved = row.approved]
  <2>1. h \in Handler /\ h.op = "ignore" /\ h.payload = EmptyPayload
    BY <1>1, IdleType DEF Handler, Op, Idle
  <2>2. QED
    BY <1>5, <2>1, BeginInductive, EmptyFits DEF BeginIgnore
<1>6. ASSUME BeginRunLocal(w) PROVE Inductive'
  <2>. DEFINE h == [Idle EXCEPT !.op = "run_local", !.source = source]
  <2>1. h \in Handler /\ h.op = "run_local" /\ h.payload = EmptyPayload
    BY <1>1, IdleType DEF Handler, Op, Idle
  <2>2. QED
    BY <1>6, <1>1, <2>1, BeginInductive, EmptyFits DEF BeginRunLocal
<1>7. ASSUME NEW op \in {"check", "request_rerun"}, BeginMark(w, op) PROVE Inductive'
  <2>. DEFINE h == [Idle EXCEPT !.op = op, !.approved = row.approved]
  <2>1. h \in Handler /\ h.op = op /\ h.payload = EmptyPayload
    BY <1>1, IdleType DEF Handler, Op, Idle
  <2>2. QED
    BY <1>7, <2>1, BeginInductive, EmptyFits DEF BeginMark
<1>8. ASSUME BeginWriteBack(w) PROVE Inductive'
  <2>1. PICK op \in {"approve_pending", "write_back"}, status \in {row.status, "blocked"} :
          Begin(w, [Idle EXCEPT !.op = op, !.status = status, !.approved = row.approved])
    BY <1>8 DEF BeginWriteBack
  <2>. DEFINE h == [Idle EXCEPT !.op = op, !.status = status, !.approved = row.approved]
  <2>2. h \in Handler /\ h.op = op /\ h.payload = EmptyPayload
    BY <1>1, IdleType DEF Handler, Op, Idle, Status
  <2>3. QED
    BY <2>1, <2>2, BeginInductive, EmptyFits
<1>9. ASSUME BeginContinue(w) PROVE Inductive'
  <2>. DEFINE h == [Idle EXCEPT !.op = "continue"]
  <2>1. h \in Handler /\ h.op = "continue" /\ h.payload = EmptyPayload
    BY <1>1, IdleType DEF Handler, Op, Idle
  <2>2. QED
    BY <1>9, <1>1, <2>1, BeginInductive, EmptyFits DEF BeginContinue
<1>10. QED
  BY <1>2, <1>3, <1>4, <1>5, <1>6, <1>7, <1>8, <1>9

\* The workbench writes the status, the provenance or the proposals back.
LEMMA WritersInductive ==
  ASSUME Inductive, NEW w \in Workers
  PROVE  /\ Ignore(w) => Inductive'
         /\ Mark(w) => Inductive'
         /\ WriteBack(w) => Inductive'
         /\ Continue(w) => Inductive'
         /\ Abandon(w) => Inductive'
<1>1. /\ req[w].approved \in BOOLEAN /\ req[w].status \in Status
      /\ proposals \in [Proposals -> ProposalStatus]
      /\ file \in File \cup {None}
      /\ {"checking", "needs_rerun", "accepted"} \subseteq Status
  BY DEF Inductive, TypeOK, Handler, Status
<1>2. ASSUME Ignore(w) PROVE Inductive'
  <2>1. row' \in Row /\ Fits(row'.payload)
    BY <1>1, <1>2, OtherColumns DEF Ignore
  <2>2. QED
    BY <1>1, <1>2, <2>1, Parts, HandlerDone, ColumnsStep DEF Ignore
<1>3. ASSUME Mark(w) PROVE Inductive'
  <2>1. PICK status \in Status :
          row' = [row EXCEPT !.approved = req[w].approved, !.status = status]
    BY <1>1, <1>3 DEF Mark
  <2>2. row' \in Row /\ Fits(row'.payload)
    BY <1>1, <2>1, OtherColumns
  <2>3. QED
    BY <1>1, <1>3, <2>2, Parts, HandlerDone, ColumnsStep DEF Mark
<1>4. ASSUME WriteBack(w) PROVE Inductive'
  <2>1. row' \in Row /\ Fits(row'.payload)
    BY <1>1, <1>4, OtherColumns DEF WriteBack
  <2>2. proposals' \in [Proposals -> ProposalStatus]
    BY <1>1, <1>4, Parts, ApprovePendingType DEF WriteBack
  <2>3. QED
    BY <1>4, <2>1, <2>2, Parts, HandlerDone, ColumnsStep DEF WriteBack
<1>5. ASSUME Continue(w) PROVE Inductive'
  <2>1. row' \in Row /\ row'.payload = row.payload
    BY <1>5, RowParts DEF Continue, Row, Status
  <2>2. proposals' \in [Proposals -> ProposalStatus]
    BY <1>5, Parts, ApprovePendingType DEF Continue
  <2>3. QED
    BY <1>5, <2>1, <2>2, RowParts, Parts, HandlerDone, ColumnsStep DEF Continue
<1>6. ASSUME Abandon(w) PROVE Inductive'
  BY <1>1, <1>6, Parts, HandlerDone, ProposalStep DEF Abandon
<1>7. QED
  BY <1>2, <1>3, <1>4, <1>5, <1>6

-----------------------------------------------------------------------------
(* The invariant *)

LEMMA StutterInductive ==
  ASSUME Inductive, UNCHANGED vars
  PROVE  Inductive'
BY Parts, RowRests, HandlersRest, DataRest DEF vars, Inductive, TypeOK

LEMMA NextInductive ==
  ASSUME Inductive, [Next]_vars
  PROVE  Inductive'
<1>1. ASSUME NEW w \in Workers, Generation(w) PROVE Inductive'
  BY <1>1, BeginRunInductive, ReserveInductive, GateFailsInductive, GenerateInductive,
     PersistInductive DEF Generation
<1>2. ASSUME NEW w \in Workers, Review(w) PROVE Inductive'
  BY <1>2, ReadersInductive, FinalizeReviewInductive, AcceptRemainingInductive,
     ProposalsInductive, ProposeInductive DEF Review, AcceptStage, Finalize
<1>3. ASSUME NEW w \in Workers, Workbench(w) PROVE Inductive'
  BY <1>3, ReadersInductive, RunLocalInductive, WritersInductive DEF Workbench
<1>4. ASSUME NEW w \in Workers, Abandon(w) PROVE Inductive'
  BY <1>4, WritersInductive
<1>5. ASSUME NEW p \in Proposals,
             NEW status \in {"pending", "approved", "rejected", "needs_edit"},
             DecideProposal(p, status)
      PROVE  Inductive'
  <2>1. proposals' \in [Proposals -> ProposalStatus]
    BY <1>5 DEF DecideProposal, Inductive, TypeOK, ProposalStatus
  <2>2. QED
    BY <1>5, <2>1, Parts, HandlersRest, ProposalStep DEF DecideProposal, Inductive, TypeOK
<1>6. QED
  BY <1>1, <1>2, <1>3, <1>4, <1>5, PromoteInductive, SaveDecisionInductive,
     RunFixtureInductive, ExportReviewInductive, ImportReviewInductive,
     SaveSourceInductive, StutterInductive DEF Next

\* Inductive is an invariant: the type invariant, the ownership of pending attempts
\* and the fit of every payload, in the row or in the hands of a request, hold in
\* every reachable state of entity_persistence.py, live_workflow.py and the handlers.
THEOREM InvariantHolds == Spec => []Inductive
<1>1. Inductive /\ [Next]_vars => Inductive'
  BY NextInductive
<1>2. QED
  BY InitInductive, <1>1, PTL DEF Spec

\* Every column keeps its type, and no decision is filed under a wrong index.
THEOREM TypeCorrect == Spec => []TypeOK
<1>1. Inductive => TypeOK
  BY DEF Inductive
<1>2. QED
  BY InvariantHolds, <1>1, PTL

\* The decisions fit the rows, for every interleaving of the handlers and any
\* number of rows: finalize_entity_review never looks up a missing row.
THEOREM DecisionsAlwaysFit == Spec => []DecisionsFitRows
<1>1. Inductive => DecisionsFitRows
  BY DEF Inductive, PayloadsFit, Fits, DecisionsFitRows
<1>2. QED
  BY InvariantHolds, <1>1, PTL

\* A recorded review decides every row of the output it is shown with, and was
\* made of the attempt that produced that output.
THEOREM ReviewAlwaysCovers == Spec => []ReviewCoversRows
<1>1. Inductive => ReviewCoversRows
  BY DEF Inductive, PayloadsFit, Fits, ReviewCoversRows
<1>2. QED
  BY InvariantHolds, <1>1, PTL

\* No incomplete, failed or pending attempt ever becomes the registry.
THEOREM RegistryAlwaysUsable == Spec => []OnlyUsableRegistry
<1>1. Inductive => OnlyUsableRegistry
  BY DEF Inductive, PayloadsFit, Fits, OnlyUsableRegistry
<1>2. QED
  BY InvariantHolds, <1>1, PTL

-----------------------------------------------------------------------------
(* Accepted output *)

\* A record written while the row is accepted leaves the row.
LEMMA AcceptedProtected ==
  ASSUME NEW q, NEW a, PersistAttempt(q, a), row.status = "accepted"
  PROVE  row' = row
BY DEF PersistAttempt

LEMMA RawStep ==
  ASSUME Inductive, [Next]_vars, row.status = "accepted"
  PROVE  row'.raw \in {row.raw, None, "fixture"}
<1>0. row \in Row
  BY RowParts
<1>1. ASSUME NEW w \in Workers, Generation(w) PROVE row'.raw = row.raw
  <2>1. CASE Persist(w)
    BY <2>1, AcceptedProtected DEF Persist
  <2>2. CASE ~ Persist(w)
    BY <1>1, <2>2 DEF Generation, BeginRun, Begin, Reserve, GateFails, Generate
  <2>3. QED
    BY <2>1, <2>2
<1>2. ASSUME NEW w \in Workers, Review(w) PROVE row'.raw = row.raw
  <2>1. CASE FinalizeReview(w)
    BY <1>0, <2>1 DEF FinalizeReview, Row
  <2>2. CASE AcceptRemaining(w)
    BY <1>0, <2>2 DEF AcceptRemaining, Row
  <2>3. CASE \E p \in Proposals : Propose(w, p)
    BY <1>0, <2>3 DEF Propose, Row
  <2>4. CASE UNCHANGED row
    BY <2>4
  <2>5. QED
    BY <1>2, <2>1, <2>2, <2>3, <2>4
       DEF Review, BeginAccept, BeginFinalize, BeginAcceptRemaining, Begin, AcceptStage,
           Finalize, ApproveProposals, ApproveOwn
<1>3. ASSUME NEW w \in Workers, Workbench(w) PROVE row'.raw = row.raw
  <2>1. CASE \E q \in Requests, result \in Result : RunLocal(w, q, result)
    BY <2>1, AcceptedProtected DEF RunLocal
  <2>2. CASE Ignore(w) \/ Mark(w) \/ WriteBack(w) \/ Continue(w)
    BY <1>0, <2>2 DEF Ignore, Mark, WriteBack, Continue, Row
  <2>3. CASE UNCHANGED row
    BY <2>3
  <2>4. QED
    BY <1>3, <2>1, <2>2, <2>3
       DEF Workbench, BeginIgnore, BeginRunLocal, BeginMark, BeginWriteBack,
           BeginContinue, Begin
<1>4. ASSUME NEW q \in Requests, Promote(q) PROVE row'.raw = row.raw
  BY <1>4, AcceptedProtected DEF Promote
<1>5. ASSUME NEW i \in 0..MaxRows + 1, NEW d \in Decisions, SaveDecision(i, d)
      PROVE  row'.raw = row.raw
  BY <1>0, <1>5 DEF SaveDecision, Row
<1>6. ASSUME NEW decisions \in Reviews, ImportReview(decisions) PROVE row'.raw = row.raw
  BY <1>0, <1>6 DEF ImportReview, Row
<1>7. ASSUME RunFixture \/ SaveSource PROVE row'.raw \in {None, "fixture"}
  <2>1. CASE RunFixture
    BY <2>1, ResetRowType DEF RunFixture, Row
  <2>2. CASE SaveSource
    BY <2>2 DEF SaveSource, ResetRow
  <2>3. QED
    BY <1>7, <2>1, <2>2
<1>8. QED
  BY <1>1, <1>2, <1>3, <1>4, <1>5, <1>6, <1>7
     DEF Next, Abandon, DecideProposal, ExportReview, vars

\* No late runner, replay or request replaces the model output of an accepted row
\* by another attempt's (entity_persistence.py:113-124).
THEOREM AcceptedRawHolds == Spec => AcceptedRawImmutable
<1>1. Inductive /\ [Next]_vars
        => [row.status = "accepted" => row'.raw \in {row.raw, None, "fixture"}]_vars
  BY RawStep
<1>2. QED
  BY InvariantHolds, <1>1, PTL DEF Spec, AcceptedRawImmutable

-----------------------------------------------------------------------------
(* The ledger of requests *)

Stages == [q \in Requests |-> LedgerStage(q)]

LEMMA LedgerSame ==
  ASSUME UNCHANGED calls,
         \A q \in Requests : LedgerStage(q)' = LedgerStage(q)
  PROVE  UNCHANGED <<Stages, calls>>
BY DEF Stages

LEMMA LedgerRests ==
  ASSUME UNCHANGED <<attempts, calls>>
  PROVE  UNCHANGED <<Stages, calls>>
BY LedgerSame DEF LedgerStage

\* Writing an outcome over a pending or missing attempt records the request.
LEMMA LedgerRecords ==
  ASSUME NEW q \in Requests, LedgerStage(q) # "recorded", LedgerStage(q)' = "recorded",
         \A r \in Requests : r # q => attempts'[r] = attempts[r], UNCHANGED calls
  PROVE  Ledger!Record(q)
<1>1. \A r \in Requests : r # q => LedgerStage(r)' = LedgerStage(r)
  BY DEF LedgerStage
<1>2. QED
  BY <1>1 DEF Ledger!Record

LEMMA LedgerStep ==
  ASSUME Inductive, [Next]_vars
  PROVE  [Ledger!Next]_<<Stages, calls>>
<1>1. ASSUME NEW w \in Workers, NEW q \in Requests, Reserve(w, q) PROVE Ledger!Reserve(q)
  <2>1. /\ LedgerStage(q) = "unused" /\ LedgerStage(q)' = "reserved"
        /\ \A r \in Requests : r # q => LedgerStage(r)' = LedgerStage(r)
    <3>. DEFINE a == [execution |-> "pending", rows |-> 0, source |-> req[w].source,
                      disposition |-> "recorded_only"]
    <3>1. a \in Attempt /\ a # None /\ a.execution = "pending"
      BY BoundsAssumption, NoneAssumption
         DEF Inductive, TypeOK, Handler, Attempt, Execution, Disposition
    <3>2. attempts' = [attempts EXCEPT ![q] = a]
      BY <1>1 DEF Reserve
    <3>. HIDE DEF a
    <3>3. QED
      BY <1>1, <3>1, <3>2 DEF Reserve, Inductive, TypeOK, LedgerStage
  <2>2. QED
    BY <1>1, <2>1 DEF Reserve, Ledger!Reserve
<1>2. ASSUME NEW w \in Workers, NEW result \in Result, Generate(w, result)
      PROVE  Ledger!Call(req[w].request)
  <2>1. /\ req[w].request \in Requests /\ calls[req[w].request] = 0
        /\ LedgerStage(req[w].request) = "reserved"
    BY <1>2 DEF Inductive, OwnedPending, Owns, Generate, LedgerStage
  <2>2. UNCHANGED Stages
    BY <1>2 DEF Generate, Stages, LedgerStage
  <2>3. calls' = [calls EXCEPT ![req[w].request] = 1]
    BY <1>2, <2>1 DEF Generate, Inductive, TypeOK
  <2>4. QED
    BY <2>1, <2>2, <2>3 DEF Ledger!Call, Stages
<1>3. ASSUME NEW w \in Workers, NEW q \in Requests, q = req[w].request, Persist(w)
      PROVE  Ledger!Record(q)
  <2>. DEFINE a == [attempts[q] EXCEPT !.execution = req[w].result.execution,
                                       !.rows = req[w].result.rows]
  <2>1. /\ attempts[q] \in Attempt
        /\ attempts[q].execution = "pending" /\ req[w].result \in Result
        /\ LedgerStage(q) = "reserved"
    BY <1>3 DEF Inductive, OwnedPending, Owns, Persist, TypeOK, Handler, LedgerStage
  <2>2. a \in Attempt /\ a.execution # "pending"
    <3>1. /\ req[w].result.execution \in Execution \ {"pending"}
          /\ req[w].result.rows \in 0..MaxRows
      BY <2>1, ResultColumns DEF Result
    <3>2. \A b \in Attempt, e \in Execution \ {"pending"}, n \in 0..MaxRows :
            LET c == [b EXCEPT !.execution = e, !.rows = n]
            IN c \in Attempt /\ c.execution # "pending"
      BY DEF Attempt
    <3>3. QED
      BY <2>1, <3>1, <3>2
  <2>3. ~ Usable(attempts[q].execution) /\ PersistAttempt(q, a) /\ UNCHANGED calls
    BY <1>3, <2>1 DEF Persist, Usable
  <2>4. /\ attempts'[q] # None /\ attempts'[q].execution = a.execution
        /\ \A r \in Requests : r # q => attempts'[r] = attempts[r]
    <3>. HIDE DEF a
    <3>. QED
      BY <2>1, <2>2, <2>3, PersistAttemptFits
  <2>5. LedgerStage(q)' = "recorded"
    BY <1>3, <2>2, <2>4 DEF LedgerStage
  <2>6. QED
    BY <2>1, <2>3, <2>4, <2>5, LedgerRecords
<1>4. ASSUME NEW q \in Requests, Promote(q) PROVE UNCHANGED <<Stages, calls>>
  <2>1. attempts[q] \in Attempt /\ PersistAttempt(q, attempts[q])
    BY <1>4 DEF Inductive, TypeOK, Promote
  <2>2. /\ attempts'[q] # None /\ attempts[q] # None
        /\ attempts'[q].execution = attempts[q].execution
        /\ \A r \in Requests : r # q => attempts'[r] = attempts[r]
    BY <1>4, <2>1, PersistAttemptFits DEF Promote
  <2>3. QED
    BY <1>4, <2>2, LedgerSame DEF Promote, LedgerStage
<1>5. ASSUME NEW w \in Workers, NEW q \in Requests, NEW result \in Result,
             RunLocal(w, q, result)
      PROVE  Ledger!Record(q)
  <2>. DEFINE a == [execution |-> result.execution, rows |-> result.rows,
                    source |-> req[w].source, disposition |-> "recorded_only"]
  <2>1. a \in Attempt /\ a.execution # "pending"
    BY ResultColumns DEF Result, Inductive, TypeOK, Handler, Attempt, Disposition
  <2>2. PersistAttempt(q, a) /\ attempts[q] = None /\ UNCHANGED calls
    BY <1>5 DEF RunLocal
  <2>3. /\ attempts'[q] # None /\ attempts'[q].execution = a.execution
        /\ \A r \in Requests : r # q => attempts'[r] = attempts[r]
    <3>. HIDE DEF a
    <3>. QED
      BY <2>1, <2>2, PersistAttemptFits
  <2>4. LedgerStage(q)' = "recorded" /\ LedgerStage(q) = "unused"
    BY <2>1, <2>2, <2>3 DEF LedgerStage
  <2>5. QED
    BY <2>2, <2>3, <2>4, LedgerRecords
<1>6. ASSUME NEW w \in Workers, Generation(w) PROVE [Ledger!Next]_<<Stages, calls>>
  <2>1. CASE \E q \in Requests : Reserve(w, q)
    BY <2>1, <1>1 DEF Ledger!Next
  <2>2. CASE \E result \in Result : Generate(w, result)
    <3>1. req[w].request \in Requests
      BY <2>2 DEF Inductive, OwnedPending, Owns, Generate
    <3>2. QED
      BY <2>2, <3>1, <1>2 DEF Ledger!Next
  <2>3. CASE Persist(w)
    <3>1. req[w].request \in Requests
      BY <2>3 DEF Inductive, OwnedPending, Owns, Persist
    <3>2. QED
      BY <2>3, <3>1, <1>3 DEF Ledger!Next
  <2>4. CASE BeginRun(w) \/ GateFails(w)
    BY <2>4, LedgerRests DEF BeginRun, Begin, GateFails
  <2>5. QED
    BY <1>6, <2>1, <2>2, <2>3, <2>4 DEF Generation
<1>7. ASSUME NEW w \in Workers, Review(w) PROVE UNCHANGED <<Stages, calls>>
  BY <1>7, LedgerRests
     DEF Review, BeginAccept, AcceptStage, BeginFinalize, Finalize, FinalizeReview,
         BeginAcceptRemaining, AcceptRemaining, ApproveProposals, Propose, ApproveOwn, Begin
<1>8. ASSUME NEW w \in Workers, Workbench(w) PROVE [Ledger!Next]_<<Stages, calls>>
  <2>1. CASE \E q \in Requests, result \in Result : RunLocal(w, q, result)
    BY <2>1, <1>5 DEF Ledger!Next
  <2>2. CASE UNCHANGED <<attempts, calls>>
    BY <2>2, LedgerRests
  <2>3. QED
    BY <1>8, <2>1, <2>2
       DEF Workbench, BeginIgnore, Ignore, BeginRunLocal, BeginMark, Mark, BeginWriteBack,
           WriteBack, BeginContinue, Continue, Begin
<1>9. CASE UNCHANGED <<attempts, calls>>
  BY <1>9, LedgerRests
<1>10. QED
  BY <1>4, <1>6, <1>7, <1>8, <1>9
     DEF Next, Abandon, SaveDecision, DecideProposal, RunFixture, ExportReview,
         ImportReview, SaveSource, vars

\* The registry implements the ledger: whatever crashes, duplicates and replays do, a
\* request id is reserved once, sent to the model at most once, and recorded once.
THEOREM LedgerImplemented == Spec => LedgerRefined
<1>1. Init => Ledger!Init
  BY DEF Init, Ledger!Init, LedgerStage
<1>2. Inductive /\ [Next]_vars => [Ledger!Next]_<<Stages, calls>>
  BY LedgerStep
<1>3. QED
  BY InvariantHolds, <1>1, <1>2, PTL DEF Spec, LedgerRefined, Ledger!Spec, Stages

-----------------------------------------------------------------------------
(* Recorded attempts as evidence *)

\* What two versions of an attempt row agree on.
SameOutcome(a, b) == /\ a.execution = b.execution
                     /\ a.rows = b.rows
                     /\ a.source = b.source

\* What persist_entity_registry_attempt does to the attempt rows, whatever it records.
LEMMA PersistAttemptWrites ==
  ASSUME Inductive, NEW q \in Requests, NEW a \in Attempt, PersistAttempt(q, a)
  PROVE  /\ attempts'[q] # None
         /\ SameOutcome(attempts'[q], a)
         /\ \A r \in Requests : r # q => attempts'[r] = attempts[r]
<1>1. PICK d \in Disposition : attempts' = [attempts EXCEPT ![q] = [a EXCEPT !.disposition = d]]
  BY DEF PersistAttempt, Disposition
<1>. DEFINE b == [a EXCEPT !.disposition = d]
<1>2. b \in Attempt /\ b # None /\ SameOutcome(b, a)
  BY NoneAssumption DEF Attempt, SameOutcome
<1>. HIDE DEF b
<1>3. QED
  BY <1>1, <1>2 DEF Inductive, TypeOK, b

LEMMA OutcomeStep ==
  ASSUME Inductive, [Next]_vars, NEW q \in Requests, LedgerStage(q) = "recorded"
  PROVE  attempts'[q] # None /\ SameOutcome(attempts'[q], attempts[q])
<1>0. attempts[q] # None /\ attempts[q].execution # "pending"
  BY DEF LedgerStage
<1>1. ASSUME UNCHANGED attempts
      PROVE  attempts'[q] # None /\ SameOutcome(attempts'[q], attempts[q])
  BY <1>0, <1>1 DEF SameOutcome
<1>2. ASSUME NEW w \in Workers, NEW r \in Requests, Reserve(w, r)
      PROVE  attempts'[q] = attempts[q]
  BY <1>0, <1>2 DEF Reserve, Inductive, TypeOK
<1>3. ASSUME NEW w \in Workers, Persist(w)
      PROVE  attempts'[q] = attempts[q]
  <2>. DEFINE r == req[w].request
              a == [attempts[r] EXCEPT !.execution = req[w].result.execution,
                                       !.rows = req[w].result.rows]
  <2>1. /\ r \in Requests /\ attempts[r] \in Attempt
        /\ attempts[r].execution = "pending" /\ req[w].result \in Result
    BY <1>3 DEF Inductive, OwnedPending, Owns, Persist, TypeOK, Handler
  <2>2. a \in Attempt
    BY <2>1, ResultColumns DEF Result, Attempt
  <2>3. PersistAttempt(r, a)
    BY <1>3 DEF Persist
  <2>4. r # q
    BY <1>0, <2>1
  <2>. HIDE DEF a, r
  <2>5. QED
    BY <2>1, <2>2, <2>3, <2>4, PersistAttemptWrites
<1>4. ASSUME NEW r \in Requests, Promote(r)
      PROVE  attempts'[q] # None /\ SameOutcome(attempts'[q], attempts[q])
  <2>1. attempts[r] \in Attempt /\ PersistAttempt(r, attempts[r])
    BY <1>4 DEF Inductive, TypeOK, Promote
  <2>2. QED
    BY <1>0, <2>1, PersistAttemptWrites DEF SameOutcome
<1>5. ASSUME NEW w \in Workers, NEW r \in Requests, NEW result \in Result,
             RunLocal(w, r, result)
      PROVE  attempts'[q] = attempts[q]
  <2>. DEFINE a == [execution |-> result.execution, rows |-> result.rows,
                    source |-> req[w].source, disposition |-> "recorded_only"]
  <2>1. a \in Attempt
    BY ResultColumns DEF Result, Inductive, TypeOK, Handler, Attempt, Disposition
  <2>2. PersistAttempt(r, a) /\ r # q
    BY <1>0, <1>5 DEF RunLocal
  <2>. HIDE DEF a
  <2>3. QED
    BY <2>1, <2>2, PersistAttemptWrites
<1>6. ASSUME NEW w \in Workers, Generation(w)
      PROVE  attempts'[q] # None /\ SameOutcome(attempts'[q], attempts[q])
  <2>1. CASE \E r \in Requests : Reserve(w, r)
    BY <1>0, <1>2, <2>1 DEF SameOutcome
  <2>2. CASE Persist(w)
    BY <1>0, <1>3, <2>2 DEF SameOutcome
  <2>3. CASE UNCHANGED attempts
    BY <1>1, <2>3
  <2>4. QED
    BY <1>6, <2>1, <2>2, <2>3 DEF Generation, BeginRun, Begin, GateFails, Generate
<1>7. ASSUME NEW w \in Workers, Review(w) PROVE UNCHANGED attempts
  BY <1>7 DEF Review, BeginAccept, AcceptStage, BeginFinalize, Finalize, FinalizeReview,
              BeginAcceptRemaining, AcceptRemaining, ApproveProposals, Propose, ApproveOwn,
              Begin
<1>8. ASSUME NEW w \in Workers, Workbench(w)
      PROVE  attempts'[q] # None /\ SameOutcome(attempts'[q], attempts[q])
  <2>1. CASE \E r \in Requests, result \in Result : RunLocal(w, r, result)
    BY <1>0, <1>5, <2>1 DEF SameOutcome
  <2>2. CASE UNCHANGED attempts
    BY <1>1, <2>2
  <2>3. QED
    BY <1>8, <2>1, <2>2
       DEF Workbench, BeginIgnore, Ignore, BeginRunLocal, BeginMark, Mark, BeginWriteBack,
           WriteBack, BeginContinue, Continue, Begin
<1>9. QED
  BY <1>1, <1>4, <1>6, <1>7, <1>8
     DEF Next, Abandon, SaveDecision, DecideProposal, RunFixture, ExportReview,
         ImportReview, SaveSource, vars

\* The outcome, rows and source of a recorded attempt are never rewritten
\* (entity_persistence.py:42-201, entity_registry_promote_attempt).
THEOREM RecordedOutcomeHolds == Spec => RecordedOutcomeStands
<1>. DEFINE Stands == \A q \in Requests : LedgerStage(q) = "recorded" =>
                        /\ attempts'[q] # None
                        /\ attempts'[q].execution = attempts[q].execution
                        /\ attempts'[q].rows = attempts[q].rows
                        /\ attempts'[q].source = attempts[q].source
<1>1. Inductive /\ [Next]_vars => [Stands]_vars
  BY OutcomeStep DEF SameOutcome
<1>2. QED
  BY InvariantHolds, <1>1, PTL DEF Spec, RecordedOutcomeStands
=============================================================================
