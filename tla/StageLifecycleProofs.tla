------------------------- MODULE StageLifecycleProofs -------------------------
(* The properties of StageLifecycle for any number of requests, texts and        *)
(* outputs.  The invariant has four parts: types; that an output on its way to a *)
(* row was recorded before; and, while no two requests have overlapped, what the *)
(* rows hold and how the clause table keeps up with its row.                     *)
EXTENDS StageLifecycle, TLAPS

\* What reaches a row was recorded when its request made it.
Recorded ==
  /\ AttemptsPrecedeRows
  /\ \A w \in Workers :
       req[w].op = "save" /\ req[w].stage # "clause" /\ req[w].out.by = "model"
         => req[w].out.id \in attempts

\* The kinds of what actions put into rows and requests.
LEMMA BlankTypes == Blank \in Row /\ Blank.status = "not_started" /\ Blank.out = None
  BY DEF Blank, Row, Status

LEMMA IdleTypes == /\ Idle \in Request /\ Idle.op = "idle" /\ Idle.out = None
                   /\ \A s \in Stage : Idle.seen[s].status = "not_started"
<1>1. [s \in Stage |-> Blank] \in [Stage -> Row]
  BY BlankTypes
<1>2. 1 \in 1..MaxText /\ "idle" \in Op /\ "summary" \in Stage /\ FALSE \in BOOLEAN
  BY BoundAssumption DEF Op, Stage
<1> QED BY <1>1, <1>2, BlankTypes DEF Idle, Request

LEMMA MadeTypes == ASSUME TypeOK, made < MaxOut, NEW w \in Workers,
                          NEW by \in {"model", "human"}, NEW valid \in BOOLEAN
                   PROVE /\ Made(req[w], by, valid) \in Output
                         /\ Made(req[w], by, valid) # None
                         /\ made + 1 \in 1..MaxOut
<1> DEFINE r == req[w]
<1>1. made + 1 \in 1..MaxOut
  BY BoundAssumption DEF TypeOK
<1>2. r \in Request
  BY DEF TypeOK
<1>3. \A s \in Stage : r.seen[s] \in Row
  BY <1>2 DEF Request
<1>4. \A s \in Stage : r.seen[s].out # None => r.seen[s].out.id \in 0..MaxOut
  BY <1>3, BoundAssumption DEF Row, Output
<1>5. BaseOf(r) \in 0..MaxOut
  BY <1>4, BoundAssumption DEF BaseOf, Stage
<1>6. r.text \in 1..MaxText
  BY <1>2 DEF Request
<1>7. Made(r, by, valid) \in Output
  BY <1>1, <1>5, <1>6 DEF Made, Output
<1> QED BY <1>1, <1>7, NoneAssumption

\* The request of one worker moves on, to a request of its kind.
LEMMA RequestMoves == ASSUME TypeOK, NEW w \in Workers, NEW r \in Request,
                             r.op \in {"save", "replace"} => r.out # None,
                             \A s \in Stage : r.seen[s].status = "checking" => r.seen[s].out # None,
                             req' = [req EXCEPT ![w] = r]
                      PROVE /\ req' \in [Workers -> Request]
                            /\ \A v \in Workers :
                                 /\ req'[v] = IF v = w THEN r ELSE req[v]
                                 /\ req'[v].op \in {"save", "replace"} => req'[v].out # None
                                 /\ \A s \in Stage : req'[v].seen[s].status = "checking"
                                                       => req'[v].seen[s].out # None
  BY DEF TypeOK

LEMMA SavingTypes == ASSUME TypeOK, made < MaxOut, NEW w \in Workers,
                            NEW by \in {"model", "human"}, NEW valid \in BOOLEAN
                     PROVE LET r == [Idle EXCEPT !.op = "save", !.stage = req[w].stage,
                                                 !.out = Made(req[w], by, valid)]
                           IN /\ r \in Request /\ r.op = "save" /\ r.stage = req[w].stage
                              /\ r.out = Made(req[w], by, valid) /\ r.out # None
                              /\ \A s \in Stage : r.seen[s].status = "not_started"
<1>1. req[w].stage \in Stage /\ "save" \in Op
  BY DEF TypeOK, Request, Op
<1> QED BY <1>1, MadeTypes, IdleTypes DEF Request, Idle

-----------------------------------------------------------------------------
\* Types.
LEMMA InitTypes == Init => TypeOK
<1> SUFFICES ASSUME Init PROVE TypeOK
  OBVIOUS
<1>1. clauses \in Table /\ source \in 1..MaxText /\ made \in 0..MaxOut
  BY BoundAssumption DEF Init, Table
<1>2. eligible \in BOOLEAN /\ overlap \in BOOLEAN /\ torn \in BOOLEAN
  BY DEF Init
<1>3. \A s \in Stage : rows[s] = Blank
  BY DEF Init
<1>4. rows \in [Stage -> Row]
  BY BlankTypes DEF Init
<1>5. \A w \in Workers : req[w] = Idle
  BY DEF Init
<1>6. req \in [Workers -> Request]
  BY IdleTypes DEF Init
<1> QED BY <1>1, <1>2, <1>3, <1>4, <1>5, <1>6, BlankTypes, IdleTypes DEF Init, TypeOK

LEMMA BeginTypes == ASSUME TypeOK, NEW w \in Workers, NEW op \in {"run", "edit", "accept"},
                           NEW stage \in Stage, Begin(w, op, stage)
                    PROVE TypeOK'
<1> DEFINE seen == [s \in Stage |-> IF s \in Uses(op, stage) THEN rows[s] ELSE Blank]
           r == [op |-> op, stage |-> stage, seen |-> seen, text |-> source,
                 eligible |-> eligible, out |-> None]
<1>1. seen \in [Stage -> Row]
  BY BlankTypes DEF TypeOK
<1>2. r \in Request
  BY <1>1 DEF TypeOK, Request, Op
<1>3. \A s \in Stage : seen[s].status = "checking" => seen[s].out # None
  BY BlankTypes DEF TypeOK
<1>4. req' = [req EXCEPT ![w] = r]
  BY DEF Begin
<1>5. overlap' \in BOOLEAN
  BY DEF Begin, Overlaps, TypeOK
<1> HIDE DEF seen
<1>6. r.op \notin {"save", "replace"} /\ r.seen = seen
  OBVIOUS
<1> HIDE DEF r
<1>7. /\ req' \in [Workers -> Request]
      /\ \A v \in Workers :
           /\ req'[v].op \in {"save", "replace"} => req'[v].out # None
           /\ \A s \in Stage : req'[v].seen[s].status = "checking" => req'[v].seen[s].out # None
  BY <1>2, <1>3, <1>4, <1>6, RequestMoves
<1> QED BY <1>5, <1>7 DEF Begin, db, TypeOK

LEMMA FinishTypes == ASSUME TypeOK, NEW w \in Workers, Finish(w)
                     PROVE /\ req' \in [Workers -> Request]
                           /\ \A v \in Workers :
                                /\ req'[v] = IF v = w THEN Idle ELSE req[v]
                                /\ req'[v].op \in {"save", "replace"} => req'[v].out # None
                                /\ \A s \in Stage : req'[v].seen[s].status = "checking"
                                                      => req'[v].seen[s].out # None
  BY IdleTypes, RequestMoves DEF Finish

LEMMA AnswerTypes == ASSUME TypeOK, NEW w \in Workers, NEW valid \in BOOLEAN, Answer(w, valid)
                     PROVE TypeOK'
<1> DEFINE r == [Idle EXCEPT !.op = "save", !.stage = req[w].stage,
                             !.out = Made(req[w], "model", valid)]
<1>1. made < MaxOut /\ made + 1 \in 1..MaxOut
  BY MadeTypes, BoundAssumption DEF Answer, Bound, TypeOK
<1>2. /\ r \in Request /\ r.out # None
      /\ \A s \in Stage : r.seen[s].status = "not_started"
  BY <1>1, SavingTypes
<1>3. req' = [req EXCEPT ![w] = r]
  BY DEF Answer, Saving
<1> HIDE DEF r
<1>4. /\ req' \in [Workers -> Request]
      /\ \A v \in Workers :
           /\ req'[v].op \in {"save", "replace"} => req'[v].out # None
           /\ \A s \in Stage : req'[v].seen[s].status = "checking" => req'[v].seen[s].out # None
  BY <1>2, <1>3, RequestMoves
<1>5. attempts' \subseteq 1..MaxOut /\ made' \in 0..MaxOut
  BY <1>1 DEF Answer, TypeOK
<1> QED BY <1>4, <1>5 DEF Answer, TypeOK

LEMMA EditTypes == ASSUME TypeOK, NEW w \in Workers, Edit(w) PROVE TypeOK'
<1> DEFINE r == [Idle EXCEPT !.op = "save", !.stage = req[w].stage,
                             !.out = Made(req[w], "human", TRUE)]
<1>1. made < MaxOut /\ made + 1 \in 1..MaxOut
  BY MadeTypes, BoundAssumption DEF Edit, Bound, TypeOK
<1>2. /\ r \in Request /\ r.out # None
      /\ \A s \in Stage : r.seen[s].status = "not_started"
  BY <1>1, SavingTypes
<1>3. req' = [req EXCEPT ![w] = r]
  BY DEF Edit, Saving
<1> HIDE DEF r
<1>4. /\ req' \in [Workers -> Request]
      /\ \A v \in Workers :
           /\ req'[v].op \in {"save", "replace"} => req'[v].out # None
           /\ \A s \in Stage : req'[v].seen[s].status = "checking" => req'[v].seen[s].out # None
  BY <1>2, <1>3, RequestMoves
<1> QED BY <1>1, <1>4 DEF Edit, db, TypeOK

LEMMA SaveRowTypes == ASSUME TypeOK, NEW w \in Workers, SaveRow(w) PROVE TypeOK'
<1> DEFINE new == [status |-> "checking", out |-> req[w].out]
           r == [req[w] EXCEPT !.op = "replace"]
<1>1. req[w] \in Request /\ req[w].stage \in Stage /\ req[w].out # None
  BY DEF SaveRow, TypeOK, Request
<1>2. new \in Row
  BY <1>1 DEF Row, Status, Request
<1>3. rows' = [rows EXCEPT ![req[w].stage] = new]
  BY DEF SaveRow
<1>4. /\ rows' \in [Stage -> Row]
      /\ \A s \in Stage : rows'[s].status = "checking" => rows'[s].out # None
  BY <1>1, <1>2, <1>3 DEF TypeOK
<1>5. CASE req[w].stage = "clause"
  <2>1. req' = [req EXCEPT ![w] = r]
    BY <1>5 DEF SaveRow, TypeOK, Request
  <2>2. r \in Request /\ r.out # None /\ r.seen = req[w].seen
    BY <1>1 DEF Request, Op
  <2> HIDE DEF r
  <2>3. \A s \in Stage : r.seen[s].status = "checking" => r.seen[s].out # None
    BY <2>2 DEF TypeOK
  <2>4. /\ req' \in [Workers -> Request]
        /\ \A v \in Workers :
             /\ req'[v].op \in {"save", "replace"} => req'[v].out # None
             /\ \A s \in Stage : req'[v].seen[s].status = "checking" => req'[v].seen[s].out # None
    BY <2>1, <2>2, <2>3, RequestMoves
  <2> QED BY <1>4, <2>4 DEF SaveRow, TypeOK
<1>6. CASE req[w].stage # "clause"
  <2>1. Finish(w)
    BY <1>6 DEF SaveRow
  <2> QED BY <1>4, <2>1, FinishTypes DEF SaveRow, TypeOK
<1> QED BY <1>5, <1>6

LEMMA ReplaceClausesTypes == ASSUME TypeOK, NEW w \in Workers, ReplaceClauses(w) PROVE TypeOK'
<1>1. req[w].out \in Output
  BY DEF ReplaceClauses, TypeOK, Request
<1>2. clauses' \in Table
  BY <1>1, BoundAssumption DEF ReplaceClauses, Table, Output
<1> QED BY <1>2, FinishTypes DEF ReplaceClauses, TypeOK

LEMMA AcceptTypes == ASSUME TypeOK, NEW w \in Workers, Accept(w) PROVE TypeOK'
<1> DEFINE s == req[w].stage
<1>1. s \in Stage /\ req[w].seen \in [Stage -> Row]
  BY DEF TypeOK, Request
<1>2. req[w].seen[s].out \in Output
  BY <1>1 DEF Accept, TypeOK, Row
<1>3. decided' \subseteq 1..MaxOut
  BY <1>2 DEF Accept, TypeOK, Output
<1>4. [rows[s] EXCEPT !.status = "accepted"] \in Row
  BY <1>1 DEF TypeOK, Row, Status
<1>5. \A t \in Stage : rows'[t] = IF t = s THEN [rows[s] EXCEPT !.status = "accepted"]
                                           ELSE rows[t]
  BY <1>1 DEF Accept, TypeOK
<1>6. rows' \in [Stage -> Row]
  BY <1>4, <1>1 DEF Accept, TypeOK
<1>7. \A t \in Stage : rows'[t].status = "checking" => rows'[t].out # None
  BY <1>1, <1>5 DEF TypeOK, Row
<1> QED BY <1>3, <1>6, <1>7, FinishTypes DEF Accept, TypeOK

LEMMA SaveSourceTypes == ASSUME TypeOK, NEW w \in Workers, SaveSource(w) PROVE TypeOK'
<1>1. source' \in 1..MaxText /\ clauses' \in Table
  BY BoundAssumption DEF SaveSource, TypeOK, Table
<1>2. rows' \in [Stage -> Row] /\ \A s \in Stage : rows'[s] = Blank
  BY BlankTypes DEF SaveSource
<1>3. overlap' \in BOOLEAN /\ eligible' \in BOOLEAN
  BY DEF SaveSource, Overlaps, TypeOK
<1> QED BY <1>1, <1>2, <1>3, BlankTypes DEF SaveSource, TypeOK

LEMMA NextTypes == TypeOK /\ [Next]_vars => TypeOK'
<1> SUFFICES ASSUME TypeOK, [Next]_vars PROVE TypeOK'
  OBVIOUS
<1>1. CASE EntityMoves
  <2>1. eligible' \in BOOLEAN
    BY <1>1 DEF EntityMoves
  <2> QED BY <1>1, <2>1 DEF EntityMoves, db, TypeOK
<1>2. ASSUME NEW w \in Workers, NEW op \in {"run", "edit", "accept"}, NEW s \in Stage,
             Begin(w, op, s)
      PROVE TypeOK'
  BY <1>2, BeginTypes
<1>3. ASSUME NEW w \in Workers, NEW valid \in BOOLEAN, Answer(w, valid) PROVE TypeOK'
  BY <1>3, AnswerTypes
<1>4. ASSUME NEW w \in Workers, Abandon(w) PROVE TypeOK'
  BY <1>4, FinishTypes DEF Abandon, db, TypeOK
<1>5. ASSUME NEW w \in Workers,
             Edit(w) \/ SaveRow(w) \/ ReplaceClauses(w) \/ Accept(w) \/ SaveSource(w)
      PROVE TypeOK'
  BY <1>5, EditTypes, SaveRowTypes, ReplaceClausesTypes, AcceptTypes, SaveSourceTypes
<1>6. CASE UNCHANGED vars
  BY <1>6 DEF vars, db, TypeOK
<1> QED BY <1>1, <1>2, <1>3, <1>4, <1>5, <1>6 DEF Next

-----------------------------------------------------------------------------
\* Most steps bring no output any further: rows keep or lose theirs, and a request that
\* moves is not on its way to a row.
Quiet ==
  /\ made' = made /\ attempts' = attempts
  /\ \A s \in Stage : rows'[s].out \in {rows[s].out, None}
  /\ \A v \in Workers : \/ req'[v] = req[v]
                        \/ req'[v].op # "save" /\ req'[v].out \in {req[v].out, None}

\* The others are a request that has made an output, and one that puts it in its row.
Makes(w, by, valid) ==
  /\ made' = made + 1
  /\ rows' = rows
  /\ \A v \in Workers \ {w} : req'[v] = req[v]
  /\ req'[w].op = "save" /\ req'[w].stage = req[w].stage
  /\ req'[w].out = Made(req[w], by, valid)

Stores(w) ==
  /\ made' = made /\ attempts' = attempts
  /\ req[w].op = "save" /\ req'[w].op # "save" /\ req'[w].out \in {req[w].out, None}
  /\ \A v \in Workers \ {w} : req'[v] = req[v]
  /\ \A s \in Stage : rows'[s].out = IF s = req[w].stage THEN req[w].out ELSE rows[s].out

LEMMA AnswerMakes == ASSUME TypeOK, NEW w \in Workers, NEW valid \in BOOLEAN, Answer(w, valid)
                     PROVE Makes(w, "model", valid)
<1> DEFINE r == [Idle EXCEPT !.op = "save", !.stage = req[w].stage,
                             !.out = Made(req[w], "model", valid)]
<1>1. made < MaxOut
  BY BoundAssumption DEF Answer, Bound, TypeOK
<1>2. r.op = "save" /\ r.stage = req[w].stage /\ r.out = Made(req[w], "model", valid)
  BY <1>1, SavingTypes
<1>3. req' = [req EXCEPT ![w] = r]
  BY DEF Answer, Saving
<1> HIDE DEF r
<1>4. req'[w] = r /\ \A v \in Workers \ {w} : req'[v] = req[v]
  BY <1>3 DEF TypeOK
<1> QED BY <1>2, <1>4 DEF Answer, Makes

LEMMA EditMakes == ASSUME TypeOK, NEW w \in Workers, Edit(w) PROVE Makes(w, "human", TRUE)
<1> DEFINE r == [Idle EXCEPT !.op = "save", !.stage = req[w].stage,
                             !.out = Made(req[w], "human", TRUE)]
<1>1. made < MaxOut
  BY BoundAssumption DEF Edit, Bound, TypeOK
<1>2. r.op = "save" /\ r.stage = req[w].stage /\ r.out = Made(req[w], "human", TRUE)
  BY <1>1, SavingTypes
<1>3. req' = [req EXCEPT ![w] = r]
  BY DEF Edit, Saving
<1> HIDE DEF r
<1>4. req'[w] = r /\ \A v \in Workers \ {w} : req'[v] = req[v]
  BY <1>3 DEF TypeOK
<1> QED BY <1>2, <1>4 DEF Edit, Makes, db

LEMMA SaveRowStores == ASSUME TypeOK, NEW w \in Workers, SaveRow(w) PROVE Stores(w)
<1>1. req[w].stage \in Stage /\ req[w] \in Request
  BY DEF TypeOK, Request
<1>2. \A s \in Stage : rows'[s].out = IF s = req[w].stage THEN req[w].out ELSE rows[s].out
  BY <1>1 DEF SaveRow, TypeOK
<1>3. CASE req[w].stage = "clause"
  <2>1. req' = [req EXCEPT ![w] = [req[w] EXCEPT !.op = "replace"]]
    BY <1>3 DEF SaveRow, TypeOK
  <2>2. req'[w].op = "replace" /\ req'[w].out = req[w].out
        /\ \A v \in Workers \ {w} : req'[v] = req[v]
    BY <1>1, <2>1 DEF TypeOK, Request
  <2> QED BY <1>2, <2>2 DEF SaveRow, Stores
<1>4. CASE req[w].stage # "clause"
  <2>1. Finish(w)
    BY <1>4 DEF SaveRow
  <2>2. req'[w] = Idle /\ \A v \in Workers \ {w} : req'[v] = req[v]
    BY <2>1, FinishTypes
  <2> QED BY <1>2, <2>2, IdleTypes DEF SaveRow, Stores
<1> QED BY <1>3, <1>4

LEMMA OthersQuiet ==
  ASSUME TypeOK, NEW w \in Workers,
         \/ \E op \in {"run", "edit", "accept"}, s \in Stage : Begin(w, op, s)
         \/ ReplaceClauses(w) \/ Accept(w) \/ SaveSource(w) \/ Abandon(w)
  PROVE Quiet
<1>1. CASE \E op \in {"run", "edit", "accept"}, s \in Stage : Begin(w, op, s)
  <2>1. req'[w].op # "save" /\ req'[w].out = None /\ \A v \in Workers \ {w} : req'[v] = req[v]
    BY <1>1 DEF Begin, TypeOK
  <2> QED BY <1>1, <2>1 DEF Begin, db, Quiet
<1>2. CASE ReplaceClauses(w) \/ Abandon(w)
  <2>1. req'[w] = Idle /\ \A v \in Workers \ {w} : req'[v] = req[v]
    BY <1>2, FinishTypes DEF ReplaceClauses, Abandon
  <2> QED BY <1>2, <2>1, IdleTypes DEF ReplaceClauses, Abandon, db, Quiet
<1>3. CASE Accept(w)
  <2>1. req'[w] = Idle /\ \A v \in Workers \ {w} : req'[v] = req[v]
    BY <1>3, FinishTypes DEF Accept
  <2>2. \A s \in Stage : rows'[s].out = rows[s].out
    BY <1>3 DEF Accept, TypeOK, Row, Request
  <2> QED BY <1>3, <2>1, <2>2, IdleTypes DEF Accept, Quiet
<1>4. CASE SaveSource(w)
  BY <1>4, BlankTypes DEF SaveSource, Quiet
<1> QED BY <1>1, <1>2, <1>3, <1>4

-----------------------------------------------------------------------------
\* Records.
LEMMA QuietRecords == ASSUME Recorded, Quiet PROVE Recorded'
<1>1. \A v \in Workers : req'[v].op = "save" => req'[v] = req[v]
  BY DEF Quiet
<1>2. \A s \in Stage : rows'[s].out \in {rows[s].out, None}
  BY DEF Quiet
<1> QED BY <1>1, <1>2 DEF Quiet, Recorded, AttemptsPrecedeRows

LEMMA StoresRecords == ASSUME TypeOK, Recorded, NEW w \in Workers, Stores(w) PROVE Recorded'
<1>1. \A v \in Workers : req'[v].op = "save" => req'[v] = req[v]
  BY DEF Stores
<1> QED BY <1>1 DEF Stores, Recorded, AttemptsPrecedeRows

LEMMA AnswerRecords == ASSUME TypeOK, Recorded, NEW w \in Workers,
                              NEW valid \in BOOLEAN, Answer(w, valid)
                       PROVE Recorded'
<1>1. Makes(w, "model", valid)
  BY AnswerMakes
<1>2. req'[w].out.id = made + 1
  BY <1>1 DEF Makes, Made
<1>3. attempts \subseteq attempts' /\ (req[w].stage # "clause" => made + 1 \in attempts')
  BY DEF Answer
<1> QED BY <1>1, <1>2, <1>3 DEF Makes, Recorded, AttemptsPrecedeRows

LEMMA EditRecords == ASSUME TypeOK, Recorded, NEW w \in Workers, Edit(w) PROVE Recorded'
<1>1. Makes(w, "human", TRUE)
  BY EditMakes
<1>2. req'[w].out.by = "human"
  BY <1>1 DEF Makes, Made
<1>3. attempts' = attempts
  BY DEF Edit, db
<1> QED BY <1>1, <1>2, <1>3 DEF Makes, Recorded, AttemptsPrecedeRows

LEMMA InitRecorded == Init => Recorded
<1> SUFFICES ASSUME Init PROVE Recorded
  OBVIOUS
<1>1. \A s \in Stage : rows[s].out = None
  BY BlankTypes DEF Init
<1>2. \A w \in Workers : req[w].op # "save"
  BY IdleTypes DEF Init
<1> QED BY <1>1, <1>2 DEF Recorded, AttemptsPrecedeRows

LEMMA NextRecorded == TypeOK /\ Recorded /\ [Next]_vars => Recorded'
<1> SUFFICES ASSUME TypeOK, Recorded, [Next]_vars PROVE Recorded'
  OBVIOUS
<1>1. CASE EntityMoves \/ UNCHANGED vars
  BY <1>1, QuietRecords DEF EntityMoves, vars, db, Quiet
<1>2. ASSUME NEW w \in Workers,
             \/ \E op \in {"run", "edit", "accept"}, s \in Stage : Begin(w, op, s)
             \/ ReplaceClauses(w) \/ Accept(w) \/ SaveSource(w) \/ Abandon(w)
      PROVE Recorded'
  BY <1>2, OthersQuiet, QuietRecords
<1>3. ASSUME NEW w \in Workers, NEW valid \in BOOLEAN, Answer(w, valid) PROVE Recorded'
  BY <1>3, AnswerRecords
<1>4. ASSUME NEW w \in Workers, Edit(w) PROVE Recorded'
  BY <1>4, EditRecords
<1>5. ASSUME NEW w \in Workers, SaveRow(w) PROVE Recorded'
  BY <1>5, SaveRowStores, StoresRecords
<1> QED BY <1>1, <1>2, <1>3, <1>4, <1>5 DEF Next

-----------------------------------------------------------------------------
\* While no two requests have overlapped, one request at most is under way; what it holds
\* was made from the text as it is, and the rows it goes on to use are as it read them.
Single == \A v, w \in Workers : req[v] # Idle /\ req[w] # Idle => v = w

Current ==
  /\ \A s \in Stage : rows[s].out # None => rows[s].out.text = source
  /\ clauses.text = source
  /\ \A w \in Workers :
       /\ req[w].op \in {"run", "edit", "accept"} => req[w].text = source
       /\ req[w].op \in {"save", "replace"} => req[w].out.text = source

Accepted(row) == row.status = "accepted" => row.out # None /\ row.out.id \in decided
FromReviewed(s, out) == s \in {"occurrence", "assembler"} /\ out # None /\ out.by = "model"
                   => out.base \in decided

Reviewed ==
  /\ \A s \in Stage : Accepted(rows[s]) /\ FromReviewed(s, rows[s].out)
  /\ \A w \in Workers :
       /\ \A s \in Stage : Accepted(req[w].seen[s])
       /\ req[w].op = "save" => FromReviewed(req[w].stage, req[w].out)
       /\ req[w].op = "accept" => rows[req[w].stage] = req[w].seen[req[w].stage]

Undisturbed == overlap = TRUE \/ (Single /\ Current /\ Reviewed)

LEMMA InitUndisturbed == Init => Undisturbed
<1> SUFFICES ASSUME Init PROVE Undisturbed
  OBVIOUS
<1>1. \A s \in Stage : rows[s].out = None /\ rows[s].status = "not_started"
  BY BlankTypes DEF Init
<1>2. \A w \in Workers : req[w] = Idle
  BY DEF Init
<1>3. Single
  BY <1>2 DEF Single
<1>4. Current
  BY <1>1, <1>2, IdleTypes DEF Init, Current
<1>5. Reviewed
  BY <1>1, <1>2, IdleTypes DEF Reviewed, Accepted, FromReviewed
<1> QED BY <1>3, <1>4, <1>5 DEF Undisturbed

\* Only Begin and SaveSource change overlap, and they leave it FALSE only when nobody else
\* is under way.
LEMMA AloneWhenQuiet == ASSUME TypeOK, NEW w \in Workers, Overlaps(w), overlap' # TRUE
                        PROVE overlap = FALSE /\ \A v \in Workers \ {w} : req[v] = Idle
  BY DEF Overlaps, TypeOK

LEMMA BeginUndisturbed ==
  ASSUME TypeOK, Undisturbed, NEW w \in Workers, NEW op \in {"run", "edit", "accept"},
         NEW stage \in Stage, Begin(w, op, stage)
  PROVE Undisturbed'
<1> SUFFICES ASSUME overlap' # TRUE PROVE (Single /\ Current /\ Reviewed)'
  BY DEF Undisturbed
<1>1. \A v \in Workers \ {w} : req[v] = Idle
  BY AloneWhenQuiet DEF Begin
<1>2. Single /\ Current /\ Reviewed
  BY AloneWhenQuiet DEF Begin, Undisturbed
<1>3. /\ req'[w].op = op /\ req'[w].stage = stage /\ req'[w].text = source
      /\ req'[w].seen = [s \in Stage |-> IF s \in Uses(op, stage) THEN rows[s] ELSE Blank]
      /\ \A v \in Workers \ {w} : req'[v] = req[v]
  BY DEF Begin, TypeOK
<1>4. \A s \in Stage : req'[w].seen[s] = IF s \in Uses(op, stage) THEN rows[s] ELSE Blank
  BY <1>3
<1>5. op = "accept" => req'[w].seen[stage] = rows[stage]
  BY <1>4 DEF Uses
<1>6. UNCHANGED <<source, rows, clauses, decided>>
  BY DEF Begin, db
<1>7. Single'
  BY <1>1, <1>3 DEF Single
<1>8. Current'
  BY <1>2, <1>3, <1>6 DEF Current
<1>9. Reviewed'
  BY <1>2, <1>3, <1>4, <1>5, <1>6, BlankTypes DEF Reviewed, Accepted, FromReviewed
<1> QED BY <1>7, <1>8, <1>9

\* The request that is under way is the only one.
LEMMA OthersIdle == ASSUME Single, NEW w \in Workers, req[w].op # "idle"
                    PROVE \A v \in Workers \ {w} : req[v] = Idle
  BY IdleTypes DEF Single

LEMMA MakesUndisturbed ==
  ASSUME TypeOK, Single, Current, Reviewed, NEW w \in Workers, NEW by, NEW valid,
         req[w].op \in {"run", "edit"}, Makes(w, by, valid),
         UNCHANGED <<source, clauses, decided>>,
         FromReviewed(req[w].stage, Made(req[w], by, valid)),
         \A s \in Stage : req'[w].seen[s].status = "not_started"
  PROVE (Single /\ Current /\ Reviewed)'
<1>1. \A v \in Workers \ {w} : req'[v] = Idle
  BY OthersIdle DEF Makes
<1>2. req'[w].out.text = source
  BY DEF Makes, Made, Current
<1>3. Single'
  BY <1>1 DEF Single
<1>4. Current'
  BY <1>1, <1>2, IdleTypes DEF Makes, Current
<1>5. FromReviewed(req[w].stage, req[w].out)'
  BY DEF Makes, FromReviewed
<1>6. Reviewed'
  BY <1>1, <1>5, IdleTypes DEF Makes, Reviewed, Accepted, FromReviewed
<1> QED BY <1>3, <1>4, <1>6

\* What a ready request makes something from was accepted.
LEMMA ReadyReviewed == ASSUME TypeOK, Reviewed, NEW w \in Workers, NEW valid, Ready(req[w])
                       PROVE FromReviewed(req[w].stage, Made(req[w], "model", valid))
<1>1. \A s \in Stage : Accepted(req[w].seen[s])
  BY DEF Reviewed
<1>2. "clause" \in Stage /\ "occurrence" \in Stage
  BY DEF Stage
<1>3. CASE req[w].stage = "occurrence"
  <2>1. req[w].seen["clause"].out # None /\ req[w].seen["clause"].out.id \in decided
    BY <1>1, <1>2, <1>3 DEF Ready, Accepted
  <2>2. BaseOf(req[w]) = req[w].seen["clause"].out.id
    BY <1>3, <2>1 DEF BaseOf
  <2> QED BY <2>1, <2>2 DEF FromReviewed, Made
<1>4. CASE req[w].stage = "assembler"
  <2>1. req[w].seen["occurrence"].out # None /\ req[w].seen["occurrence"].out.id \in decided
    BY <1>1, <1>2, <1>4 DEF Ready, Accepted
  <2>2. BaseOf(req[w]) = req[w].seen["occurrence"].out.id
    BY <1>4, <2>1 DEF BaseOf
  <2> QED BY <2>1, <2>2 DEF FromReviewed, Made
<1> QED BY <1>3, <1>4 DEF FromReviewed

LEMMA SavingSees == ASSUME TypeOK, made < MaxOut, NEW w \in Workers,
                           NEW by \in {"model", "human"}, NEW valid \in BOOLEAN,
                           Saving(w, by, valid)
                    PROVE \A s \in Stage : req'[w].seen[s].status = "not_started"
<1> DEFINE r == [Idle EXCEPT !.op = "save", !.stage = req[w].stage,
                             !.out = Made(req[w], by, valid)]
<1>1. \A s \in Stage : r.seen[s].status = "not_started"
  BY SavingTypes
<1>2. req' = [req EXCEPT ![w] = r]
  BY DEF Saving
<1> HIDE DEF r
<1>3. req'[w] = r
  BY <1>2 DEF TypeOK
<1> QED BY <1>1, <1>3

LEMMA AnswerUndisturbed == ASSUME TypeOK, Undisturbed, NEW w \in Workers,
                                  NEW valid \in BOOLEAN, Answer(w, valid)
                           PROVE Undisturbed'
<1> SUFFICES ASSUME overlap # TRUE PROVE (Single /\ Current /\ Reviewed)'
  BY DEF Undisturbed, Answer
<1>1. Single /\ Current /\ Reviewed
  BY DEF Undisturbed
<1>2. made < MaxOut
  BY BoundAssumption DEF Answer, Bound, TypeOK
<1>3. \A s \in Stage : req'[w].seen[s].status = "not_started"
  BY <1>2, SavingSees DEF Answer
<1>4. FromReviewed(req[w].stage, Made(req[w], "model", valid))
  BY <1>1, ReadyReviewed DEF Answer
<1>5. Makes(w, "model", valid)
  BY AnswerMakes
<1> QED BY <1>1, <1>3, <1>4, <1>5, MakesUndisturbed DEF Answer

LEMMA EditUndisturbed == ASSUME TypeOK, Undisturbed, NEW w \in Workers, Edit(w)
                         PROVE Undisturbed'
<1> SUFFICES ASSUME overlap # TRUE PROVE (Single /\ Current /\ Reviewed)'
  BY DEF Undisturbed, Edit
<1>1. Single /\ Current /\ Reviewed
  BY DEF Undisturbed
<1>2. made < MaxOut
  BY BoundAssumption DEF Edit, Bound, TypeOK
<1>3. \A s \in Stage : req'[w].seen[s].status = "not_started"
  BY <1>2, SavingSees DEF Edit
<1>4. PICK valid \in BOOLEAN : Makes(w, "human", valid)
  BY EditMakes
<1>5. FromReviewed(req[w].stage, Made(req[w], "human", valid))
  BY DEF FromReviewed, Made
<1>6. UNCHANGED <<source, clauses, decided>> /\ req[w].op \in {"run", "edit"}
  BY DEF Edit, db
<1> QED BY <1>1, <1>3, <1>4, <1>5, <1>6, MakesUndisturbed

LEMMA SaveRowUndisturbed == ASSUME TypeOK, Undisturbed, NEW w \in Workers, SaveRow(w)
                            PROVE Undisturbed'
<1> SUFFICES ASSUME overlap # TRUE PROVE (Single /\ Current /\ Reviewed)'
  BY DEF Undisturbed, SaveRow
<1>1. Single /\ Current /\ Reviewed
  BY DEF Undisturbed
<1>2. req[w].op = "save" /\ req[w].stage \in Stage
  BY DEF SaveRow, TypeOK, Request
<1>3. \A v \in Workers \ {w} : req'[v] = Idle
  BY <1>1, <1>2, OthersIdle, SaveRowStores DEF Stores
<1>4. \A s \in Stage : rows'[s] = IF s = req[w].stage
                                    THEN [status |-> "checking", out |-> req[w].out] ELSE rows[s]
  BY <1>2 DEF SaveRow, TypeOK
<1>5. \/ req'[w].op = "replace" /\ req'[w].out = req[w].out /\ req'[w].seen = req[w].seen
      \/ req'[w] = Idle
  BY FinishTypes DEF SaveRow, TypeOK, Request
<1>6. UNCHANGED <<source, clauses, decided>>
  BY DEF SaveRow
<1>7. Single'
  BY <1>3 DEF Single
<1>8. Current'
  BY <1>1, <1>2, <1>3, <1>4, <1>5, <1>6, IdleTypes DEF Current
<1>9. \A s \in Stage : Accepted(rows[s])' /\ FromReviewed(s, rows[s].out)'
  BY <1>1, <1>2, <1>4, <1>6 DEF Reviewed, Accepted, FromReviewed
<1>10. Reviewed'
  BY <1>1, <1>3, <1>5, <1>6, <1>9, IdleTypes DEF Reviewed, Accepted, FromReviewed
<1> QED BY <1>7, <1>8, <1>10

LEMMA ReplaceClausesUndisturbed == ASSUME TypeOK, Undisturbed, NEW w \in Workers,
                                          ReplaceClauses(w)
                                   PROVE Undisturbed'
<1> SUFFICES ASSUME overlap # TRUE PROVE (Single /\ Current /\ Reviewed)'
  BY DEF Undisturbed, ReplaceClauses
<1>1. Single /\ Current /\ Reviewed
  BY DEF Undisturbed
<1>2. \A v \in Workers : req'[v] = Idle
  BY <1>1, OthersIdle, FinishTypes DEF ReplaceClauses
<1>3. clauses'.text = source
  BY <1>1 DEF ReplaceClauses, Current
<1> QED BY <1>1, <1>2, <1>3, IdleTypes
        DEF ReplaceClauses, Single, Current, Reviewed, Accepted, FromReviewed

LEMMA AcceptUndisturbed == ASSUME TypeOK, Undisturbed, NEW w \in Workers, Accept(w)
                           PROVE Undisturbed'
<1> SUFFICES ASSUME overlap # TRUE PROVE (Single /\ Current /\ Reviewed)'
  BY DEF Undisturbed, Accept
<1> DEFINE s == req[w].stage
<1>1. Single /\ Current /\ Reviewed
  BY DEF Undisturbed
<1>2. s \in Stage /\ rows[s] = req[w].seen[s] /\ rows[s].status = "checking"
  BY <1>1 DEF Accept, TypeOK, Request, Reviewed
<1>3. \A v \in Workers : req'[v] = Idle
  BY <1>1, OthersIdle, FinishTypes DEF Accept
<1>4. rows[s].out # None /\ rows[s].out.id \in decided' /\ decided \subseteq decided'
  BY <1>2 DEF Accept, TypeOK
<1>5. \A t \in Stage : /\ rows'[t].out = rows[t].out
                       /\ t # s => rows'[t] = rows[t]
  BY <1>2 DEF Accept, TypeOK, Row
<1>6. \A t \in Stage : Accepted(rows[t])' /\ FromReviewed(t, rows[t].out)'
  BY <1>1, <1>4, <1>5 DEF Reviewed, Accepted, FromReviewed
<1>7. Reviewed'
  BY <1>3, <1>6, IdleTypes DEF Reviewed, Accepted
<1>8. Current'
  BY <1>1, <1>3, <1>5, IdleTypes DEF Accept, Current
<1> QED BY <1>3, <1>7, <1>8 DEF Single

LEMMA SaveSourceUndisturbed == ASSUME TypeOK, Undisturbed, NEW w \in Workers, SaveSource(w)
                               PROVE Undisturbed'
<1> SUFFICES ASSUME overlap' # TRUE PROVE (Single /\ Current /\ Reviewed)'
  BY DEF Undisturbed
<1>1. \A v \in Workers : req'[v] = Idle
  BY AloneWhenQuiet DEF SaveSource
<1>2. \A s \in Stage : rows'[s] = Blank
  BY DEF SaveSource
<1>3. clauses'.text = source'
  BY DEF SaveSource
<1> QED BY <1>1, <1>2, <1>3, BlankTypes, IdleTypes
        DEF Single, Current, Reviewed, Accepted, FromReviewed

LEMMA AbandonUndisturbed == ASSUME TypeOK, Undisturbed, NEW w \in Workers, Abandon(w)
                            PROVE Undisturbed'
<1> SUFFICES ASSUME overlap # TRUE PROVE (Single /\ Current /\ Reviewed)'
  BY DEF Undisturbed, Abandon
<1>1. Single /\ Current /\ Reviewed
  BY DEF Undisturbed
<1>2. \A v \in Workers : req'[v] = IF v = w THEN Idle ELSE req[v]
  BY FinishTypes DEF Abandon
<1> QED BY <1>1, <1>2, IdleTypes
        DEF Abandon, db, Single, Current, Reviewed, Accepted, FromReviewed

LEMMA NextUndisturbed == TypeOK /\ Undisturbed /\ [Next]_vars => Undisturbed'
<1> SUFFICES ASSUME TypeOK, Undisturbed, [Next]_vars PROVE Undisturbed'
  OBVIOUS
<1>1. CASE EntityMoves \/ UNCHANGED vars
  BY <1>1 DEF EntityMoves, vars, db, Undisturbed, Single, Current, Reviewed, Accepted,
              FromReviewed
<1>2. ASSUME NEW w \in Workers, NEW op \in {"run", "edit", "accept"}, NEW s \in Stage,
             Begin(w, op, s)
      PROVE Undisturbed'
  BY <1>2, BeginUndisturbed
<1>3. ASSUME NEW w \in Workers, NEW valid \in BOOLEAN, Answer(w, valid) PROVE Undisturbed'
  BY <1>3, AnswerUndisturbed
<1>4. ASSUME NEW w \in Workers,
             \/ Edit(w) \/ SaveRow(w) \/ ReplaceClauses(w)
             \/ Accept(w) \/ SaveSource(w) \/ Abandon(w)
      PROVE Undisturbed'
  BY <1>4, EditUndisturbed, SaveRowUndisturbed, ReplaceClausesUndisturbed,
     AcceptUndisturbed, SaveSourceUndisturbed, AbandonUndisturbed
<1> QED BY <1>1, <1>2, <1>3, <1>4 DEF Next

-----------------------------------------------------------------------------
\* While no two requests have overlapped, a request that is between its two writes has put
\* in the clause row what it is about to put in the clause table; while none is, and none
\* has died there, the two hold the same.
Fits ==
  /\ \A w \in Workers : req[w].op = "replace" => req[w].out = rows["clause"].out
  /\ torn = FALSE /\ (\A w \in Workers : req[w].op # "replace") =>
       clauses.id = OutputId(rows["clause"].out)

Fitting == overlap = TRUE \/ Fits

LEMMA InitFitting == Init => Fitting
<1> SUFFICES ASSUME Init PROVE Fits
  BY DEF Fitting
<1>1. "clause" \in Stage
  BY DEF Stage
<1> QED BY <1>1, BlankTypes, IdleTypes DEF Init, Fits, OutputId

LEMMA NextFitting == TypeOK /\ Undisturbed /\ Fitting /\ [Next]_vars => Fitting'
<1> SUFFICES ASSUME TypeOK, Undisturbed, Fitting, [Next]_vars, overlap' # TRUE PROVE Fits'
  BY DEF Fitting
<1>c. "clause" \in Stage
  BY DEF Stage
<1>1. CASE EntityMoves \/ UNCHANGED vars
  BY <1>1 DEF EntityMoves, vars, db, Fitting, Fits
\* A request that begins, or a reset, is alone.
<1>2. ASSUME NEW w \in Workers, NEW op \in {"run", "edit", "accept"}, NEW s \in Stage,
             Begin(w, op, s)
      PROVE Fits'
  <2>a. Overlaps(w) /\ req[w] = Idle
    BY <1>2 DEF Begin
  <2>b. overlap = FALSE /\ \A v \in Workers \ {w} : req[v] = Idle
    BY <2>a, AloneWhenQuiet
  <2>1. Fits /\ \A v \in Workers : req[v] = Idle
    BY <2>a, <2>b DEF Fitting
  <2>2. \A v \in Workers : req'[v].op # "replace"
    BY <1>2, <2>1, IdleTypes DEF Begin, TypeOK
  <2> QED BY <1>2, <2>1, <2>2, IdleTypes DEF Begin, db, Fits
<1>3. ASSUME NEW w \in Workers, SaveSource(w) PROVE Fits'
  <2>1. \A v \in Workers : req'[v] = Idle
    BY <1>3, AloneWhenQuiet DEF SaveSource
  <2>2. rows'["clause"] = Blank /\ clauses'.id = 0
    BY <1>3, <1>c DEF SaveSource
  <2> QED BY <2>1, <2>2, IdleTypes, BlankTypes DEF Fits, OutputId
\* The others find it alone.
<1>4. ASSUME NEW w \in Workers, overlap = FALSE, req[w].op # "idle"
      PROVE Fits /\ \A v \in Workers \ {w} : req[v] = Idle
  BY <1>4, OthersIdle DEF Undisturbed, Fitting
<1>5. ASSUME NEW w \in Workers, NEW by \in {"model", "human"}, NEW valid \in BOOLEAN,
             Makes(w, by, valid), req[w].op \in {"run", "edit"}, overlap = FALSE,
             UNCHANGED <<clauses, torn>>
      PROVE Fits'
  <2>1. Fits /\ \A v \in Workers \ {w} : req[v] = Idle
    BY <1>4, <1>5
  <2>2. \A v \in Workers : req[v].op # "replace" /\ req'[v].op # "replace"
    BY <1>5, <2>1, IdleTypes DEF Makes
  <2> QED BY <1>5, <2>1, <2>2 DEF Makes, Fits
<1>6. ASSUME NEW w \in Workers, NEW valid \in BOOLEAN, Answer(w, valid) PROVE Fits'
  BY <1>5, <1>6, AnswerMakes DEF Answer, TypeOK
<1>7. ASSUME NEW w \in Workers, Edit(w) PROVE Fits'
  BY <1>5, <1>7, EditMakes DEF Edit, db, TypeOK
<1>8. ASSUME NEW w \in Workers, SaveRow(w) PROVE Fits'
  <2>1. overlap = FALSE /\ req[w].op = "save" /\ req[w].stage \in Stage
    BY <1>8 DEF SaveRow, TypeOK, Request
  <2>2. Fits /\ \A v \in Workers \ {w} : req[v] = Idle
    BY <1>4, <2>1
  <2>3. \A v \in Workers : req[v].op # "replace"
    BY <2>1, <2>2, IdleTypes
  <2>4. \A v \in Workers \ {w} : req'[v] = Idle
    BY <1>8, <2>2, SaveRowStores DEF Stores
  <2>5. CASE req[w].stage = "clause"
    <3>1. req'[w].op = "replace" /\ req'[w].out = req[w].out
      BY <1>8, <2>5 DEF SaveRow, TypeOK, Request
    <3>2. rows'["clause"].out = req[w].out
      BY <1>8, <2>5, <1>c DEF SaveRow, TypeOK
    <3> QED BY <2>4, <3>1, <3>2, IdleTypes DEF Fits
  <2>6. CASE req[w].stage # "clause"
    <3>1. req'[w] = Idle
      BY <1>8, <2>6, FinishTypes DEF SaveRow
    <3>2. rows'["clause"] = rows["clause"] /\ UNCHANGED <<clauses, torn>>
      BY <1>8, <2>6, <1>c DEF SaveRow, TypeOK
    <3> QED BY <2>2, <2>3, <2>4, <3>1, <3>2, IdleTypes DEF Fits
  <2> QED BY <2>5, <2>6
<1>9. ASSUME NEW w \in Workers, ReplaceClauses(w) PROVE Fits'
  <2>1. overlap = FALSE /\ req[w].op = "replace" /\ req[w].out # None
    BY <1>9 DEF ReplaceClauses, TypeOK
  <2>2. Fits /\ \A v \in Workers \ {w} : req[v] = Idle
    BY <1>4, <2>1
  <2>3. \A v \in Workers : req'[v] = Idle
    BY <1>9, <2>2, FinishTypes DEF ReplaceClauses
  <2>4. clauses'.id = OutputId(rows["clause"].out) /\ rows' = rows
    BY <1>9, <2>1, <2>2 DEF ReplaceClauses, Fits, OutputId
  <2> QED BY <2>3, <2>4, IdleTypes DEF Fits
<1>10. ASSUME NEW w \in Workers, Accept(w) PROVE Fits'
  <2>1. overlap = FALSE /\ req[w].op = "accept"
    BY <1>10 DEF Accept, TypeOK
  <2>2. Fits /\ \A v \in Workers \ {w} : req[v] = Idle
    BY <1>4, <2>1
  <2>3. \A v \in Workers : req[v].op # "replace" /\ req'[v] = Idle
    BY <1>10, <2>1, <2>2, FinishTypes, IdleTypes DEF Accept
  <2>4. rows'["clause"].out = rows["clause"].out /\ UNCHANGED <<clauses, torn>>
    BY <1>10, <1>c DEF Accept, TypeOK, Row
  <2> QED BY <2>2, <2>3, <2>4, IdleTypes DEF Fits
<1>11. ASSUME NEW w \in Workers, Abandon(w) PROVE Fits'
  <2>1. overlap = FALSE /\ req[w] # Idle
    BY <1>11 DEF Abandon, TypeOK
  <2>2. Fits /\ \A v \in Workers \ {w} : req[v] = Idle
    BY <2>1 DEF Undisturbed, Fitting, Single
  <2>3. \A v \in Workers : req'[v] = Idle
    BY <1>11, <2>2, FinishTypes DEF Abandon
  <2>4. torn' = FALSE => torn = FALSE /\ \A v \in Workers : req[v].op # "replace"
    BY <1>11, <2>2, IdleTypes DEF Abandon, TypeOK
  <2>5. UNCHANGED <<rows, clauses>>
    BY <1>11 DEF Abandon, db
  <2> QED BY <2>2, <2>3, <2>4, <2>5, IdleTypes DEF Fits
<1> QED BY <1>1, <1>2, <1>3, <1>6, <1>7, <1>8, <1>9, <1>10, <1>11 DEF Next

-----------------------------------------------------------------------------
IInv == TypeOK /\ Recorded /\ Undisturbed /\ Fitting

LEMMA IInvAlways == Spec => []IInv
<1>1. Init => IInv
  BY InitTypes, InitRecorded, InitUndisturbed, InitFitting DEF IInv
<1>2. IInv /\ [Next]_vars => IInv'
  BY NextTypes, NextRecorded, NextUndisturbed, NextFitting DEF IInv
<1> QED BY <1>1, <1>2, PTL DEF Spec

\* Rows, clauses, attempts and requests hold values of their kinds (StageOutput, Clause and
\* StageExecutionAttempt, models.py:45-87).
THEOREM StageTypes == Spec => []TypeOK
<1>1. IInv => TypeOK
  BY DEF IInv
<1> QED BY <1>1, IInvAlways, PTL

\* However requests overlap and die, a model's output is in its row only after its attempt
\* was recorded (live_workflow.py:560-583).
THEOREM StageAttemptsPrecedeRows == Spec => []AttemptsPrecedeRows
<1>1. IInv => AttemptsPrecedeRows
  BY DEF IInv, Recorded
<1> QED BY <1>1, IInvAlways, PTL

\* While no two requests overlap, the clause table holds what the clause row does, but for a
\* request that is between the two writes or died there, until either is written again
\* (live_workflow.py:87-95, 479-480).
THEOREM StageClausesFitRow == Spec => []ClausesFitRow
<1>1. IInv => ClausesFitRow
  BY DEF IInv, TypeOK, Fitting, Fits, ClausesFitRow
<1> QED BY <1>1, IInvAlways, PTL

\* While no two requests overlap, all that the page shows was made from the text it shows
\* (live_views.py:145).
THEOREM StageUsesSource == Spec => []UsesSource
<1>1. IInv => UsesSource
  BY DEF IInv, Undisturbed, Current, UsesSource
<1> QED BY <1>1, IInvAlways, PTL

\* While no two requests overlap, what the model made occurrences or a tagset from had been
\* accepted (docs/AERITH_INTEGRATION_GUIDE.md:24).
THEOREM StageReviewedInputs == Spec => []ReviewedInputs
<1>1. IInv => ReviewedInputs
  BY DEF IInv, Undisturbed, Reviewed, FromReviewed, ReviewedInputs, Stage
<1> QED BY <1>1, IInvAlways, PTL

\* While no two requests overlap, an accepted row shows an output that was accepted
\* (live_workflow.py:407-417).
THEOREM StageAcceptedWasReviewed == Spec => []AcceptedWasReviewed
<1>1. IInv => AcceptedWasReviewed
  BY DEF IInv, Undisturbed, Reviewed, Accepted, AcceptedWasReviewed
<1> QED BY <1>1, IInvAlways, PTL
=============================================================================
