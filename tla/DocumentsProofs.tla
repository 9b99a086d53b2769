---------------------------- MODULE DocumentsProofs ----------------------------
(***************************************************************************)
(* Proofs about the components of MCDocuments, for every value of its      *)
(* constants: the closure of a selection, the registry behind its API, the *)
(* export package, the clause row, and what the theorems of the file store *)
(* and of controlled generation say of the composition.                    *)
(***************************************************************************)
EXTENDS MCDocuments, TLAPS

-----------------------------------------------------------------------------
(* The closure: the loop computes the least closed set around a selection, *)
(* in whatever order the worklist is popped.                               *)

\* A stage that has left the worklist has all it requires in the result, and nothing
\* selected is ever dropped.
Explored == selected \subseteq Stages =>
              /\ selected \subseteq expanded
              /\ \A s \in expanded \ pending : Requires[s] \subseteq expanded

IInv == TypeOK /\ NothingExtra /\ Explored /\ ReturnsClosed

LEMMA InitIInv == Init => IInv
  BY StagesAssumption DEF Init, IInv, TypeOK, NothingExtra, Explored, ReturnsClosed, Results

LEMMA PopIInv == ASSUME IInv, NEW s \in Stages, Pop(s) PROVE IInv'
<1>1. Requires[s] \subseteq Stages
  BY RequiresAssumption
<1>2. TypeOK'
  BY <1>1 DEF Pop, Go, IInv, TypeOK
<1>3. NothingExtra'
  <2> SUFFICES ASSUME NEW C \in SUBSET Stages, selected \subseteq C, Closed(C)
               PROVE expanded' \subseteq C
    BY DEF Pop, Go, NothingExtra, Closed
  <2>1. expanded \subseteq C
    BY DEF Pop, Go, IInv, NothingExtra
  <2>2. s \in C
    BY <2>1 DEF Pop, Go, IInv, TypeOK
  <2> QED BY <2>1, <2>2 DEF Pop, Closed
<1>4. Explored'
  BY DEF Pop, Go, IInv, Explored
<1>5. ReturnsClosed'
  BY DEF Pop, Go, ReturnsClosed
<1> QED BY <1>2, <1>3, <1>4, <1>5 DEF IInv

LEMMA ReturnIInv == ASSUME IInv, Return PROVE IInv'
<1>1. TypeOK' /\ Explored'
  BY DEF Return, Go, IInv, TypeOK, Explored, Results
<1>2. NothingExtra'
  BY DEF Return, IInv, NothingExtra, Closed
<1>3. selected \subseteq expanded /\ Closed(expanded)
  BY DEF Return, Go, IInv, Explored, Closed
<1>4. ReturnsClosed'
  BY <1>3 DEF Return, ReturnsClosed, Closed
<1> QED BY <1>1, <1>2, <1>4 DEF IInv

LEMMA StepIInv == IInv /\ [Next]_vars => IInv'
<1> SUFFICES ASSUME IInv, [Next]_vars PROVE IInv'
  OBVIOUS
<1>1. CASE Refuse
  BY <1>1 DEF Refuse, IInv, TypeOK, NothingExtra, Explored, ReturnsClosed, Results, Closed
<1>2. CASE Return
  BY <1>2, ReturnIInv
<1>3. CASE \E s \in Stages : Pop(s)
  BY <1>3, PopIInv
<1>4. CASE UNCHANGED vars
  BY <1>4 DEF vars, IInv, TypeOK, NothingExtra, Explored, ReturnsClosed, Closed
<1> QED BY <1>1, <1>2, <1>3, <1>4 DEF Next

LEMMA Inductive == Spec => []IInv
  BY InitIInv, StepIInv, PTL DEF Spec

\* The worklist and the result hold stages, and nothing waits that is not in the
\* result (stage_config.py:157-164).
THEOREM ClosureTypes == Spec => []TypeOK
<1>1. IInv => TypeOK
  BY DEF IInv
<1> QED BY Inductive, <1>1, PTL

\* The loop returns the smallest closed set around the selection: nothing required is
\* missing, and nothing is in it at any time that some closed set around the selection
\* does without (stage_config.py:152-165).
THEOREM ClosureSmallest == Spec => []ReturnsSmallest
<1>1. IInv => ReturnsSmallest
  BY DEF IInv, ReturnsSmallest
<1> QED BY Inductive, <1>1, PTL

-----------------------------------------------------------------------------
(* The registry behind its API: a revoked token stays revoked, and of the   *)
(* creates of one key one is let in, whose row stands until it is deleted.  *)

TokenRow == [owner : Users, used : BOOLEAN, revoked : BOOLEAN]
RequestStages == {"auth", "touch", "look", "commit", "refresh", "done"}
Sent == [op : {"create", "delete"}, token : Tokens, row : Api!Rows, stage : RequestStages,
         read : TokenRow \cup {None}, answer : Nat, waiting : BOOLEAN]

\* None is what a token's row is not.
NoneApart == None \notin TokenRow

ApiTypeOK == /\ tokens \in [Tokens -> TokenRow \cup {None}]
             /\ apiReq \in [Two -> Sent \cup {Api!Unsent}]

\* A request that has authenticated has a token that exists.
TouchesToken == \A r \in Two : apiReq[r].stage = "touch" => tokens[apiReq[r].token] # None

ApiInv == NoneApart /\ ApiTypeOK /\ TouchesToken /\ Api!CreatesStand

-----------------------------------------------------------------------------
LEMMA UnderWaySent == ASSUME ApiTypeOK, NEW r \in Two, apiReq[r].stage # "unsent"
                      PROVE apiReq[r] \in Sent
  BY DEF ApiTypeOK, Api!Unsent

\* What a step on one request leaves of the others.
LEMMA RequestMoves ==
  ASSUME ApiTypeOK, NEW r \in Two, NEW j \in Sent, apiReq' = [apiReq EXCEPT ![r] = j]
  PROVE /\ apiReq' \in [Two -> Sent \cup {Api!Unsent}]
        /\ apiReq'[r] = j /\ \A p \in Two \ {r} : apiReq'[p] = apiReq[p]
  BY DEF ApiTypeOK

\* An answer ends a request.
LEMMA AnswerMoves ==
  ASSUME ApiTypeOK, NEW r \in Two, NEW code \in Nat, apiReq[r].stage # "unsent",
         apiReq' = Api!Answer(r, code)
  PROVE /\ apiReq' \in [Two -> Sent \cup {Api!Unsent}]
        /\ apiReq'[r].stage = "done" /\ apiReq'[r].answer = code
        /\ apiReq'[r].op = apiReq[r].op /\ apiReq'[r].row = apiReq[r].row
        /\ \A p \in Two \ {r} : apiReq'[p] = apiReq[p]
<1> DEFINE j == [apiReq[r] EXCEPT !.stage = "done", !.answer = code]
<1>1. apiReq[r] \in Sent
  BY UnderWaySent
<1>2. j \in Sent
  BY <1>1 DEF Sent, RequestStages
<1>3. j.stage = "done" /\ j.answer = code /\ j.op = apiReq[r].op /\ j.row = apiReq[r].row
  BY <1>1 DEF Sent
<1>4. apiReq' = [apiReq EXCEPT ![r] = j]
  BY DEF Api!Answer, ApiTypeOK
<1> HIDE DEF j
<1> QED BY <1>2, <1>3, <1>4, RequestMoves

\* A request goes on to another stage.
LEMMA StageMoves ==
  ASSUME ApiTypeOK, NEW r \in Two, NEW stage \in RequestStages,
         apiReq[r].stage # "unsent", apiReq' = [apiReq EXCEPT ![r].stage = stage]
  PROVE /\ apiReq' \in [Two -> Sent \cup {Api!Unsent}]
        /\ apiReq'[r].stage = stage /\ apiReq'[r].op = apiReq[r].op
        /\ apiReq'[r].row = apiReq[r].row /\ apiReq'[r].token = apiReq[r].token
        /\ \A p \in Two \ {r} : apiReq'[p] = apiReq[p]
<1> DEFINE j == [apiReq[r] EXCEPT !.stage = stage]
<1>1. apiReq[r] \in Sent
  BY UnderWaySent
<1>2. j \in Sent
  BY <1>1 DEF Sent
<1>3. /\ j.stage = stage /\ j.op = apiReq[r].op /\ j.row = apiReq[r].row
      /\ j.token = apiReq[r].token
  BY <1>1 DEF Sent
<1>4. apiReq' = [apiReq EXCEPT ![r] = j]
  BY DEF ApiTypeOK
<1> HIDE DEF j
<1> QED BY <1>2, <1>3, <1>4, RequestMoves

\* As long as nothing is stored or deleted, what stands goes on standing: no request has
\* just been let in, and a delete that was answered stays answered.
LEMMA CreatesKeep ==
  ASSUME Api!CreatesStand, NEW r \in Two, \A p \in Two \ {r} : apiReq'[p] = apiReq[p],
         UNCHANGED stored, Api!Created(r)' => Api!Created(r), Api!Deleted(r) => Api!Deleted(r)',
         Api!Created(r) \/ Api!Deleted(r) => apiReq'[r].row = apiReq[r].row
  PROVE Api!CreatesStand'
<1>1. \A p \in Two : /\ Api!Created(p)' => Api!Created(p) /\ apiReq'[p].row = apiReq[p].row
                     /\ Api!Deleted(p) => Api!Deleted(p)' /\ apiReq'[p].row = apiReq[p].row
  BY DEF Api!Created, Api!Deleted
<1> HIDE DEF Api!Created, Api!Deleted
<1>2. ASSUME NEW p \in Two, Api!Created(p)'
      PROVE \/ /\ apiReq'[p].row \in stored'
               /\ \A q \in Two \ {p} : Api!Created(q)' => ~Api!SameKey(apiReq'[q].row, apiReq'[p].row)
            \/ \E d \in Two : Api!Deleted(d)' /\ Api!SameKey(apiReq'[d].row, apiReq'[p].row)
  BY <1>1, <1>2 DEF Api!CreatesStand, Api!SameKey
<1> QED BY <1>2 DEF Api!CreatesStand, Api!SameKey

\* So it is of a request that has not committed, and does not.
LEMMA PendingKeeps ==
  ASSUME Api!CreatesStand, NEW r \in Two, \A p \in Two \ {r} : apiReq'[p] = apiReq[p],
         UNCHANGED stored, apiReq[r].stage \in {"auth", "touch", "look", "commit"},
         \/ apiReq'[r].stage \in {"touch", "look", "commit"}
         \/ apiReq'[r].stage = "done" /\ apiReq'[r].answer # 201
  PROVE Api!CreatesStand'
<1>1. ~Api!Created(r) /\ ~Api!Deleted(r) /\ ~Api!Created(r)'
  BY DEF Api!Created, Api!Deleted
<1> QED BY <1>1, CreatesKeep

-----------------------------------------------------------------------------
LEMMA InitApiInv == Api!Init => ApiInv
  BY NoneAssumption DEF NoneApart, TokenRow, Api!Init, ApiInv, ApiTypeOK, Api!Unsent,
                        TouchesToken, Api!CreatesStand, Api!Created

\* What a step may do to tokens: none is taken away, none is revived.
TokensKept == \A t \in Tokens : tokens[t] # None => /\ tokens'[t] # None
                                                    /\ tokens[t].revoked => tokens'[t].revoked

LEMMA SameTokensKept == ASSUME UNCHANGED tokens PROVE TokensKept
  BY DEF TokensKept

\* Tokens that are kept are kept for those who use them.
LEMMA TouchedKept == ASSUME ApiTypeOK, TouchesToken, TokensKept,
                            \A r \in Two : apiReq'[r].stage = "touch" => apiReq'[r] = apiReq[r]
                     PROVE TouchesToken'
<1>1. ASSUME NEW r \in Two, apiReq'[r].stage = "touch" PROVE tokens'[apiReq'[r].token] # None
  <2>1. apiReq[r].stage = "touch" /\ apiReq'[r].token = apiReq[r].token
    BY <1>1
  <2>2. apiReq[r].token \in Tokens
    BY <2>1, UnderWaySent DEF Sent
  <2> QED BY <2>1, <2>2 DEF TouchesToken, TokensKept
<1> QED BY <1>1 DEF TouchesToken

\* Users and tokens.
LEMMA AccountsKeep ==
  ASSUME ApiInv, NEW u \in Users,
         \/ Api!Login(u) \/ Api!Expire(u) \/ Api!CreateUser(u)
         \/ \E t \in Tokens : Api!CreateToken(u, t) \/ Api!Revoke(u, t)
  PROVE ApiInv' /\ TokensKept
<1> USE DEF ApiInv
<1>1. UNCHANGED <<stored, apiReq>>
  BY DEF Api!Login, Api!Expire, Api!CreateUser, Api!CreateToken, Api!Revoke
<1>2. tokens' \in [Tokens -> TokenRow \cup {None}] /\ TokensKept
  <2>1. CASE Api!Login(u) \/ Api!Expire(u) \/ Api!CreateUser(u)
    BY <2>1 DEF Api!Login, Api!Expire, Api!CreateUser, ApiTypeOK, TokensKept
  <2>2. ASSUME NEW t \in Tokens, Api!CreateToken(u, t)
        PROVE tokens' \in [Tokens -> TokenRow \cup {None}] /\ TokensKept
    <3>1. [owner |-> u, used |-> FALSE, revoked |-> FALSE] \in TokenRow
      BY DEF TokenRow
    <3> QED BY <2>2, <3>1 DEF Api!CreateToken, ApiTypeOK, TokensKept
  <2>3. ASSUME NEW t \in Tokens, Api!Revoke(u, t)
        PROVE tokens' \in [Tokens -> TokenRow \cup {None}] /\ TokensKept
    <3> DEFINE asked == [tokens[t] EXCEPT !.revoked = TRUE]
    <3>1. asked \in TokenRow /\ asked.revoked
      BY <2>3 DEF Api!Revoke, ApiTypeOK, TokenRow
    <3>2. tokens' = [tokens EXCEPT ![t] = asked]
      BY <2>3 DEF Api!Revoke, ApiTypeOK
    <3> HIDE DEF asked
    <3> QED BY <3>1, <3>2 DEF ApiTypeOK, TokensKept, NoneApart
  <2> QED BY <2>1, <2>2, <2>3
<1>3. ApiTypeOK' /\ TouchesToken'
  BY <1>1, <1>2, TouchedKept DEF ApiTypeOK
<1>4. Api!CreatesStand'
  BY <1>1 DEF Api!CreatesStand, Api!Created, Api!Deleted, Api!SameKey
<1> QED BY <1>2, <1>3, <1>4 DEF NoneApart

-----------------------------------------------------------------------------
\* The requests.
LEMMA SendKeeps ==
  ASSUME ApiInv, NEW r \in Two, NEW op \in {"create", "delete"}, NEW t \in Tokens,
         NEW asked \in Api!Rows, Api!Send(r, op, t, asked)
  PROVE ApiInv' /\ TokensKept
<1> USE DEF ApiInv
<1> DEFINE j == [op |-> op, token |-> t, row |-> asked, stage |-> "auth", read |-> None,
                 answer |-> 0, waiting |-> TRUE]
<1>1. /\ apiReq[r] = Api!Unsent /\ UNCHANGED <<stored, users, tokens, session>>
      /\ apiReq' = [apiReq EXCEPT ![r] = j]
  BY DEF Api!Send
<1>2. j \in Sent /\ j.stage = "auth"
  BY DEF Sent, RequestStages
<1>3. ~Api!Created(r) /\ ~Api!Deleted(r)
  BY <1>1 DEF Api!Created, Api!Deleted, Api!Unsent
<1> HIDE DEF j
<1>4. /\ apiReq' \in [Two -> Sent \cup {Api!Unsent}]
      /\ apiReq'[r] = j /\ \A p \in Two \ {r} : apiReq'[p] = apiReq[p]
  BY <1>1, <1>2, RequestMoves
<1>5. ApiTypeOK' /\ TokensKept
  BY <1>1, <1>4, SameTokensKept DEF ApiTypeOK
<1>6. TouchesToken'
  BY <1>1, <1>2, <1>4 DEF TouchesToken
<1>7. ~Api!Created(r)'
  BY <1>2, <1>4 DEF Api!Created
<1>8. Api!CreatesStand'
  BY <1>1, <1>3, <1>4, <1>7, CreatesKeep
<1> QED BY <1>5, <1>6, <1>8 DEF NoneApart

LEMMA AuthenticateKeeps == ASSUME ApiInv, NEW r \in Two, Api!Authenticate(r)
                           PROVE ApiInv' /\ TokensKept
<1> USE DEF ApiInv
<1>1. apiReq[r].stage = "auth" /\ UNCHANGED <<stored, tokens>> /\ apiReq[r] \in Sent
  BY UnderWaySent DEF Api!Authenticate
<1>2. CASE apiReq' = Api!Answer(r, 401)
  <2>1. /\ apiReq' \in [Two -> Sent \cup {Api!Unsent}]
        /\ apiReq'[r].stage = "done" /\ apiReq'[r].answer = 401
        /\ \A p \in Two \ {r} : apiReq'[p] = apiReq[p]
    BY <1>1, <1>2, AnswerMoves
  <2>2. TokensKept /\ TouchesToken'
    BY <1>1, <2>1, SameTokensKept, TouchedKept
  <2>3. Api!CreatesStand'
    BY <1>1, <2>1, PendingKeeps
  <2> QED BY <1>1, <2>1, <2>2, <2>3 DEF ApiTypeOK, NoneApart
<1>3. CASE /\ tokens[apiReq[r].token] # None
           /\ apiReq' = [apiReq EXCEPT ![r].stage = "touch", ![r].read = tokens[apiReq[r].token]]
  <2> DEFINE j == [apiReq[r] EXCEPT !.stage = "touch", !.read = tokens[apiReq[r].token]]
  <2>1. tokens[apiReq[r].token] \in TokenRow
    BY <1>1, <1>3 DEF ApiTypeOK, Sent
  <2>2. j \in Sent
    BY <1>1, <2>1 DEF Sent, RequestStages
  <2>3. j.stage = "touch" /\ j.token = apiReq[r].token
    BY <1>1 DEF Sent
  <2>4. apiReq' = [apiReq EXCEPT ![r] = j]
    BY <1>3 DEF ApiTypeOK
  <2> HIDE DEF j
  <2>5. /\ apiReq' \in [Two -> Sent \cup {Api!Unsent}]
        /\ apiReq'[r] = j /\ \A p \in Two \ {r} : apiReq'[p] = apiReq[p]
    BY <2>2, <2>4, RequestMoves
  <2>6. TouchesToken'
    BY <1>1, <1>3, <2>3, <2>5 DEF TouchesToken
  <2>7. TokensKept /\ Api!CreatesStand'
    BY <1>1, <2>3, <2>5, SameTokensKept, PendingKeeps
  <2> QED BY <1>1, <2>5, <2>6, <2>7 DEF ApiTypeOK, NoneApart
<1> QED BY <1>2, <1>3 DEF Api!Authenticate

\* A token that is touched keeps its other columns.
LEMMA TouchTokenKeeps == ASSUME ApiInv, NEW r \in Two, Api!TouchToken(r)
                         PROVE ApiInv' /\ TokensKept
<1> USE DEF ApiInv
<1>1. /\ apiReq[r].stage = "touch" /\ UNCHANGED stored /\ apiReq[r] \in Sent
      /\ apiReq' = [apiReq EXCEPT ![r].stage = "look"]
  BY UnderWaySent DEF Api!TouchToken
<1>2. /\ apiReq' \in [Two -> Sent \cup {Api!Unsent}]
      /\ apiReq'[r].stage = "look" /\ \A p \in Two \ {r} : apiReq'[p] = apiReq[p]
  BY <1>1, StageMoves DEF RequestStages
<1>3. tokens' \in [Tokens -> TokenRow \cup {None}] /\ TokensKept
  <2>1. CASE UNCHANGED tokens
    BY <2>1, SameTokensKept DEF ApiTypeOK
  <2>2. CASE tokens' = [tokens EXCEPT ![apiReq[r].token].used = TRUE]
    <3> DEFINE t == apiReq[r].token
               asked == [tokens[t] EXCEPT !.used = TRUE]
    <3>1. t \in Tokens /\ tokens[t] \in TokenRow
      BY <1>1 DEF Sent, TouchesToken, ApiTypeOK
    <3>2. asked \in TokenRow /\ asked.revoked = tokens[t].revoked
      BY <3>1 DEF TokenRow
    <3>3. tokens' = [tokens EXCEPT ![t] = asked]
      BY <2>2 DEF ApiTypeOK
    <3> HIDE DEF asked, t
    <3> QED BY <3>1, <3>2, <3>3 DEF ApiTypeOK, TokensKept, NoneApart
  <2> QED BY <2>1, <2>2 DEF Api!TouchToken
<1>4. TouchesToken' /\ Api!CreatesStand'
  BY <1>1, <1>2, <1>3, TouchedKept, PendingKeeps
<1> QED BY <1>2, <1>3, <1>4 DEF ApiTypeOK, NoneApart

\* A look stores nothing.
LEMMA LookKeeps == ASSUME ApiInv, NEW r \in Two, Api!Look(r) PROVE ApiInv' /\ TokensKept
<1> USE DEF ApiInv
<1>1. apiReq[r].stage = "look" /\ UNCHANGED <<stored, tokens>>
  BY DEF Api!Look
<1>2. ASSUME NEW code \in Nat \ {201}, apiReq' = Api!Answer(r, code) PROVE ApiInv' /\ TokensKept
  <2>1. /\ apiReq' \in [Two -> Sent \cup {Api!Unsent}]
        /\ apiReq'[r].stage = "done" /\ apiReq'[r].answer # 201
        /\ \A p \in Two \ {r} : apiReq'[p] = apiReq[p]
    BY <1>1, <1>2, AnswerMoves
  <2>2. TokensKept /\ TouchesToken' /\ Api!CreatesStand'
    BY <1>1, <2>1, SameTokensKept, TouchedKept, PendingKeeps
  <2> QED BY <1>1, <2>1, <2>2 DEF ApiTypeOK, NoneApart
<1>3. CASE apiReq' = [apiReq EXCEPT ![r].stage = "commit"]
  <2>1. /\ apiReq' \in [Two -> Sent \cup {Api!Unsent}]
        /\ apiReq'[r].stage = "commit" /\ \A p \in Two \ {r} : apiReq'[p] = apiReq[p]
    BY <1>1, <1>3, StageMoves DEF RequestStages
  <2>2. TokensKept /\ TouchesToken' /\ Api!CreatesStand'
    BY <1>1, <2>1, SameTokensKept, TouchedKept, PendingKeeps
  <2> QED BY <1>1, <2>1, <2>2 DEF ApiTypeOK, NoneApart
<1>4. \/ apiReq' = Api!Answer(r, 409) \/ apiReq' = Api!Answer(r, 404)
      \/ apiReq' = [apiReq EXCEPT ![r].stage = "commit"]
  BY DEF Api!Look
<1> QED BY <1>2, <1>3, <1>4

\* The database lets a create in only if its key is free: whoever was let in before
\* under that key has been deleted.
LEMMA CommitCreateKeeps == ASSUME ApiInv, NEW r \in Two, Api!CommitCreate(r)
                           PROVE ApiInv' /\ TokensKept
<1> USE DEF ApiInv
<1>1. /\ apiReq[r].stage = "commit" /\ UNCHANGED tokens /\ apiReq[r] \in Sent
      /\ apiReq[r].op = "create"
  BY UnderWaySent DEF Api!CommitCreate
<1>2. CASE apiReq' = Api!Answer(r, 400) /\ UNCHANGED stored
  <2>1. /\ apiReq' \in [Two -> Sent \cup {Api!Unsent}]
        /\ apiReq'[r].stage = "done" /\ apiReq'[r].answer = 400
        /\ \A p \in Two \ {r} : apiReq'[p] = apiReq[p]
    BY <1>1, <1>2, AnswerMoves
  <2>2. TokensKept /\ TouchesToken' /\ Api!CreatesStand'
    BY <1>1, <1>2, <2>1, SameTokensKept, TouchedKept, PendingKeeps
  <2> QED BY <1>1, <2>1, <2>2 DEF ApiTypeOK, NoneApart
<1>3. CASE /\ ~Api!Taken(apiReq[r].row) /\ stored' = stored \cup {apiReq[r].row}
           /\ apiReq' = [apiReq EXCEPT ![r].stage = "refresh"]
  <2>1. /\ apiReq' \in [Two -> Sent \cup {Api!Unsent}]
        /\ apiReq'[r].stage = "refresh" /\ apiReq'[r].row = apiReq[r].row
        /\ \A p \in Two \ {r} : apiReq'[p] = apiReq[p]
    BY <1>1, <1>3, StageMoves DEF RequestStages
  <2>2. TokensKept /\ TouchesToken'
    BY <1>1, <2>1, SameTokensKept, TouchedKept
  <2>3. /\ \A p \in Two : apiReq'[p].row = apiReq[p].row
        /\ \A p \in Two \ {r} : Api!Created(p)' <=> Api!Created(p)
        /\ \A p \in Two : Api!Deleted(p) => Api!Deleted(p)'
    BY <1>1, <2>1 DEF Api!Created, Api!Deleted
  <2>4. ASSUME NEW q \in Two \ {r}, Api!Created(q), Api!SameKey(apiReq[q].row, apiReq[r].row)
        PROVE \E d \in Two : Api!Deleted(d) /\ Api!SameKey(apiReq[d].row, apiReq[r].row)
    <3>1. apiReq[q].row \notin stored
      BY <1>3, <2>4 DEF Api!Taken
    <3> QED BY <2>4, <3>1 DEF Api!CreatesStand, Api!SameKey
  <2> HIDE DEF Api!Created, Api!Deleted, Api!SameKey
  <2>5. ASSUME NEW p \in Two, Api!Created(p)'
        PROVE \/ /\ apiReq'[p].row \in stored'
                 /\ \A q \in Two \ {p} : Api!Created(q)' => ~Api!SameKey(apiReq'[q].row, apiReq'[p].row)
              \/ \E d \in Two : Api!Deleted(d)' /\ Api!SameKey(apiReq'[d].row, apiReq'[p].row)
    <3>1. CASE p = r
      BY <1>3, <2>3, <2>4, <3>1
    <3>2. CASE p # r /\ Api!SameKey(apiReq[p].row, apiReq[r].row)
      <4>1. PICK d \in Two : Api!Deleted(d) /\ Api!SameKey(apiReq[d].row, apiReq[r].row)
        BY <2>3, <2>4, <2>5, <3>2
      <4>2. Api!SameKey(apiReq[d].row, apiReq[p].row)
        BY <3>2, <4>1 DEF Api!SameKey
      <4> QED BY <2>3, <4>1, <4>2
    <3>3. CASE p # r /\ ~Api!SameKey(apiReq[r].row, apiReq[p].row)
      BY <1>3, <2>3, <2>5, <3>3 DEF Api!CreatesStand
    <3> QED BY <3>1, <3>2, <3>3 DEF Api!SameKey
  <2>6. Api!CreatesStand'
    BY <2>5 DEF Api!CreatesStand, Api!SameKey
  <2> QED BY <1>1, <2>1, <2>2, <2>6 DEF ApiTypeOK, NoneApart
<1> QED BY <1>2, <1>3 DEF Api!CommitCreate

\* The row is read back: the request stays let in, or not.
LEMMA RefreshKeeps == ASSUME ApiInv, NEW r \in Two, Api!Refresh(r) PROVE ApiInv' /\ TokensKept
<1> USE DEF ApiInv
<1>1. /\ apiReq[r].stage = "refresh" /\ UNCHANGED <<stored, tokens>>
      /\ \E code \in Nat : apiReq' = Api!Answer(r, code)
  BY DEF Api!Refresh
<1>2. /\ apiReq' \in [Two -> Sent \cup {Api!Unsent}]
      /\ apiReq'[r].stage = "done" /\ apiReq'[r].op = apiReq[r].op
      /\ apiReq'[r].row = apiReq[r].row /\ \A p \in Two \ {r} : apiReq'[p] = apiReq[p]
  BY <1>1, AnswerMoves
<1>3. TokensKept /\ TouchesToken'
  BY <1>1, <1>2, SameTokensKept, TouchedKept
<1>4. (Api!Created(r)' => Api!Created(r)) /\ ~Api!Deleted(r)
  BY <1>1, <1>2 DEF Api!Created, Api!Deleted
<1>5. Api!CreatesStand'
  BY <1>1, <1>2, <1>4, CreatesKeep
<1> QED BY <1>1, <1>2, <1>3, <1>5 DEF ApiTypeOK, NoneApart

\* A delete that takes rows away answers for their key.
LEMMA CommitDeleteKeeps == ASSUME ApiInv, NEW r \in Two, Api!CommitDelete(r)
                           PROVE ApiInv' /\ TokensKept
<1> USE DEF ApiInv
<1>1. /\ apiReq[r].stage = "commit" /\ apiReq[r].op = "delete" /\ UNCHANGED tokens
  BY DEF Api!CommitDelete
<1>2. ASSUME NEW code \in {409, 204}, apiReq' = Api!Answer(r, code)
      PROVE /\ apiReq' \in [Two -> Sent \cup {Api!Unsent}]
            /\ apiReq'[r].stage = "done" /\ apiReq'[r].answer = code
            /\ apiReq'[r].op = "delete" /\ apiReq'[r].row = apiReq[r].row
            /\ \A p \in Two \ {r} : apiReq'[p] = apiReq[p]
            /\ TokensKept /\ TouchesToken'
  <2>1. /\ apiReq' \in [Two -> Sent \cup {Api!Unsent}]
        /\ apiReq'[r].stage = "done" /\ apiReq'[r].answer = code
        /\ apiReq'[r].op = "delete" /\ apiReq'[r].row = apiReq[r].row
        /\ \A p \in Two \ {r} : apiReq'[p] = apiReq[p]
    BY <1>1, <1>2, AnswerMoves
  <2> QED BY <1>1, <2>1, SameTokensKept, TouchedKept
<1>3. CASE apiReq' = Api!Answer(r, 409) /\ UNCHANGED stored
  <2>1. Api!CreatesStand'
    BY <1>1, <1>2, <1>3, PendingKeeps
  <2> QED BY <1>1, <1>2, <1>3, <2>1 DEF ApiTypeOK, NoneApart
<1>4. CASE /\ stored' = {o \in stored : ~Api!SameKey(o, apiReq[r].row)}
           /\ apiReq' = Api!Answer(r, 204)
  <2>1. /\ \A p \in Two : apiReq'[p].row = apiReq[p].row
        /\ \A p \in Two : Api!Created(p)' => Api!Created(p)
        /\ \A p \in Two : Api!Deleted(p) => Api!Deleted(p)'
        /\ Api!Deleted(r)'
    BY <1>1, <1>2, <1>4 DEF Api!Created, Api!Deleted
  <2> HIDE DEF Api!Created, Api!Deleted, Api!SameKey
  <2>2. ASSUME NEW p \in Two, Api!Created(p)'
        PROVE \/ /\ apiReq'[p].row \in stored'
                 /\ \A q \in Two \ {p} : Api!Created(q)' => ~Api!SameKey(apiReq'[q].row, apiReq'[p].row)
              \/ \E d \in Two : Api!Deleted(d)' /\ Api!SameKey(apiReq'[d].row, apiReq'[p].row)
    <3>1. CASE Api!SameKey(apiReq[r].row, apiReq[p].row)
      BY <2>1, <3>1
    <3>2. CASE ~Api!SameKey(apiReq[p].row, apiReq[r].row)
      BY <1>4, <2>1, <2>2, <3>2 DEF Api!CreatesStand
    <3> QED BY <3>1, <3>2 DEF Api!SameKey
  <2>3. Api!CreatesStand'
    BY <2>2 DEF Api!CreatesStand, Api!SameKey
  <2>4. ApiTypeOK' /\ TouchesToken' /\ TokensKept
    BY <1>1, <1>2, <1>4 DEF ApiTypeOK
  <2> QED BY <2>3, <2>4 DEF NoneApart
<1> QED BY <1>3, <1>4 DEF Api!CommitDelete

LEMMA GiveUpKeeps == ASSUME ApiInv, NEW r \in Two, Api!GiveUp(r) PROVE ApiInv' /\ TokensKept
<1> USE DEF ApiInv
<1> DEFINE j == [apiReq[r] EXCEPT !.waiting = FALSE]
<1>1. apiReq[r] \in Sent /\ apiReq[r].stage # "unsent" /\ UNCHANGED <<stored, tokens>>
  BY UnderWaySent DEF Api!GiveUp
<1>2. j \in Sent
  BY <1>1 DEF Sent
<1>3. /\ j.stage = apiReq[r].stage /\ j.token = apiReq[r].token /\ j.answer = apiReq[r].answer
      /\ j.op = apiReq[r].op /\ j.row = apiReq[r].row
  BY <1>1 DEF Sent
<1>4. apiReq' = [apiReq EXCEPT ![r] = j]
  BY DEF Api!GiveUp, ApiTypeOK
<1> HIDE DEF j
<1>5. /\ apiReq' \in [Two -> Sent \cup {Api!Unsent}]
      /\ apiReq'[r] = j /\ \A p \in Two \ {r} : apiReq'[p] = apiReq[p]
  BY <1>2, <1>4, RequestMoves
<1>6. TouchesToken'
  BY <1>1, <1>3, <1>5 DEF TouchesToken
<1>7. TokensKept
  BY <1>1, SameTokensKept
<1>8. (Api!Created(r)' <=> Api!Created(r)) /\ (Api!Deleted(r)' <=> Api!Deleted(r))
  BY <1>3, <1>5 DEF Api!Created, Api!Deleted
<1>9. Api!CreatesStand'
  BY <1>1, <1>3, <1>5, <1>8, CreatesKeep
<1> QED BY <1>1, <1>5, <1>6, <1>7, <1>9 DEF ApiTypeOK, NoneApart

-----------------------------------------------------------------------------
LEMMA ApiStep == ApiInv /\ [Api!Next]_Api!vars => ApiInv' /\ TokensKept
<1> SUFFICES ASSUME ApiInv, [Api!Next]_Api!vars PROVE ApiInv' /\ TokensKept
  OBVIOUS
<1>1. CASE UNCHANGED Api!vars
  BY <1>1, SameTokensKept DEF Api!vars, ApiInv, NoneApart, ApiTypeOK, TouchesToken,
                              Api!CreatesStand, Api!Created, Api!Deleted, Api!SameKey
<1>2. CASE \E u \in Users : \/ Api!Login(u) \/ Api!Expire(u) \/ Api!CreateUser(u)
                            \/ \E t \in Tokens : Api!CreateToken(u, t) \/ Api!Revoke(u, t)
  BY <1>2, AccountsKeep
<1>3. ASSUME NEW r \in Two,
             \/ \E op \in {"create", "delete"}, t \in Tokens, asked \in Api!Rows : Api!Send(r, op, t, asked)
             \/ Api!Serve(r) \/ Api!GiveUp(r)
      PROVE ApiInv' /\ TokensKept
  BY <1>3, SendKeeps, AuthenticateKeeps, TouchTokenKeeps, LookKeeps, CommitCreateKeeps,
     RefreshKeeps, CommitDeleteKeeps, GiveUpKeeps DEF Api!Serve
<1> QED BY <1>1, <1>2, <1>3 DEF Api!Next

-----------------------------------------------------------------------------
(* The export package: an attempt that one of its outputs names is in the   *)
(* audit.  A row names an attempt that is stored, if any; the copy of the   *)
(* rows is older than the copy of the attempts, and attempts are only added. *)

ExportRow == [status : Export!Statuses, run : Nat, fixture : BOOLEAN, eligible : BOOLEAN,
              review : SUBSET Marks]
CopyFields == {"at", "stages", "attempts", "notes", "status", "approved"}

ExportTypeOK == /\ rows \in [Followed -> ExportRow]
                /\ copy = [f \in CopyFields |-> copy[f]]
                /\ copy.stages \in [Followed -> ExportRow]

\* Rows whose attempts are among those given.
Behind(stages, known) == \A s \in Followed : stages[s].run \in known \cup {0}

ExportInv ==
  /\ ExportTypeOK
  /\ Behind(rows, attempts)
  /\ copy.at = "attempts" => Behind(copy.stages, attempts)
  /\ copy.at \in {"notes", "proposals", "approved", "clauses"} =>
       Behind(copy.stages, copy.attempts)
  /\ Export!AuditCoversRuns

LEMMA BlankRow == Export!Blank \in ExportRow /\ Export!Blank.run = 0
BY DEF Export!Blank, Export!Statuses, ExportRow

LEMMA InitExportInv == Export!Init => ExportInv
<1>. SUFFICES ASSUME Export!Init PROVE ExportInv
  OBVIOUS
<1>1. ExportTypeOK
  BY BlankRow DEF Export!Init, Export!Fresh, ExportTypeOK, CopyFields
<1>2. Behind(rows, attempts)
  BY BlankRow DEF Export!Init, Behind
<1>3. QED
  BY <1>1, <1>2 DEF Export!Init, Export!Fresh, ExportInv, Export!AuditCoversRuns

\* Other requests add attempts and move rows; the copy stays as it is.
LEMMA RowsMove ==
  ASSUME ExportInv, UNCHANGED copy, package' = None, rows' \in [Followed -> ExportRow],
         attempts \subseteq attempts', Behind(rows, attempts)'
  PROVE  ExportInv'
<1>1. ExportTypeOK'
  BY DEF ExportInv, ExportTypeOK
<1>2. (copy.at = "attempts" => Behind(copy.stages, attempts))'
  BY DEF ExportInv, Behind
<1>3. (copy.at \in {"notes", "proposals", "approved", "clauses"} =>
         Behind(copy.stages, copy.attempts))'
  BY DEF ExportInv, Behind
<1>4. QED
  BY <1>1, <1>2, <1>3 DEF ExportInv, Export!AuditCoversRuns

\* One row moves to one that names a stored attempt, or none.
LEMMA RowMoves ==
  ASSUME ExportInv, NEW s \in Followed, NEW new \in ExportRow,
         rows' = [rows EXCEPT ![s] = new], UNCHANGED <<attempts, copy>>, package' = None,
         new.run \in attempts \cup {0}
  PROVE  ExportInv'
<1>1. /\ rows' \in [Followed -> ExportRow]
      /\ \A t \in Followed : rows'[t] = IF t = s THEN new ELSE rows[t]
  BY DEF ExportInv, ExportTypeOK
<1>2. Behind(rows, attempts)'
  BY <1>1 DEF ExportInv, Behind
<1>3. QED
  BY <1>1, <1>2, RowsMove

\* A query changes the copy alone.
LEMMA CopyMoves ==
  ASSUME ExportInv, UNCHANGED <<rows, attempts>>, package' = None,
         copy' = [f \in CopyFields |-> copy'[f]],
         \/ copy'.stages = copy.stages
         \/ copy'.stages = rows,
         copy'.at = "attempts" => Behind(copy'.stages, attempts),
         copy'.at \in {"notes", "proposals", "approved", "clauses"} =>
           Behind(copy'.stages, copy'.attempts)
  PROVE  ExportInv'
<1>1. ExportTypeOK'
  BY DEF ExportInv, ExportTypeOK
<1>2. QED
  BY <1>1 DEF ExportInv, Behind, Export!AuditCoversRuns

\* What the other requests commit.
LEMMA CommitKeeps == ASSUME ExportInv, Export!Commit, package' = None PROVE ExportInv'
<1>a. rows \in [Followed -> ExportRow] /\ Behind(rows, attempts)
  BY DEF ExportInv, ExportTypeOK
<1>s. "entity_registry" \in Followed
  BY FollowedAssumption
<1>1. CASE Export!SaveAttempt
  <2>1. attempts \subseteq attempts' /\ UNCHANGED <<rows, copy>>
    BY <1>1 DEF Export!SaveAttempt
  <2>2. QED
    BY <1>a, <2>1, RowsMove DEF Behind
<1>2. ASSUME NEW s \in Followed, NEW r \in 1..MaxAttempts, Export!SaveOutput(s, r)
      PROVE  ExportInv'
  <2>1. PICK st \in {"loaded", "blocked", "checking"} :
          Export!Save(s, [Export!Blank EXCEPT !.run = r, !.status = st])
    BY <1>2 DEF Export!SaveOutput
  <2>. DEFINE new == [Export!Blank EXCEPT !.run = r, !.status = st]
  <2>2. rows' = [rows EXCEPT ![s] = new] /\ r \in attempts /\ UNCHANGED <<attempts, copy>>
    BY <1>2, <2>1 DEF Export!SaveOutput, Export!Save
  <2>n. r \in Nat /\ st \in Export!Statuses
    BY BoundsAssumption DEF Export!Statuses
  <2>3. \A blank \in ExportRow :
          LET b == [blank EXCEPT !.run = r, !.status = st]
          IN b \in ExportRow /\ b.run = r
    BY <2>n DEF ExportRow
  <2>4. new \in ExportRow /\ new.run = r
    BY <2>3, BlankRow
  <2>. HIDE DEF new
  <2>5. QED
    BY <2>2, <2>4, RowMoves
<1>3. ASSUME NEW s \in Followed, Export!SaveUnrecorded(s) PROVE ExportInv'
  <2>. DEFINE new == [Export!Blank EXCEPT !.status = "checking"]
  <2>1. \A blank \in ExportRow :
          LET b == [blank EXCEPT !.status = "checking"]
          IN b \in ExportRow /\ b.run = blank.run
    BY DEF ExportRow, Export!Statuses
  <2>2. new \in ExportRow /\ new.run = 0
    BY <2>1, BlankRow
  <2>3. rows' = [rows EXCEPT ![s] = new] /\ UNCHANGED <<attempts, copy>>
    BY <1>3 DEF Export!SaveUnrecorded, Export!Save
  <2>. HIDE DEF new
  <2>4. QED
    BY <2>2, <2>3, RowMoves
\* A row that is changed but for its attempt.
<1>4. ASSUME NEW s \in Followed, NEW new \in ExportRow, new.run = rows[s].run,
             rows' = [rows EXCEPT ![s] = new], UNCHANGED <<attempts, copy>>
      PROVE  ExportInv'
  BY <1>4, <1>a, RowMoves DEF Behind
\* A row that gets a status.
<1>5. ASSUME NEW s \in Followed, NEW st \in Export!Statuses,
             rows' = [rows EXCEPT ![s] = [rows[s] EXCEPT !.status = st]],
             UNCHANGED <<attempts, copy>>
      PROVE  ExportInv'
  <2>. DEFINE new == [rows[s] EXCEPT !.status = st]
  <2>1. new \in ExportRow /\ new.run = rows[s].run
    BY <1>a DEF ExportRow
  <2>2. rows' = [rows EXCEPT ![s] = new]
    BY <1>5
  <2>. HIDE DEF new
  <2>3. QED
    BY <1>4, <1>5, <2>1, <2>2
<1>6. ASSUME NEW s \in Followed,
             \/ Export!Edit(s) \/ Export!Accept(s)
             \/ \E st \in Export!Continued(s) : Export!Continue(s, st)
             \/ \E note \in SUBSET {s} : Export!RequestRerun(s, note)
      PROVE  ExportInv'
  <2>1. PICK st \in {"checking", "accepted", "blocked", "needs_rerun"} :
          rows' = [rows EXCEPT ![s] = [rows[s] EXCEPT !.status = st]]
    BY <1>6, <1>a DEF Export!Edit, Export!Accept, Export!Continue, Export!Continued,
                      Export!RequestRerun, Export!Save
  <2>2. UNCHANGED <<attempts, copy>>
    BY <1>6 DEF Export!Edit, Export!Accept, Export!Continue, Export!RequestRerun, Export!Save
  <2>3. QED
    BY <1>5, <2>1, <2>2 DEF Export!Statuses
<1>7. ASSUME NEW s \in Followed, Export!Seed(s) \/ Export!Reset(s) PROVE ExportInv'
  <2>1. \A st \in Export!Statuses, review \in SUBSET Marks :
          LET b == [rows[s] EXCEPT !.fixture = TRUE, !.eligible = FALSE, !.status = st,
                                   !.review = review]
          IN b \in ExportRow /\ b.run = rows[s].run
    BY <1>a DEF ExportRow
  <2>2. PICK st \in Export!Statuses, review \in SUBSET Marks :
          rows' = [rows EXCEPT ![s] = [rows[s] EXCEPT !.fixture = TRUE, !.eligible = FALSE,
                                         !.status = st, !.review = review]]
    <3>1. rows[s].review \in SUBSET Marks /\ rows[s].status \in Export!Statuses
      BY <1>a DEF ExportRow
    <3>2. Export!Loaded(s) \in Export!Statuses
      BY DEF Export!Loaded, Export!Statuses
    <3>3. QED
      BY <1>7, <3>1, <3>2 DEF Export!Seed, Export!Reset, Export!Save
  <2>3. UNCHANGED <<attempts, copy>>
    BY <1>7 DEF Export!Seed, Export!Reset, Export!Save
  <2>4. QED
    BY <1>4, <2>1, <2>2, <2>3
<1>8. ASSUME NEW s \in Followed, NEW review \in Export!Reviews(s), Export!Review(s, review)
      PROVE  ExportInv'
  <2>. DEFINE st == IF s # "eventcut_extraction" THEN rows[s].status
                    ELSE IF "llm_selected_candidate" \in review THEN "checking" ELSE "accepted"
              new == [rows[s] EXCEPT !.review = review, !.status = st]
  <2>1. review \in SUBSET Marks
    BY DEF Export!Reviews
  <2>2. rows' = [rows EXCEPT ![s] = new] /\ UNCHANGED <<attempts, copy>>
    BY <1>8 DEF Export!Review, Export!Save
  <2>3. st \in Export!Statuses
    BY <1>a DEF ExportRow, Export!Statuses
  <2>. HIDE DEF st
  <2>4. new \in ExportRow /\ new.run = rows[s].run
    BY <1>a, <2>1, <2>3 DEF ExportRow
  <2>. HIDE DEF new
  <2>5. QED
    BY <1>4, <2>2, <2>4
<1>9. ASSUME NEW review \in SUBSET Marks, Export!Finalize(review) PROVE ExportInv'
  <2>. DEFINE s == "entity_registry"
              new == [rows[s] EXCEPT !.status = "accepted", !.eligible = TRUE, !.review = review]
  <2>1. rows' = [rows EXCEPT ![s] = new] /\ UNCHANGED <<attempts, copy>>
    BY <1>9 DEF Export!Finalize, Export!Save
  <2>2. new \in ExportRow /\ new.run = rows[s].run
    BY <1>a, <1>s DEF ExportRow, Export!Statuses
  <2>. HIDE DEF new
  <2>3. QED
    BY <1>4, <1>s, <2>1, <2>2
<1>10. ASSUME NEW p \in Proposals, Export!Propose(p) PROVE ExportInv'
  <2>. DEFINE s == "entity_registry"
              new == [rows[s] EXCEPT !.status = "checking", !.eligible = FALSE]
  <2>1. new \in ExportRow /\ new.run = rows[s].run
    BY <1>a, <1>s DEF ExportRow, Export!Statuses
  <2>2. rows' = [rows EXCEPT ![s] = new] /\ UNCHANGED <<attempts, copy>>
    BY <1>10, <1>a DEF Export!Propose
  <2>. HIDE DEF new
  <2>3. QED
    BY <1>4, <1>s, <2>1, <2>2
<1>11. ASSUME \/ \E p \in Proposals, v \in Export!Verdicts : Export!Decide(p, v)
              \/ Export!ApprovePending
       PROVE  ExportInv'
  <2>1. UNCHANGED <<rows, attempts, copy>>
    BY <1>11 DEF Export!Decide, Export!ApprovePending
  <2>2. QED
    BY <1>a, <2>1, RowsMove DEF Behind
<1>12. CASE Export!SaveSource
  <2>1. rows' = [s \in Followed |-> Export!Blank] /\ UNCHANGED <<attempts, copy>>
    BY <1>12 DEF Export!SaveSource
  <2>2. Behind(rows, attempts)'
    BY <2>1, BlankRow DEF Behind
  <2>3. QED
    BY <2>1, <2>2, BlankRow, RowsMove
<1>13. \A review \in Export!Reviews("entity_registry") : review \in SUBSET Marks
  BY DEF Export!Reviews
<1>14. QED
  BY <1>1, <1>2, <1>3, <1>6, <1>7, <1>8, <1>9, <1>10, <1>11, <1>12, <1>13
     DEF Export!Commit

LEMMA ExportStep == ExportInv /\ [Export!Next]_Export!vars => ExportInv'
<1>. SUFFICES ASSUME ExportInv, [Export!Next]_Export!vars PROVE ExportInv'
  OBVIOUS
<1>a. /\ rows \in [Followed -> ExportRow] /\ Behind(rows, attempts)
      /\ copy = [f \in CopyFields |-> copy[f]]
  BY DEF ExportInv, ExportTypeOK
<1>1. CASE Export!Commit /\ package' = None
  BY <1>1, CommitKeeps
<1>2. CASE Export!ReadStages
  BY <1>2, <1>a, CopyMoves DEF Export!ReadStages, Export!Took, Export!db, CopyFields
<1>3. CASE Export!ReadAttempts
  BY <1>3, <1>a, CopyMoves DEF Export!ReadAttempts, Export!Took, Export!db, CopyFields, ExportInv
<1>4. CASE Export!ReadNotes
  BY <1>4, <1>a, CopyMoves DEF Export!ReadNotes, Export!Took, Export!db, CopyFields, ExportInv
<1>5. CASE Export!ReadProposals
  BY <1>5, <1>a, CopyMoves DEF Export!ReadProposals, Export!Took, Export!db, CopyFields, ExportInv
<1>6. CASE Export!ReadApproved
  BY <1>6, <1>a, CopyMoves DEF Export!ReadApproved, Export!Took, Export!db, CopyFields, ExportInv
<1>7. CASE Export!Assemble
  <2>1. /\ package'.accepted = [s \in Export!Accepted(copy) |-> copy.stages[s].run]
        /\ package'.outputs = [s \in Followed |-> copy.stages[s].run]
        /\ package'.audit = copy.attempts
        /\ copy' = Export!Fresh /\ UNCHANGED <<rows, attempts>>
    BY <1>7 DEF Export!Assemble, Export!Package, Export!db
  <2>2. /\ Export!Accepted(copy) \subseteq Followed
        /\ \A s \in Followed : copy.stages[s].run \in copy.attempts \cup {0}
    BY <1>7 DEF Export!Assemble, ExportInv, Behind, Export!Accepted
  <2>3. Export!AuditCoversRuns'
    BY <2>1, <2>2 DEF Export!AuditCoversRuns
  <2>4. ExportTypeOK'
    BY <1>a, <2>1, BlankRow DEF ExportTypeOK, Export!Fresh, CopyFields
  <2>5. QED
    BY <1>a, <2>1, <2>3, <2>4 DEF ExportInv, Behind, Export!Fresh
<1>8. CASE UNCHANGED Export!vars
  BY <1>8 DEF Export!vars, Export!db, ExportInv, ExportTypeOK, Behind, Export!AuditCoversRuns
<1>9. QED
  BY <1>1, <1>2, <1>3, <1>4, <1>5, <1>6, <1>7, <1>8 DEF Export!Next

-----------------------------------------------------------------------------
(* The clause row: what apply reports stands, and a seed overwrites nothing. *)

ClauseTypeOK == /\ row \in Clause!Row /\ table \in Clause!Table
                /\ source \in 1..MaxText
                /\ clauseReq \in [Two -> Clause!Request]

\* A request that is about to keep an answer has one.
Answered(asked) ==
  asked.op \in {"save", "saveLive", "replace", "replaceLive"} => asked.out # None

\* As long as no page has saved over a row it had not read: a row called a placeholder
\* holds no output, nor does one that a reset has seeded and goes on with.
SeedsEmpty ==
  ~raced => /\ row.prov.placeholder => row.out = None
            /\ \A w \in Two : clauseReq[w].op \in {"reread", "status"} => row.out = None

ClauseInv == /\ ClauseTypeOK
             /\ \A w \in Two : Answered(clauseReq[w])
             /\ SeedsEmpty
             /\ Clause!AppliedIsSound

\* What GeneratedKept says of a step.
Kept == ~raced' /\ row.out # None /\ row'.out = None =>
          \E w \in Two : /\ clauseReq[w].op \in {"reset", "fixture", "edit"}
                         /\ clauseReq'[w] # clauseReq[w]

\* The rows and provenances the pages make are rows and provenances.
LEMMA ProvenanceTypes ==
  /\ Clause!Unexecuted \in Clause!Provenance
  /\ \A real, applied \in BOOLEAN : /\ Clause!Executed(real, applied) \in Clause!Provenance
                                    /\ ~Clause!Executed(real, applied).placeholder
<1>1. Clause!Unexecuted \in Clause!Provenance /\ ~Clause!Unexecuted.placeholder
  BY DEF Clause!Unexecuted, Clause!Provenance
<1>2. \A p \in Clause!Provenance, real, applied \in BOOLEAN :
        LET q == [p EXCEPT !.executed = "completed", !.real = real, !.applied = applied]
        IN q \in Clause!Provenance /\ q.placeholder = p.placeholder
  BY DEF Clause!Provenance
<1>3. QED
  BY <1>1, <1>2 DEF Clause!Executed

LEMMA RowTypes ==
  /\ Clause!Blank \in Clause!Row /\ Clause!Blank.out = None
  /\ Clause!Seeded \in Clause!Row /\ Clause!Seeded.out = None
  /\ ~Clause!Blank.prov.placeholder
<1>1. /\ Clause!Blank \in Clause!Row /\ Clause!Blank.out = None
      /\ Clause!Blank.prov = Clause!Unexecuted
  BY ProvenanceTypes DEF Clause!Blank, Clause!Row, Clause!Status
<1>2. \A r \in Clause!Row : LET s == [r EXCEPT !.status = "loaded", !.prov.placeholder = TRUE]
                            IN s \in Clause!Row /\ s.out = r.out
  BY DEF Clause!Row, Clause!Provenance, Clause!Status
<1>3. QED
  <2>1. ~Clause!Blank.prov.placeholder
    BY <1>1 DEF Clause!Unexecuted
  <2>2. Clause!Seeded \in Clause!Row /\ Clause!Seeded.out = None
    BY <1>1, <1>2 DEF Clause!Seeded
  <2>3. QED
    BY <1>1, <2>1, <2>2

LEMMA IdleTypes == Clause!Idle \in Clause!Request /\ Answered(Clause!Idle)
                   /\ Clause!Idle.op = "idle"
BY RowTypes, BoundsAssumption DEF Clause!Idle, Clause!Request, Answered

LEMMA InitClauseInv == Clause!Init => ClauseInv
<1>. SUFFICES ASSUME Clause!Init PROVE ClauseInv
  OBVIOUS
<1>1. ClauseTypeOK
  BY RowTypes, IdleTypes, BoundsAssumption DEF Clause!Init, ClauseTypeOK, Clause!Table, Clause!Paragraphs
<1>2. SeedsEmpty
  BY RowTypes, IdleTypes DEF Clause!Init, SeedsEmpty
<1>3. QED
  BY <1>1, <1>2, IdleTypes DEF Clause!Init, ClauseInv, Clause!AppliedIsSound

\* One request goes on; the row stays, and where the text or the clauses do not, nothing
\* is said to be applied.
LEMMA RequestGoesOn ==
  ASSUME ClauseInv, NEW w \in Two, NEW asked \in Clause!Request, Answered(asked),
         clauseReq' = [clauseReq EXCEPT ![w] = asked], UNCHANGED <<row, raced>>,
         source' \in 1..MaxText, table' \in Clause!Table,
         blessed' = FALSE \/ UNCHANGED <<source, table, blessed>>,
         asked.op \in {"reread", "status"} => clauseReq[w].op \in {"reread", "status"}
  PROVE  ClauseInv' /\ Kept
<1>1. /\ clauseReq' \in [Two -> Clause!Request]
      /\ \A v \in Two : clauseReq'[v] = IF v = w THEN asked ELSE clauseReq[v]
  BY DEF ClauseInv, ClauseTypeOK
<1>2. ClauseTypeOK'
  BY <1>1 DEF ClauseInv, ClauseTypeOK
<1>3. \A v \in Two : Answered(clauseReq'[v])
  BY <1>1 DEF ClauseInv
<1>4. SeedsEmpty'
  BY <1>1 DEF ClauseInv, SeedsEmpty
<1>5. Clause!AppliedIsSound'
  BY DEF ClauseInv, Clause!AppliedIsSound, Clause!Materialized, Clause!Applicable,
         Clause!AlreadyApplied, Clause!Idempotent
<1>6. QED
  BY <1>2, <1>3, <1>4, <1>5 DEF ClauseInv, Kept

\* A page saves over the row.
LEMMA PageSaves ==
  ASSUME ClauseInv, NEW w \in Two, NEW asked \in Clause!Request, Answered(asked),
         NEW saved \in Clause!Row, Clause!Save(w, saved),
         clauseReq' = [clauseReq EXCEPT ![w] = asked],
         ~raced /\ clauseReq[w].seen = row =>
           /\ saved.prov.placeholder => saved.out = None
           /\ asked.op \in {"reread", "status"} => saved.out = None
           /\ row.out # None /\ saved.out = None =>
                clauseReq[w].op \in {"reset", "fixture"} /\ asked.op # clauseReq[w].op
  PROVE  ClauseInv' /\ Kept
<1>1. /\ clauseReq' \in [Two -> Clause!Request]
      /\ \A v \in Two : clauseReq'[v] = IF v = w THEN asked ELSE clauseReq[v]
  BY DEF ClauseInv, ClauseTypeOK
<1>2. row' = saved /\ blessed' = FALSE /\ UNCHANGED <<source, table>>
  BY DEF Clause!Save
<1>3. ~raced' => /\ ~raced /\ clauseReq[w].seen = row
                 /\ \A v \in Two \ {w} : clauseReq[v].op \notin {"reread", "status"}
  BY DEF Clause!Save
<1>4. ClauseTypeOK'
  BY <1>1, <1>2 DEF ClauseInv, ClauseTypeOK
<1>5. \A v \in Two : Answered(clauseReq'[v])
  BY <1>1 DEF ClauseInv
<1>6. SeedsEmpty'
  BY <1>1, <1>2, <1>3 DEF SeedsEmpty
<1>7. Kept
  BY <1>1, <1>2, <1>3 DEF Kept
<1>8. QED
  BY <1>2, <1>4, <1>5, <1>6, <1>7 DEF ClauseInv, Clause!AppliedIsSound

\* A request that takes another step keeps what it holds.
LEMMA TurnTypes ==
  ASSUME ClauseInv, NEW w \in Two, NEW op
  PROVE  LET asked == [clauseReq[w] EXCEPT !.op = op]
         IN /\ clauseReq[w] \in Clause!Request
            /\ op \in Clause!Pages \cup {"idle", "ignored", "replace", "save", "failed",
                  "saveLive", "replaceLive", "reread", "status", "text"} =>
                 asked \in Clause!Request
            /\ asked.op = op /\ asked.out = clauseReq[w].out
            /\ Clause!Turn(w, op) => clauseReq' = [clauseReq EXCEPT ![w] = asked]
BY DEF ClauseInv, ClauseTypeOK, Clause!Request, Clause!Turn

LEMMA BeginKeeps == ASSUME ClauseInv, NEW w \in Two, NEW op \in Clause!Pages, Clause!Begin(w, op)
                    PROVE  ClauseInv' /\ Kept
<1>. DEFINE asked == [op |-> IF Clause!Ignored(op, row.status) THEN "ignored" ELSE op,
                      seen |-> row, text |-> source, out |-> None]
<1>1. asked \in Clause!Request /\ asked.op \in Clause!Pages \cup {"ignored"}
  BY DEF ClauseInv, ClauseTypeOK, Clause!Request
<1>2. Answered(asked) /\ asked.op \notin {"reread", "status"}
  BY <1>1 DEF Answered, Clause!Pages
<1>3. /\ clauseReq' = [clauseReq EXCEPT ![w] = asked]
      /\ UNCHANGED <<source, table, row, raced, blessed>>
  BY DEF Clause!Begin
<1>. HIDE DEF asked
<1>4. source' \in 1..MaxText /\ table' \in Clause!Table
  BY <1>3 DEF ClauseInv, ClauseTypeOK
<1>5. QED
  BY <1>1, <1>2, <1>3, <1>4, RequestGoesOn

LEMMA AnswerKeeps == ASSUME ClauseInv, NEW w \in Two, NEW out \in Clause!Output, Clause!Answer(w, out)
                     PROVE  ClauseInv' /\ Kept
<1>. DEFINE op == CASE clauseReq[w].op = "live" -> "saveLive"
                    [] Clause!Covering(out) -> "replace"
                    [] OTHER -> "save"
            asked == [clauseReq[w] EXCEPT !.out = out, !.op = op]
<1>1. op \in {"saveLive", "replace", "save"}
  OBVIOUS
<1>. HIDE DEF op
<1>2. asked \in Clause!Request /\ asked.op = op /\ asked.out = out
  BY <1>1 DEF ClauseInv, ClauseTypeOK, Clause!Request
<1>3. /\ clauseReq' = [clauseReq EXCEPT ![w] = asked]
      /\ UNCHANGED <<source, table, row, raced, blessed>>
  <2>1. /\ clauseReq' = [clauseReq EXCEPT ![w].out = out, ![w].op = op]
        /\ UNCHANGED <<source, table, row, raced, blessed>>
    BY DEF Clause!Answer, op
  <2>2. clauseReq \in [Two -> Clause!Request]
    BY DEF ClauseInv, ClauseTypeOK
  <2>3. QED
    BY <2>1, <2>2
<1>. HIDE DEF asked
<1>4. Answered(asked) /\ asked.op \notin {"reread", "status"}
  BY <1>1, <1>2, NoneAssumption DEF Answered
<1>5. source' \in 1..MaxText /\ table' \in Clause!Table
  BY <1>3 DEF ClauseInv, ClauseTypeOK
<1>6. QED
  BY <1>2, <1>3, <1>4, <1>5, RequestGoesOn

\* A request that fails, ends, or finds nothing to seed.
LEMMA QuietKeeps ==
  ASSUME ClauseInv, NEW w \in Two, Clause!Fail(w) \/ Clause!SkipSeed(w) \/ Clause!Abandon(w)
  PROVE  ClauseInv' /\ Kept
<1>1. /\ UNCHANGED <<source, table, row, raced, blessed>>
      /\ source' \in 1..MaxText /\ table' \in Clause!Table
  BY DEF Clause!Fail, Clause!SkipSeed, Clause!Abandon, ClauseInv, ClauseTypeOK
<1>2. CASE Clause!Fail(w)
  <2>. DEFINE asked == [clauseReq[w] EXCEPT !.op = "failed"]
  <2>1. /\ asked \in Clause!Request /\ asked.op = "failed"
        /\ clauseReq' = [clauseReq EXCEPT ![w] = asked]
    BY <1>2, TurnTypes DEF Clause!Fail
  <2>. HIDE DEF asked
  <2>2. Answered(asked)
    BY <2>1 DEF Answered
  <2>3. QED
    BY <1>1, <2>1, <2>2, RequestGoesOn
<1>3. CASE Clause!SkipSeed(w) \/ Clause!Abandon(w)
  <2>1. clauseReq' = [clauseReq EXCEPT ![w] = Clause!Idle]
    BY <1>3 DEF Clause!SkipSeed, Clause!Abandon, Clause!Done
  <2>2. QED
    BY <1>1, <2>1, IdleTypes, RequestGoesOn
<1>4. QED
  BY <1>2, <1>3

LEMMA ReplaceClausesKeeps == ASSUME ClauseInv, NEW w \in Two, Clause!ReplaceClauses(w)
                             PROVE  ClauseInv' /\ Kept
<1>1. /\ blessed' = FALSE /\ UNCHANGED <<source, row, raced>>
      /\ clauseReq[w].op \in {"replace", "replaceLive"}
      /\ clauseReq[w] \in Clause!Request /\ Answered(clauseReq[w])
  BY DEF Clause!ReplaceClauses, ClauseInv, ClauseTypeOK
<1>2. source' \in 1..MaxText /\ table' \in Clause!Table
  BY <1>1 DEF Clause!ReplaceClauses, Clause!Table, ClauseInv, ClauseTypeOK, Clause!Request
<1>3. CASE clauseReq[w].op = "replace"
  <2>. DEFINE asked == [clauseReq[w] EXCEPT !.op = "save"]
  <2>1. /\ asked \in Clause!Request /\ asked.op = "save" /\ asked.out = clauseReq[w].out
        /\ clauseReq' = [clauseReq EXCEPT ![w] = asked]
    BY <1>3, TurnTypes DEF Clause!ReplaceClauses
  <2>. HIDE DEF asked
  <2>2. Answered(asked)
    BY <1>1, <2>1 DEF Answered
  <2>3. QED
    BY <1>1, <1>2, <2>1, <2>2, RequestGoesOn
<1>4. CASE clauseReq[w].op # "replace"
  <2>1. clauseReq' = [clauseReq EXCEPT ![w] = Clause!Idle]
    BY <1>4 DEF Clause!ReplaceClauses, Clause!Done
  <2>2. QED
    BY <1>1, <1>2, <2>1, IdleTypes, RequestGoesOn
<1>5. QED
  BY <1>3, <1>4

\* An answer leaves the row with its output; only a fixture run leaves it without.
LEMMA SaveRunKeeps == ASSUME ClauseInv, NEW w \in Two, Clause!SaveRun(w) PROVE ClauseInv' /\ Kept
<1>. DEFINE out == clauseReq[w].out
            covered == out # None /\ Clause!Covering(out)
            prov == Clause!Executed(out # None, covered /\ clauseReq[w].op = "save")
            saved == [status |-> "checking", out |-> out, covered |-> covered, prov |-> prov]
<1>1. /\ clauseReq[w] \in Clause!Request /\ Answered(clauseReq[w])
      /\ clauseReq[w].op \in {"save", "saveLive", "fixture"} /\ Clause!Save(w, saved)
  BY DEF Clause!SaveRun, ClauseInv, ClauseTypeOK
<1>2. prov \in Clause!Provenance /\ ~prov.placeholder
  <2>. HIDE DEF prov
  <2>1. (out # None) \in BOOLEAN /\ (covered /\ clauseReq[w].op = "save") \in BOOLEAN
    OBVIOUS
  <2>2. QED
    BY <2>1, ProvenanceTypes DEF prov
<1>. HIDE DEF prov
<1>3. saved \in Clause!Row /\ saved.out = out /\ saved.prov = prov
  <2>1. out \in Clause!Output \cup {None} /\ covered \in BOOLEAN
    BY <1>1 DEF Clause!Request
  <2>. HIDE DEF out, covered
  <2>2. QED
    BY <1>2, <2>1 DEF Clause!Row, Clause!Status
<1>4. clauseReq[w].op \in {"save", "saveLive"} => out # None
  BY <1>1 DEF Answered
<1>. HIDE DEF saved
<1>5. CASE clauseReq[w].op = "saveLive"
  <2>. DEFINE asked == [clauseReq[w] EXCEPT !.op = "replaceLive"]
  <2>1. /\ asked \in Clause!Request /\ asked.op = "replaceLive" /\ asked.out = out
        /\ clauseReq' = [clauseReq EXCEPT ![w] = asked]
    BY <1>5, TurnTypes DEF Clause!SaveRun
  <2>. HIDE DEF asked
  <2>2. Answered(asked)
    BY <1>4, <1>5, <2>1 DEF Answered
  <2>3. QED
    BY <1>1, <1>2, <1>3, <1>4, <1>5, <2>1, <2>2, PageSaves
<1>6. CASE clauseReq[w].op # "saveLive"
  <2>1. clauseReq' = [clauseReq EXCEPT ![w] = Clause!Idle]
    BY <1>6 DEF Clause!SaveRun, Clause!Done
  <2>2. QED
    BY <1>1, <1>2, <1>3, <1>4, <2>1, IdleTypes, PageSaves
<1>7. QED
  BY <1>5, <1>6

\* A failed execution saves the copy with its output.
LEMMA SaveFailureKeeps == ASSUME ClauseInv, NEW w \in Two, Clause!SaveFailure(w)
                          PROVE  ClauseInv' /\ Kept
<1>. DEFINE saved == [clauseReq[w].seen EXCEPT !.prov.placeholder = FALSE,
                                               !.prov.executed = "failed", !.prov.real = FALSE]
<1>1. clauseReq[w].seen \in Clause!Row
  BY DEF ClauseInv, ClauseTypeOK, Clause!Request
<1>2. saved \in Clause!Row /\ saved.out = clauseReq[w].seen.out /\ ~saved.prov.placeholder
  BY <1>1 DEF Clause!Row, Clause!Provenance
<1>3. Clause!Save(w, saved) /\ clauseReq' = [clauseReq EXCEPT ![w] = Clause!Idle]
  BY DEF Clause!SaveFailure, Clause!Done
<1>. HIDE DEF saved
<1>4. QED
  BY <1>2, <1>3, IdleTypes, PageSaves

\* The actions leave the output alone.
LEMMA SaveActionKeeps == ASSUME ClauseInv, NEW w \in Two, Clause!SaveAction(w)
                         PROVE  ClauseInv' /\ Kept
<1>. DEFINE seen == clauseReq[w].seen
            becomes == CASE clauseReq[w].op = "check" -> "checking"
                         [] clauseReq[w].op = "rerun" -> "needs_rerun"
                         [] clauseReq[w].op = "ignored" -> row.status
                         [] clauseReq[w].op = "accept" -> "accepted"
                         [] clauseReq[w].op = "approve" -> seen.status
                         [] OTHER -> IF seen.status = "needs_rerun" THEN seen.status ELSE "accepted"
            saved == [row EXCEPT !.status = becomes, !.prov = seen.prov]
<1>1. seen \in Clause!Row /\ row \in Clause!Row
  BY DEF ClauseInv, ClauseTypeOK, Clause!Request
<1>2. becomes \in Clause!Status
  BY <1>1 DEF Clause!Row, Clause!Status
<1>3. Clause!Save(w, saved) /\ clauseReq' = [clauseReq EXCEPT ![w] = Clause!Idle]
  BY DEF Clause!SaveAction, Clause!Done
<1>. HIDE DEF becomes
<1>4. saved \in Clause!Row /\ saved.out = row.out /\ saved.prov = seen.prov
  BY <1>1, <1>2 DEF Clause!Row
<1>. HIDE DEF saved
<1>5. QED
  BY <1>3, <1>4, IdleTypes, PageSaves DEF ClauseInv, SeedsEmpty

\* A GET restores the fixture only where the row is called a placeholder; a reset does it
\* in any case.
LEMMA SaveSeedKeeps == ASSUME ClauseInv, NEW w \in Two, Clause!SaveSeed(w)
                       PROVE  ClauseInv' /\ Kept
<1>. DEFINE seen == clauseReq[w].seen
            saved == Clause!Fixture(w)
<1>1. /\ seen \in Clause!Row /\ row \in Clause!Row /\ clauseReq[w] \in Clause!Request
  BY DEF ClauseInv, ClauseTypeOK, Clause!Request
<1>2. saved \in Clause!Row /\ saved.out = None
  <2>. DEFINE prov == [seen.prov EXCEPT !.placeholder = TRUE, !.real = FALSE]
  <2>1. prov \in Clause!Provenance
    BY <1>1 DEF Clause!Row, Clause!Provenance
  <2>2. saved = [row EXCEPT !.out = None, !.covered = FALSE, !.prov = prov]
    BY DEF Clause!Fixture
  <2>. HIDE DEF prov, saved
  <2>3. QED
    BY <1>1, <2>1, <2>2 DEF Clause!Row
<1>3. /\ Clause!Save(w, saved) /\ clauseReq[w].op \in {"seed", "reset"}
      /\ clauseReq[w].op = "seed" => seen.prov.placeholder
  BY DEF Clause!SaveSeed
<1>. HIDE DEF saved
<1>4. CASE clauseReq[w].op = "reset"
  <2>. DEFINE asked == [clauseReq[w] EXCEPT !.op = "reread"]
  <2>1. /\ asked \in Clause!Request /\ asked.op = "reread"
        /\ clauseReq' = [clauseReq EXCEPT ![w] = asked]
    BY <1>4, TurnTypes DEF Clause!SaveSeed
  <2>. HIDE DEF asked
  <2>2. Answered(asked)
    BY <2>1 DEF Answered
  <2>3. QED
    BY <1>2, <1>3, <1>4, <2>1, <2>2, PageSaves
<1>5. CASE clauseReq[w].op = "seed"
  <2>1. clauseReq' = [clauseReq EXCEPT ![w] = Clause!Idle]
    BY <1>5 DEF Clause!SaveSeed, Clause!Done
  <2>2. ~raced /\ seen = row => row.out = None
    BY <1>3, <1>5 DEF ClauseInv, SeedsEmpty
  <2>3. QED
    BY <1>2, <1>3, <2>1, <2>2, IdleTypes, PageSaves
<1>6. QED
  BY <1>3, <1>4, <1>5

LEMMA RereadKeeps == ASSUME ClauseInv, NEW w \in Two, Clause!Reread(w) PROVE ClauseInv' /\ Kept
<1>. DEFINE asked == [clauseReq[w] EXCEPT !.op = "status", !.seen = row]
<1>1. /\ clauseReq \in [Two -> Clause!Request] /\ row \in Clause!Row
      /\ clauseReq[w] \in Clause!Request /\ clauseReq[w].op = "reread"
  BY DEF ClauseInv, ClauseTypeOK, Clause!Reread
<1>2. asked \in Clause!Request /\ asked.op = "status"
  BY <1>1 DEF Clause!Request
<1>3. /\ clauseReq' = [clauseReq EXCEPT ![w] = asked]
      /\ UNCHANGED <<source, table, row, raced, blessed>>
  BY <1>1 DEF Clause!Reread
<1>4. source' \in 1..MaxText /\ table' \in Clause!Table
  BY <1>3 DEF ClauseInv, ClauseTypeOK
<1>. HIDE DEF asked
<1>5. Answered(asked)
  BY <1>2 DEF Answered
<1>6. QED
  BY <1>1, <1>2, <1>3, <1>4, <1>5, RequestGoesOn

\* The end of a reset calls the row a placeholder; it is one unless pages raced.
LEMMA SaveResetKeeps == ASSUME ClauseInv, NEW w \in Two, Clause!SaveReset(w)
                        PROVE  ClauseInv' /\ Kept
<1>. DEFINE seen == clauseReq[w].seen
            prov == [seen.prov EXCEPT !.placeholder = TRUE, !.real = FALSE]
            saved == [row EXCEPT !.status = "loaded", !.prov = prov]
<1>1. /\ seen \in Clause!Row /\ row \in Clause!Row /\ clauseReq[w].op = "status"
  BY DEF ClauseInv, ClauseTypeOK, Clause!Request, Clause!SaveReset
<1>2. prov \in Clause!Provenance
  BY <1>1 DEF Clause!Row, Clause!Provenance
<1>3. Clause!Save(w, saved) /\ clauseReq' = [clauseReq EXCEPT ![w] = Clause!Idle]
  BY DEF Clause!SaveReset, Clause!Done
<1>. HIDE DEF prov
<1>4. saved \in Clause!Row /\ saved.out = row.out
  BY <1>1, <1>2 DEF Clause!Row, Clause!Status
<1>5. ~raced => row.out = None
  BY <1>1 DEF ClauseInv, SeedsEmpty
<1>. HIDE DEF saved
<1>6. QED
  BY <1>3, <1>4, <1>5, IdleTypes, PageSaves

LEMMA UseSampleKeeps == ASSUME ClauseInv, NEW w \in Two, Clause!UseSample(w)
                        PROVE  ClauseInv' /\ Kept
<1>. DEFINE asked == [Clause!Idle EXCEPT !.op = "reset", !.seen = row]
<1>1. row \in Clause!Row /\ table \in Clause!Table
  BY DEF ClauseInv, ClauseTypeOK
<1>2. asked \in Clause!Request /\ asked.op = "reset"
  BY <1>1, IdleTypes DEF Clause!Request, Clause!Pages
<1>3. /\ clauseReq' = [clauseReq EXCEPT ![w] = asked]
      /\ UNCHANGED <<row, raced>> /\ blessed' = FALSE /\ source' = 1
      /\ table' = IF table.out = None THEN table ELSE [table EXCEPT !.mixed = TRUE]
  BY DEF Clause!UseSample
<1>4. source' \in 1..MaxText /\ table' \in Clause!Table
  <2>1. source' \in 1..MaxText
    BY <1>3, BoundsAssumption
  <2>2. \A t \in Clause!Table : [t EXCEPT !.mixed = TRUE] \in Clause!Table
    BY DEF Clause!Table
  <2>3. table' \in Clause!Table
    <3>1. CASE table.out = None
      BY <1>1, <1>3, <3>1
    <3>2. CASE table.out # None
      BY <1>1, <1>3, <2>2, <3>2
    <3>3. QED
      BY <3>1, <3>2
  <2>4. QED
    BY <2>1, <2>3
<1>. HIDE DEF asked
<1>5. Answered(asked)
  BY <1>2 DEF Answered
<1>6. QED
  BY <1>2, <1>3, <1>4, <1>5, RequestGoesOn

\* The workbench's source editor, in two steps.
LEMMA WorkbenchEditKeeps ==
  ASSUME ClauseInv, NEW w \in Two, Clause!ReplaceParagraphs(w) \/ Clause!SaveText(w)
  PROVE  ClauseInv' /\ Kept
<1>1. blessed' = FALSE /\ UNCHANGED <<row, raced>>
  BY DEF Clause!ReplaceParagraphs, Clause!SaveText
<1>2. CASE Clause!ReplaceParagraphs(w)
  <2>. DEFINE asked == [clauseReq[w] EXCEPT !.op = "text"]
  <2>1. /\ asked \in Clause!Request /\ asked.op = "text"
        /\ clauseReq' = [clauseReq EXCEPT ![w] = asked]
    BY <1>2, TurnTypes DEF Clause!ReplaceParagraphs
  <2>. HIDE DEF asked
  <2>2. Answered(asked) /\ source' \in 1..MaxText /\ table' \in Clause!Table
    BY <1>2, <2>1 DEF Answered, Clause!ReplaceParagraphs, Clause!Paragraphs, Clause!Table,
                      ClauseInv, ClauseTypeOK
  <2>3. QED
    BY <1>1, <2>1, <2>2, RequestGoesOn
<1>3. CASE Clause!SaveText(w)
  <2>1. /\ clauseReq' = [clauseReq EXCEPT ![w] = Clause!Idle]
        /\ source' \in 1..MaxText /\ table' \in Clause!Table
    BY <1>3, BoundsAssumption DEF Clause!SaveText, Clause!Done, ClauseInv, ClauseTypeOK
  <2>2. QED
    BY <1>1, <2>1, IdleTypes, RequestGoesOn
<1>4. QED
  BY <1>2, <1>3

\* The live page's source editor resets the row as well.
LEMMA LiveEditKeeps == ASSUME ClauseInv, NEW w \in Two, Clause!SaveLiveText(w)
                       PROVE  ClauseInv' /\ Kept
<1>1. /\ clauseReq' = [clauseReq EXCEPT ![w] = Clause!Idle] /\ clauseReq[w].op = "edit"
      /\ row' = Clause!Blank /\ table' = Clause!Paragraphs
      /\ source' \in 1..MaxText /\ blessed' = FALSE
  BY BoundsAssumption DEF Clause!SaveLiveText, Clause!Done, ClauseInv, ClauseTypeOK
<1>2. /\ clauseReq' \in [Two -> Clause!Request]
      /\ \A v \in Two : clauseReq'[v] = IF v = w THEN Clause!Idle ELSE clauseReq[v]
  BY <1>1, IdleTypes DEF ClauseInv, ClauseTypeOK
<1>3. ClauseTypeOK'
  BY <1>1, <1>2, RowTypes DEF ClauseTypeOK, Clause!Paragraphs, Clause!Table
<1>4. \A v \in Two : Answered(clauseReq'[v])
  BY <1>2, IdleTypes DEF ClauseInv
<1>5. SeedsEmpty'
  BY <1>1, RowTypes DEF SeedsEmpty
<1>6. Kept
  BY <1>1, <1>2, IdleTypes DEF Kept
<1>7. QED
  BY <1>1, <1>3, <1>4, <1>5, <1>6 DEF ClauseInv, Clause!AppliedIsSound

\* A command changes the row's status, coverage and provenance, not its output.
LEMMA CommandKeeps ==
  ASSUME ClauseInv, row' \in Clause!Row, row'.out = row.out,
         row'.prov.placeholder = row.prov.placeholder, table' \in Clause!Table,
         UNCHANGED <<source, clauseReq, raced>>, Clause!AppliedIsSound'
  PROVE  ClauseInv' /\ Kept
<1>1. ClauseTypeOK'
  BY DEF ClauseInv, ClauseTypeOK
<1>2. SeedsEmpty'
  BY DEF ClauseInv, SeedsEmpty
<1>3. QED
  BY <1>1, <1>2 DEF ClauseInv, Kept

LEMMA RevalidateKeeps == ASSUME ClauseInv, Clause!Revalidate PROVE ClauseInv' /\ Kept
<1>. DEFINE prov == [row.prov EXCEPT !.baseline = [out |-> row.out, text |-> source]]
<1>1. row \in Clause!Row /\ row.out \in Clause!Output /\ source \in 1..MaxText
  BY DEF ClauseInv, ClauseTypeOK, Clause!Revalidate, Clause!Row
<1>2. prov \in Clause!Provenance /\ prov.placeholder = row.prov.placeholder
  BY <1>1 DEF Clause!Row, Clause!Provenance
<1>3. /\ row' = [row EXCEPT !.covered = TRUE, !.prov = prov]
      /\ UNCHANGED <<source, table, clauseReq, raced>> /\ (blessed' => blessed /\ row' = row)
  BY <1>1 DEF Clause!Revalidate, Clause!Row
<1>. HIDE DEF prov
<1>4. row' \in Clause!Row /\ row'.out = row.out /\ row'.prov = prov
  BY <1>1, <1>2, <1>3 DEF Clause!Row
<1>5. Clause!AppliedIsSound'
  BY <1>3 DEF ClauseInv, Clause!AppliedIsSound, Clause!Materialized, Clause!Applicable,
              Clause!AlreadyApplied, Clause!Idempotent
<1>6. table' \in Clause!Table
  BY <1>3 DEF ClauseInv, ClauseTypeOK
<1>7. QED
  BY <1>2, <1>3, <1>4, <1>5, <1>6, CommandKeeps

\* What apply leaves is applied: it would be recognized as made already.
LEMMA ApplyKeeps == ASSUME ClauseInv, Clause!Apply PROVE ClauseInv' /\ Kept
<1>. DEFINE prov == [row.prov EXCEPT !.applied = TRUE, !.audit = row.out]
<1>1. /\ row \in Clause!Row /\ row.out \in Clause!Output /\ source \in 1..MaxText
      /\ table \in Clause!Table /\ Clause!Applicable
      /\ UNCHANGED <<source, clauseReq, raced>>
  BY DEF ClauseInv, ClauseTypeOK, Clause!Apply, Clause!Applicable, Clause!Row
<1>2. Clause!Covering(row.out) /\ row.out # None
  BY <1>1 DEF Clause!Applicable, Clause!Covering
<1>3. CASE /\ Clause!AlreadyApplied /\ Clause!Idempotent
           /\ UNCHANGED <<table, row>>
  <2>1. Clause!AppliedIsSound'
    BY <1>1, <1>2, <1>3 DEF Clause!AppliedIsSound, Clause!Materialized, Clause!Applicable,
                            Clause!AlreadyApplied, Clause!Idempotent, Clause!Covering
  <2>2. QED
    BY <1>1, <1>3, <2>1, CommandKeeps
<1>4. CASE /\ ~Clause!AlreadyApplied /\ Clause!Ready
           /\ table' = IF row.prov.applied THEN table ELSE [out |-> row.out, mixed |-> FALSE]
           /\ row' = [row EXCEPT !.status = "accepted", !.prov.applied = TRUE,
                                 !.prov.audit = row.out]
  <2>1. table' = [out |-> row.out, mixed |-> FALSE]
    BY <1>4 DEF Clause!Ready, Clause!Materialized
  <2>2. /\ prov \in Clause!Provenance /\ prov.placeholder = row.prov.placeholder
        /\ prov.applied /\ prov.audit = row.out /\ prov.executed = row.prov.executed
        /\ prov.real = row.prov.real /\ prov.baseline = row.prov.baseline
    BY <1>1 DEF Clause!Row, Clause!Provenance
  <2>3. row' = [row EXCEPT !.status = "accepted", !.prov = prov]
    BY <1>1, <1>4 DEF Clause!Row
  <2>. HIDE DEF prov
  <2>4. /\ row' \in Clause!Row /\ row'.out = row.out /\ row'.prov = prov
        /\ row'.status = "accepted" /\ row'.covered = row.covered
    BY <1>1, <2>2, <2>3 DEF Clause!Row, Clause!Status
  <2>5. Clause!AppliedIsSound'
    BY <1>1, <1>2, <2>1, <2>2, <2>4
       DEF Clause!AppliedIsSound, Clause!Materialized, Clause!Applicable,
           Clause!AlreadyApplied, Clause!Idempotent, Clause!Covering
  <2>6. table' \in Clause!Table
    BY <1>1, <2>1 DEF Clause!Table
  <2>7. QED
    BY <1>1, <2>2, <2>4, <2>5, <2>6, CommandKeeps
<1>5. QED
  BY <1>3, <1>4 DEF Clause!Apply

LEMMA ClauseStep == ClauseInv /\ [Clause!Next]_Clause!vars => ClauseInv' /\ Kept
<1>. SUFFICES ASSUME ClauseInv, [Clause!Next]_Clause!vars PROVE ClauseInv' /\ Kept
  OBVIOUS
<1>1. CASE UNCHANGED Clause!vars
  BY <1>1 DEF Clause!vars, ClauseInv, ClauseTypeOK, SeedsEmpty, Kept, Clause!AppliedIsSound,
              Clause!Materialized, Clause!Applicable, Clause!AlreadyApplied, Clause!Idempotent
<1>2. CASE Clause!Next
  BY <1>2, BeginKeeps, AnswerKeeps, QuietKeeps, ReplaceClausesKeeps, SaveRunKeeps,
     SaveFailureKeeps, SaveActionKeeps, SaveSeedKeeps, RereadKeeps, SaveResetKeeps,
     UseSampleKeeps, WorkbenchEditKeeps, LiveEditKeeps, RevalidateKeeps, ApplyKeeps
     DEF Clause!Next
<1>3. QED
  BY <1>1, <1>2

-----------------------------------------------------------------------------
(* A behaviour of MCSpec is, for each part, a behaviour of its component:   *)
(* the part moves by the component's own next-state relation or not at all. *)

allvars == <<part, closure, clause, store, overlap, export, api, control>>

LEMMA StoreMoves == MCSpec => Store!Spec
<1>1. MCInit => Store!Init
  BY DEF MCInit
<1>2. [MCNext]_allvars => [Store!Next]_Store!vars
  BY DEF MCNext, allvars, store, Store!vars
<1>3. QED
  BY <1>1, <1>2, PTL DEF MCSpec, Store!Spec, allvars

LEMMA OverlapMoves == MCSpec => Overlap!Spec
<1>1. MCInit => Overlap!Init
  BY DEF MCInit
<1>2. [MCNext]_allvars => [Overlap!Next]_Overlap!vars
  BY DEF MCNext, allvars, overlap, Overlap!vars
<1>3. QED
  BY <1>1, <1>2, PTL DEF MCSpec, Overlap!Spec, allvars

LEMMA ControlMoves == MCSpec => Control!Spec
<1>1. MCInit => Control!Init
  BY DEF MCInit
<1>2. [MCNext]_allvars => [Control!Next]_Control!vars
  BY DEF MCNext, allvars, control, Control!vars
<1>3. QED
  BY <1>1, <1>2, PTL DEF MCSpec, Control!Spec, allvars

\* One process at a time: what the composition's store of headword reviews goes through
\* is a behaviour of the append-only ReviewStore (event_headword_review.py:198-271, 527-551).
THEOREM OneProcessRefines == MCSpec => StoreRefined
<1>1. Store!Spec => Store!StoreRefined
  BY NoneAssumption, OneAssumption, Store!StoreAlwaysRefines DEF Store!OneAtATime
<1>2. QED
  BY <1>1, StoreMoves, PTL DEF StoreRefined

\* However two processes overlap, and wherever one dies: each item of the shared file is
\* one its own log explains (event_headword_review.py:198-271, 368-519).
THEOREM OverlapSound == MCSpec => []StoredItemsSound
<1>1. Overlap!Spec => []Overlap!StoredItemsSound
  BY NoneAssumption, Overlap!StoreAlwaysSound
<1>2. Overlap!StoredItemsSound => StoredItemsSound
  BY DEF StoredItemsSound
<1>3. QED
  BY <1>1, <1>2, OverlapMoves, PTL

\* No attempt on the GPU that is written down as without a model call had one
\* (entity_generation.py:733-882, gpu_local.py:406-428).
THEOREM AuditTells == MCSpec => []AuditTellsCalls
<1>1. Control!Spec => []Control!AuditTellsCalls
  BY Control!AuditAlwaysTellsCalls
<1>2. Control!AuditTellsCalls => AuditTellsCalls
  BY DEF AuditTellsCalls
<1>3. QED
  BY <1>1, <1>2, ControlMoves, PTL

\* A careful run's call has both diagnostics behind it, passed for its size by the
\* process it saw (gpu_readiness.py:79-150, entity_generation.py:221-258).
THEOREM AllCallsWarranted == MCSpec => []CallsWarranted
<1>1. Control!Spec => []Control!CallsWarranted
  BY Control!CallsAlwaysWarranted
<1>2. Control!CallsWarranted => CallsWarranted
  BY DEF CallsWarranted
<1>3. QED
  BY <1>1, <1>2, ControlMoves, PTL

LEMMA ApiMoves == MCSpec => Api!Spec
<1>1. MCInit => Api!Init
  BY DEF MCInit
<1>2. [MCNext]_allvars => [Api!Next]_Api!vars
  BY DEF MCNext, allvars, api, Api!vars
<1>3. QED
  BY <1>1, <1>2, PTL DEF MCSpec, Api!Spec, allvars

LEMMA ApiInvHolds == MCSpec => []ApiInv
<1>1. Api!Init => ApiInv
  BY InitApiInv
<1>2. ApiInv /\ [Api!Next]_Api!vars => ApiInv'
  BY ApiStep
<1>3. QED
  BY <1>1, <1>2, ApiMoves, PTL DEF Api!Spec

\* Once a token is revoked it stays so, whatever requests had read of it before
\* (auth.py:117-127, api.py:251-262).
THEOREM RevokedAlwaysStays == MCSpec => RevokedForGood
<1>1. ApiInv /\ [Api!Next]_Api!vars =>
        [\A t \in Tokens : tokens[t] # None => /\ tokens'[t] # None
                                               /\ tokens[t].revoked => tokens'[t].revoked]_Api!vars
  BY ApiStep DEF TokensKept
<1>2. QED
  BY <1>1, ApiInvHolds, ApiMoves, PTL DEF Api!Spec, RevokedForGood, Api!RevokedForGood

\* Of the creates of one key that race past each other's look, one is let in, and its row
\* is stored as it was asked for until a delete of the key is answered
\* (api.py:296-317, 373-386).
THEOREM CreatesAlwaysStand == MCSpec => []CreatesStand
<1>1. ApiInv => CreatesStand
  BY DEF ApiInv, CreatesStand
<1>2. QED
  BY <1>1, ApiInvHolds, PTL

LEMMA ExportMoves == MCSpec => Export!Spec
<1>1. MCInit => Export!Init
  BY DEF MCInit
<1>2. [MCNext]_allvars => [Export!Next]_Export!vars
  BY DEF MCNext, allvars, export, Export!db, Export!vars
<1>3. QED
  BY <1>1, <1>2, PTL DEF MCSpec, Export!Spec, allvars

\* Whatever runs, edits and reviews commit while a package is being read, every attempt
\* that the provenance of one of its stage outputs names is in its audit
\* (export_contract.py:19-129).
THEOREM PackagesAudited == MCSpec => []AuditCoversRuns
<1>1. ExportInv /\ [Export!Next]_Export!vars => ExportInv'
  BY ExportStep
<1>2. ExportInv => AuditCoversRuns
  BY DEF ExportInv, AuditCoversRuns
<1>3. QED
  BY <1>1, <1>2, InitExportInv, ExportMoves, PTL DEF Export!Spec

LEMMA ClauseMoves == MCSpec => Clause!Spec
<1>1. MCInit => Clause!Init
  BY DEF MCInit
<1>2. [MCNext]_allvars => [Clause!Next]_Clause!vars
  BY DEF MCNext, allvars, clause, Clause!vars
<1>3. QED
  BY <1>1, <1>2, PTL DEF MCSpec, Clause!Spec, allvars

LEMMA ClauseInvHolds == MCSpec => []ClauseInv
<1>1. MCInit => ClauseInv
  BY InitClauseInv DEF MCInit
<1>2. ClauseInv /\ [Clause!Next]_Clause!vars => ClauseInv'
  BY ClauseStep
<1>3. QED
  BY <1>1, <1>2, ClauseMoves, PTL DEF MCSpec, Clause!Spec

\* However runs, saves and pages overlap: what apply reports as applied is the row's
\* output, in the clause table, reproducing the text as it is, and apply would recognize
\* it (clause_application.py:40-186).
THEOREM AppliedAlwaysSound == MCSpec => []AppliedIsSound
<1>1. ClauseInv => AppliedIsSound
  BY DEF ClauseInv, AppliedIsSound
<1>2. QED
  BY <1>1, ClauseInvHolds, PTL

\* Unless a page saved a copy of an older row, only a reset, a fixture run or an edit of
\* the text takes a generated output away (views.py:297-353).
THEOREM GeneratedAlwaysKept == MCSpec => GeneratedKept
<1>1. ClauseInv /\ [Clause!Next]_Clause!vars =>
        [ ~raced' /\ row.out # None /\ row'.out = None =>
            \E w \in Two : /\ clauseReq[w].op \in {"reset", "fixture", "edit"}
                           /\ clauseReq'[w] # clauseReq[w] ]_Clause!vars
  BY ClauseStep DEF Kept
<1>2. QED
  BY <1>1, ClauseInvHolds, ClauseMoves, PTL DEF Clause!Spec, GeneratedKept, Clause!GeneratedKept
=============================================================================
