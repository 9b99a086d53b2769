----------------------------- MODULE RegistryApi -----------------------------
(***************************************************************************)
(* Requests to the registry API: each authenticates, looks at what is      *)
(* stored, and commits, in database sessions of their own, so that other   *)
(* requests come in between.  Agents send them through the tools of the    *)
(* MCP server, whose client stops waiting after a while and cannot know    *)
(* what became of the request.                                             *)
(*   app/auth.py, app/api.py, mcp-server/src/fast_gathr_mcp/               *)
(***************************************************************************)
EXTENDS Naturals, FiniteSets

CONSTANTS Requests,   \* requests that are sent
          Tokens,     \* API tokens
          Users,
          Keys,       \* identifiers a caller chooses
          Parents,    \* table of parents and the table of its children:
          Children,   \* a child holds the key of one parent
          None

VARIABLES
  stored,    \* rows: [table, key, parent], parent only of children
  users,     \* users that exist and may log in
  tokens,    \* rows of ApiToken
  session,   \* users that hold a JWT that has not expired
  req        \* the requests

vars == <<stored, users, tokens, session, req>>

\* A request: what it asks with which token, how far it is, what it read of the token,
\* its answer, and whether its caller still waits.
Unsent == [op |-> "none", stage |-> "unsent"]
Rows == [table : {Parents}, key : Keys, parent : {None}]
          \cup [table : {Children}, key : Keys, parent : Keys]

Init == /\ stored \in {S \in SUBSET Rows : \A o \in S : o.table = Children =>
                          \E p \in S : p.table = Parents /\ p.key = o.parent}
        /\ session = {}
        /\ users \in {{u} : u \in Users}
        /\ tokens = [t \in Tokens |-> None]
        /\ req = [r \in Requests |-> Unsent]

SameKey(o, row) == o.table = row.table /\ o.key = row.key
Taken(row) == \E o \in stored : SameKey(o, row)
Dangling(row) == row.table = Children
                   /\ ~\E o \in stored : o.table = Parents /\ o.key = row.parent
Referenced(row) == row.table = Parents
                     /\ \E o \in stored : o.table = Children /\ o.parent = row.key

Answer(r, code) == [req EXCEPT ![r].stage = "done", ![r].answer = code]

-----------------------------------------------------------------------------
\* POST /token: a user logs in; the JWT is not stored and expires by itself.
Login(u) == /\ u \in users \ session
            /\ session' = session \cup {u}
            /\ UNCHANGED <<stored, users, tokens, req>>
Expire(u) == /\ u \in session
             /\ session' = session \ {u}
             /\ UNCHANGED <<stored, users, tokens, req>>

\* POST /users/: an administrator adds a user whose name is free.
CreateUser(u) == /\ session # {} /\ u \in Users \ users
                 /\ users' = users \cup {u}
                 /\ UNCHANGED <<stored, tokens, session, req>>

\* POST /tokens and DELETE /tokens/{id}: a user makes a token, and revokes one of their own.
CreateToken(u, t) ==
  /\ u \in session /\ tokens[t] = None
  /\ tokens' = [tokens EXCEPT ![t] = [owner |-> u, used |-> FALSE, revoked |-> FALSE]]
  /\ UNCHANGED <<stored, users, session, req>>

Revoke(u, t) ==
  /\ u \in session /\ tokens[t] # None /\ tokens[t].owner = u /\ ~tokens[t].revoked
  /\ tokens' = [tokens EXCEPT ![t].revoked = TRUE]
  /\ UNCHANGED <<stored, users, session, req>>

\* An agent calls a tool with the token of its connector; the client builds the request.
Send(r, op, t, row) ==
  /\ req[r] = Unsent
  /\ req' = [req EXCEPT ![r] = [op |-> op, token |-> t, row |-> row, stage |-> "auth",
                                read |-> None, answer |-> 0, waiting |-> TRUE]]
  /\ UNCHANGED <<stored, users, tokens, session>>

\* get_current_user: the row of the token is read,
Authenticate(r) ==
  /\ req[r].stage = "auth"
  /\ LET row == tokens[req[r].token]
     IN IF row = None \/ (row # None /\ row.revoked)
          THEN req' = Answer(r, 401)
          ELSE req' = [req EXCEPT ![r].stage = "touch", ![r].read = row]
  /\ UNCHANGED <<stored, users, tokens, session>>

\* and its time of last use written, that column alone, or not, if the commit fails.
TouchTokenWhole(r) ==
  /\ req[r].stage = "touch"
  /\ tokens' = [tokens EXCEPT ![req[r].token] = [req[r].read EXCEPT !.used = TRUE]]
  /\ req' = [req EXCEPT ![r].stage = "look"]
  /\ UNCHANGED <<stored, users, session>>

TouchToken(r) ==
  /\ req[r].stage = "touch"
  /\ \/ tokens' = [tokens EXCEPT ![req[r].token].used = TRUE]
     \/ UNCHANGED tokens
  /\ req' = [req EXCEPT ![r].stage = "look"]
  /\ UNCHANGED <<stored, users, session>>

\* The handler looks the key up: a create finds it free, a delete finds the row.
Look(r) ==
  /\ req[r].stage = "look"
  /\ req' = CASE req[r].op = "create" /\ Taken(req[r].row) -> Answer(r, 409)
              [] req[r].op = "delete" /\ ~Taken(req[r].row) -> Answer(r, 404)
              [] OTHER -> [req EXCEPT ![r].stage = "commit"]
  /\ UNCHANGED <<stored, users, tokens, session>>

\* _create commits; whatever the database refuses, a key that has been taken since or
\* a reference to nothing, is a bad request.
CommitCreateMerging(r) ==
  /\ req[r].stage = "commit" /\ req[r].op = "create"
  /\ IF Dangling(req[r].row)
       THEN req' = Answer(r, 400) /\ UNCHANGED stored
       ELSE /\ stored' = {o \in stored : ~SameKey(o, req[r].row)} \cup {req[r].row}
            /\ req' = [req EXCEPT ![r].stage = "refresh"]
  /\ UNCHANGED <<users, tokens, session>>

CommitCreate(r) ==
  /\ req[r].stage = "commit" /\ req[r].op = "create"
  /\ IF Taken(req[r].row) \/ Dangling(req[r].row)
       THEN req' = Answer(r, 400) /\ UNCHANGED stored
       ELSE /\ stored' = stored \cup {req[r].row}
            /\ req' = [req EXCEPT ![r].stage = "refresh"]
  /\ UNCHANGED <<users, tokens, session>>

\* The new row is read back; where it has been deleted already, that fails.
Refresh(r) ==
  /\ req[r].stage = "refresh"
  /\ req' = Answer(r, IF Taken(req[r].row) THEN 201 ELSE 500)
  /\ UNCHANGED <<stored, users, tokens, session>>

\* _delete commits; a row that is still referenced is a conflict, one that is gone is not.
CommitDelete(r) ==
  /\ req[r].stage = "commit" /\ req[r].op = "delete"
  /\ IF Referenced(req[r].row)
       THEN req' = Answer(r, 409) /\ UNCHANGED stored
       ELSE /\ stored' = {o \in stored : ~SameKey(o, req[r].row)}
            /\ req' = Answer(r, 204)
  /\ UNCHANGED <<users, tokens, session>>

\* The client stops waiting, or the connection breaks: ApiError 0.  The request goes on.
GiveUp(r) ==
  /\ req[r].stage # "unsent" /\ req[r].waiting
  /\ req' = [req EXCEPT ![r].waiting = FALSE]
  /\ UNCHANGED <<stored, users, tokens, session>>

Serve(r) == \/ Authenticate(r) \/ TouchToken(r) \/ Look(r)
            \/ CommitCreate(r) \/ Refresh(r) \/ CommitDelete(r)

Next == \/ \E u \in Users : \/ Login(u) \/ Expire(u) \/ CreateUser(u)
                            \/ \E t \in Tokens : CreateToken(u, t) \/ Revoke(u, t)
        \/ \E r \in Requests :
             \/ \E op \in {"create", "delete"}, t \in Tokens, row \in Rows : Send(r, op, t, row)
             \/ Serve(r) \/ GiveUp(r)

Spec == Init /\ [][Next]_vars

-----------------------------------------------------------------------------
\* A revoked token stays revoked: requests that read it before it was revoked still
\* write its time of last use afterwards (auth.py:121-127).
RevokedForGood ==
  [][\A t \in Tokens : tokens[t] # None => /\ tokens'[t] # None
                                           /\ tokens[t].revoked => tokens'[t].revoked]_vars

\* A create that has committed, and a delete that has.
Created(r) == /\ req[r].op = "create"
              /\ req[r].stage = "refresh" \/ (req[r].stage = "done" /\ req[r].answer = 201)
Deleted(r) == req[r].op = "delete" /\ req[r].stage = "done" /\ req[r].answer = 204

\* Creates of one key race past each other's look, and callers that gave up send again
\* (api.py:296-317, mcp-server client.py): the row of a create that has been let in is
\* stored as it was asked for, and no other create of its key has been let in, unless a
\* delete of the key has.
CreatesStand ==
  \A r \in Requests : Created(r) =>
    \/ /\ req[r].row \in stored
       /\ \A q \in Requests \ {r} : Created(q) => ~SameKey(req[q].row, req[r].row)
    \/ \E d \in Requests : Deleted(d) /\ SameKey(req[d].row, req[r].row)
=============================================================================
