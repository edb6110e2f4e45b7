--------------------------- MODULE AccountsProofs ---------------------------
(***************************************************************************)
(* Proofs about module Accounts, for any clients, names, passwords and     *)
(* lengths, any number of failed queries and any number of restarts.       *)
(***************************************************************************)
EXTENDS Accounts, FiniteSetTheorems, TLAPS

-----------------------------------------------------------------------------
(* The inductive invariant. *)

Passwds  == {Passwd[c] : c \in Client}
RowSet == [passwd : Passwds, user_id : Users]
Taken    == {n \in Names : rows[n] # NoRow}   \* the names that have a row

\* The table: MySQL has numbered the rows from 1 on.
RowsInv ==
    /\ rows \in [Names -> RowSet \cup {NoRow}]
    /\ next_id = Cardinality(Taken) + 1

\* The request under way: an insert is made only for a name that has no row,
\* and the last query only for a row with the client's password.
ReqInv ==
    \/ req = Idle
    \/ /\ req \in [client : Client, kind : {"login", "regist"},
                   query : {"find", "insert", "id"}]
       /\ req.query = "insert" => Row = NoRow
       /\ req.query = "id" => Row # NoRow /\ Row.passwd = Passwd[req.client]

\* What holds in every state, strong enough to be kept by every step.
IInv == TypeOK /\ SessionOwned /\ RowsInv /\ ReqInv

\* Everything is kept by a step that leaves table and sessions alone.
LEMMA OnlyRequest ==
    ASSUME IInv, UNCHANGED <<rows, next_id, persons, session>>, ReqInv',
           answer' \in [Client -> {"none", "succeed", "failed", "used", "already", "db_error"}],
           fails' \in 0 .. MaxFails, crashes' \in 0 .. MaxCrashes
    PROVE  IInv'
  <1>1. SessionOwned'
    BY DEF IInv, SessionOwned
  <1>2. RowsInv'
    BY DEF IInv, RowsInv, Taken
  <1>3. TypeOK'
    <2>1. /\ req'.client \in Client \cup {NoRow}
          /\ req'.kind \in {"none", "login", "regist"}
          /\ req'.query \in {"none", "find", "insert", "id"}
      BY DEF ReqInv, Idle
    <2> QED BY <2>1 DEF IInv, TypeOK
  <1> QED BY <1>1, <1>2, <1>3 DEF IInv

\* The names are finitely many.
LEMMA NamesFinite == IsFiniteSet(Names) /\ Cardinality(Names) \in Nat
  <1> DEFINE f == [c \in Client |-> Name[c]]
  <1>1. f \in Surjection(Client, Names)
    BY DEF Surjection, Names
  <1>2. IsFiniteSet(Names)
    BY <1>1, FS_Surjection, AccountsAssumption
  <1> QED BY <1>2, FS_CardinalityType

\* MySQL's next number is one of a user, as long as a name has no row.
LEMMA NextIdFree ==
    ASSUME IInv, NEW n \in Names, rows[n] = NoRow
    PROVE  next_id \in Users
  <1>1. Taken \in SUBSET Names /\ Taken # Names
    BY DEF Taken
  <1>2. /\ IsFiniteSet(Taken) /\ Cardinality(Taken) \in Nat
        /\ Cardinality(Taken) <= Cardinality(Names) /\ Cardinality(Taken) # Cardinality(Names)
    BY <1>1, NamesFinite, FS_Subset, FS_CardinalityType
  <1> QED BY <1>2, NamesFinite DEF IInv, RowsInv, Users

\* The insert adds a row for the client's name and leaves the others alone.
LEMMA InsertAdds ==
    ASSUME IInv, At("insert"), InsertRow
    PROVE  /\ req.client \in Client
           /\ rows[Name[req.client]] = NoRow
           /\ RowsInv' /\ next_id' \in Nat \ {0}
           /\ \A n \in Names \ {Name[req.client]} : rows'[n] = rows[n]
           /\ rows'[Name[req.client]] # NoRow
           /\ rows'[Name[req.client]].passwd = Passwd[req.client]
  <1> DEFINE n == Name[req.client]
             r == [passwd |-> Passwd[req.client], user_id |-> next_id]
  <1>1. req.client \in Client /\ n \in Names /\ rows[n] = NoRow
    BY DEF At, IInv, ReqInv, Idle, Row, Names
  <1>2. next_id \in Users
    BY <1>1, NextIdFree
  <1>3. r \in RowSet /\ r # NoRow /\ r.passwd = Passwd[req.client]
    BY <1>1, <1>2, AccountsAssumption DEF RowSet, Passwds
  <1>4. rows' = [rows EXCEPT ![n] = r] /\ next_id' = next_id + 1
    BY DEF InsertRow
  <1>5. rows \in [Names -> RowSet \cup {NoRow}]
    BY DEF IInv, RowsInv
  <1>6. /\ rows' \in [Names -> RowSet \cup {NoRow}]
        /\ rows'[n] = r /\ \A m \in Names \ {n} : rows'[m] = rows[m]
    BY <1>1, <1>3, <1>4, <1>5
  <1>7. Taken' = Taken \cup {n} /\ n \notin Taken
    BY <1>1, <1>3, <1>6 DEF Taken
  <1>8. Cardinality(Taken') = Cardinality(Taken) + 1 /\ Cardinality(Taken) \in Nat
    <2>1. IsFiniteSet(Taken) /\ Cardinality(Taken) \in Nat
      BY NamesFinite, FS_Subset, FS_CardinalityType DEF Taken
    <2> QED BY <1>7, <2>1, FS_AddElement
  <1>9. RowsInv' /\ next_id' \in Nat \ {0}
    BY <1>4, <1>6, <1>8 DEF IInv, RowsInv
  <1> QED BY <1>1, <1>3, <1>6, <1>9

\* ... and so keeps every session.
LEMMA InsertKeeps ==
    ASSUME IInv, At("insert"), InsertRow, UNCHANGED <<persons, session>>, ReqInv',
           answer' \in [Client -> {"none", "succeed", "failed", "used", "already", "db_error"}],
           fails' \in 0 .. MaxFails, crashes' \in 0 .. MaxCrashes
    PROVE  IInv'
  <1>1. SessionOwned'
    BY InsertAdds DEF IInv, SessionOwned, Names
  <1>2. RowsInv'
    BY InsertAdds
  <1>3. TypeOK'
    <2>1. /\ req'.client \in Client \cup {NoRow}
          /\ req'.kind \in {"none", "login", "regist"}
          /\ req'.query \in {"none", "find", "insert", "id"}
      BY DEF ReqInv, Idle
    <2>2. \A n \in Names : rows'[n] # NoRow =>
            rows'[n].user_id \in Users /\ rows'[n].passwd \in Passwds
      BY <1>2 DEF RowsInv, RowSet
    <2> QED BY <2>1, <2>2, InsertAdds DEF IInv, TypeOK, Passwds
  <1> QED BY <1>1, <1>2, <1>3 DEF IInv

-----------------------------------------------------------------------------
(* The steps. *)

\* A request comes, and its first query looks for the name.
LEMMA FindSteps ==
    ASSUME IInv, (\E c \in Client, kind \in {"login", "regist"} : Request(c, kind))
                 \/ LoginFind \/ RegistFind
    PROVE  IInv'
  <1>1. ASSUME NEW c \in Client, NEW kind \in {"login", "regist"}, Request(c, kind)
        PROVE  IInv'
    <2>1. ReqInv'
      BY <1>1 DEF Request, ReqInv
    <2> QED BY <1>1, <2>1, OnlyRequest DEF Request, IInv, TypeOK
  <1>2. CASE LoginFind \/ RegistFind
    <2>1. /\ req \in [client : Client, kind : {"login", "regist"},
                      query : {"find", "insert", "id"}]
          /\ UNCHANGED <<rows, next_id, persons, session, fails, crashes>>
      BY <1>2 DEF LoginFind, RegistFind, At, IInv, ReqInv, Idle
    <2>2. CASE LoginFind
      BY <2>1, <2>2, OnlyRequest
         DEF LoginFind, Matches, Reply, ReqInv, Row, IInv, TypeOK
    <2>3. CASE RegistFind
      BY <2>1, <2>3, OnlyRequest
         DEF RegistFind, Used, Reply, ReqInv, Row, IInv, TypeOK
    <2> QED BY <1>2, <2>2, <2>3
  <1> QED BY <1>1, <1>2

\* The insert goes through, or a query fails and may have been carried out.
LEMMA InsertSteps ==
    ASSUME IInv, RegistInsert \/ QueryFails PROVE IInv'
  <1>1. CASE RegistInsert
    <2>1. At("insert") /\ InsertRow /\ UNCHANGED <<persons, session, answer, fails, crashes>>
          /\ req' = [req EXCEPT !.query = "id"]
      BY <1>1 DEF RegistInsert
    <2>2. req \in [client : Client, kind : {"login", "regist"},
                   query : {"find", "insert", "id"}]
      BY <2>1 DEF At, IInv, ReqInv, Idle
    <2>3. ReqInv'
      BY <2>1, <2>2, InsertAdds DEF ReqInv, Row
    <2> QED BY <2>1, <2>3, InsertKeeps DEF IInv, TypeOK
  <1>2. CASE QueryFails
    <2>1. /\ req' = Idle /\ answer' = [answer EXCEPT ![req.client] = "db_error"]
          /\ UNCHANGED <<persons, session, crashes>>
          /\ UNCHANGED <<rows, next_id>> \/ (At("insert") /\ InsertRow)
      BY <1>2 DEF QueryFails, Reply
    <2>2. fails' \in 0 .. MaxFails /\ crashes' \in 0 .. MaxCrashes
      BY <1>2, AccountsAssumption DEF QueryFails, IInv, TypeOK
    <2>3. ReqInv'
      BY <2>1 DEF ReqInv
    <2>4. answer' \in [Client -> {"none", "succeed", "failed", "used", "already", "db_error"}]
      BY <2>1 DEF IInv, TypeOK
    <2> QED BY <2>1, <2>2, <2>3, <2>4, OnlyRequest, InsertKeeps
  <1> QED BY <1>1, <1>2

\* The last query: the user who is logged in has no other session.
LEMMA GetUserIdStep ==
    ASSUME IInv, GetUserId PROVE IInv'
  <1> DEFINE c == req.client
             u == UserId
  <1>1. /\ c \in Client /\ Name[c] \in Names /\ u = rows[Name[c]].user_id
        /\ rows[Name[c]] # NoRow /\ rows[Name[c]].passwd = Passwd[c] /\ u \in Users
    <2>1. c \in Client /\ Row # NoRow /\ Row.passwd = Passwd[c]
      BY DEF GetUserId, At, IInv, ReqInv, Idle
    <2> QED BY <2>1 DEF Row, UserId, Names, IInv, TypeOK
  <1>2. UNCHANGED <<rows, next_id, fails, crashes>> /\ req' = Idle
    BY DEF GetUserId, Reply
  <1>3. answer' \in [Client -> {"none", "succeed", "failed", "used", "already", "db_error"}]
    BY DEF GetUserId, Reply, IInv, TypeOK
  <1>4. ReqInv' /\ RowsInv'
    BY <1>2 DEF ReqInv, IInv, RowsInv, Taken
  <1>5. CASE AlreadyLogin(u)
    <2>1. UNCHANGED <<persons, session>>
      BY <1>5 DEF GetUserId
    <2> QED BY <1>2, <1>3, <1>4, <2>1, OnlyRequest DEF IInv, TypeOK
  <1>6. CASE ~AlreadyLogin(u)
    <2>1. persons' = persons \cup {u} /\ session' = [session EXCEPT ![c] = u]
      BY <1>6 DEF GetUserId
    <2>2. session \in [Client -> Users \cup {0}]
      BY DEF IInv, TypeOK
    <2>3. session' \in [Client -> Users \cup {0}] /\ session'[c] = u
          /\ \A d \in Client \ {c} : session'[d] = session[d]
      BY <1>1, <2>1, <2>2
    <2>4. \A d \in Client : session[d] # u \/ session[d] = 0
      BY <1>6 DEF AlreadyLogin, IInv, SessionOwned
    <2>5. u # 0
      BY <1>1, NamesFinite DEF Users
    <2>6. SessionOwned'
      <3>1. ASSUME NEW d \in Client, session'[d] # 0
            PROVE  /\ rows'[Name[d]] # NoRow
                   /\ rows'[Name[d]].passwd = Passwd[d] /\ rows'[Name[d]].user_id = session'[d]
                   /\ session'[d] \in persons'
        <4>1. CASE d = c
          BY <1>1, <1>2, <2>1, <2>3, <4>1
        <4>2. CASE d # c
          BY <1>2, <2>1, <2>3, <3>1, <4>2 DEF IInv, SessionOwned
        <4> QED BY <4>1, <4>2
      <3>2. ASSUME NEW d \in Client, NEW e \in Client, session'[d] # 0, session'[d] = session'[e]
            PROVE  d = e
        BY <2>3, <2>4, <2>5, <3>2 DEF IInv, SessionOwned
      <3> QED BY <3>1, <3>2 DEF SessionOwned
    <2>7. persons' \subseteq Users
      BY <1>1, <2>1 DEF IInv, TypeOK
    <2>8. TypeOK'
      BY <1>2, <1>3, <2>3, <2>7 DEF IInv, TypeOK, Idle
    <2> QED BY <1>4, <2>6, <2>8 DEF IInv
  <1> QED BY <1>5, <1>6

\* The answer does not reach the client, who is logged out.
LEMMA ReplyFailsStep ==
    ASSUME IInv, ReplyFails PROVE IInv'
  BY OnlyRequest, AccountsAssumption DEF ReplyFails, ReqInv, IInv, TypeOK

\* A client leaves.
LEMMA LogoutStep ==
    ASSUME IInv, NEW c \in Client, Logout(c) PROVE IInv'
  <1>1. /\ session' = [session EXCEPT ![c] = 0] /\ persons' = persons \ {session[c]}
        /\ UNCHANGED <<rows, next_id, req, answer, fails, crashes>> /\ session[c] # 0
    BY DEF Logout, Departed
  <1>2. session' \in [Client -> Users \cup {0}] /\ session'[c] = 0
        /\ \A d \in Client \ {c} : session'[d] = session[d]
    BY <1>1 DEF IInv, TypeOK
  <1>3. TypeOK'
    BY <1>1, <1>2 DEF IInv, TypeOK
  <1>4. SessionOwned'
    BY <1>1, <1>2 DEF IInv, SessionOwned
  <1>5. RowsInv' /\ ReqInv'
    BY <1>1 DEF IInv, RowsInv, ReqInv, Taken, Row
  <1> QED BY <1>3, <1>4, <1>5 DEF IInv

\* The process starts again with the rows it finds.
LEMMA RestartStep ==
    ASSUME IInv, Restart PROVE IInv'
  <1>1. TypeOK'
    BY AccountsAssumption DEF Restart, IInv, TypeOK, Idle
  <1>2. SessionOwned'
    BY DEF Restart, SessionOwned
  <1>3. RowsInv' /\ ReqInv'
    BY DEF Restart, IInv, RowsInv, ReqInv, Taken
  <1> QED BY <1>1, <1>2, <1>3 DEF IInv

\* The invariant holds initially and is kept by every step.
THEOREM Invariant == Spec => []IInv
  <1>1. Init => IInv
    <2> SUFFICES ASSUME Init PROVE IInv
      OBVIOUS
    <2>1. Taken = {} /\ rows \in [Names -> RowSet \cup {NoRow}]
      BY DEF Init, Taken
    <2>2. RowsInv
      BY <2>1, FS_EmptySet DEF Init, RowsInv
    <2>3. TypeOK /\ SessionOwned /\ ReqInv
      BY AccountsAssumption DEF Init, TypeOK, SessionOwned, ReqInv, Idle
    <2> QED BY <2>2, <2>3 DEF IInv
  <1>2. IInv /\ [Next]_vars => IInv'
    <2> SUFFICES ASSUME IInv, [Next]_vars PROVE IInv'
      OBVIOUS
    <2>1. CASE UNCHANGED vars
      BY <2>1, OnlyRequest DEF vars, IInv, TypeOK, ReqInv, Row
    <2> QED BY <2>1, FindSteps, InsertSteps, GetUserIdStep, ReplyFailsStep, LogoutStep,
               RestartStep DEF Next, Server
  <1> QED BY <1>1, <1>2, PTL DEF Spec

-----------------------------------------------------------------------------
(* The theorems. *)

\* Whoever is logged in owns the account and is its only session, through failed
\* queries, repeated requests and restarts between any two queries.
THEOREM SessionsCorrect == Spec => []SessionsRight
  <1>1. IInv => SessionsRight
    BY DEF IInv, SessionsRight
  <1> QED BY <1>1, Invariant, PTL

\* A row that is in the table stays as it is.
THEOREM AccountsStay == Spec => AccountsKept
  <1> DEFINE Kept == \A n \in Names : rows[n] # NoRow => rows'[n] = rows[n]
  <1>1. IInv /\ [Next]_vars => [Kept]_rows
    <2> SUFFICES ASSUME IInv, Next, rows' # rows PROVE Kept
      BY DEF vars
    <2>1. At("insert") /\ InsertRow
      BY DEF Next, Server, Request, Logout, LoginFind, RegistFind, RegistInsert, QueryFails,
             GetUserId, ReplyFails, Restart
    <2> QED BY <2>1, InsertAdds
  <1> QED BY <1>1, Invariant, PTL DEF Spec, AccountsKept
=============================================================================
