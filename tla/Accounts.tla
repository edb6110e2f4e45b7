------------------------------ MODULE Accounts ------------------------------
(***************************************************************************)
(* Login and the handlers MP_CSLogin and MP_CSRegist: accounts are rows of *)
(* a MySQL table, and a request is a sequence of queries of which each may *)
(* fail.  A query that fails may still have been carried out; the server   *)
(* may end between two of them; rows stay, logged-in users do not.         *)
(*                                                                         *)
(* Every mysql_real_query passes 60 as the length of the statement, so a   *)
(* longer one is cut off.  Lengths are modelled, texts are not.  A shorter *)
(* statement ends at the NUL after its semicolon; one that loses nothing   *)
(* but the semicolon is still a statement.                                 *)
(***************************************************************************)
EXTENDS Integers, FiniteSets

CONSTANTS
    Client,    \* the clients
    Name,      \* the account name each one uses
    Passwd,    \* its password
    NameLen,   \* the length of that name
    PasswdLen, \* the length of that password
    MaxFails,  \* bound: queries and replies that fail
    MaxCrashes,  \* bound: restarts of the server
    NoRow      \* no row

Names == {Name[c] : c \in Client}
Users == 1 .. Cardinality(Names)

ASSUME AccountsAssumption ==
    /\ IsFiniteSet(Client)
    /\ NameLen \in [Client -> Nat] /\ PasswdLen \in [Client -> Nat]
    /\ \A c, d \in Client : Name[c] = Name[d] => NameLen[c] = NameLen[d]
    /\ \A c \in Client, u \in Users : [passwd |-> Passwd[c], user_id |-> u] # NoRow
    /\ MaxFails \in Nat /\ MaxCrashes \in Nat

VARIABLES
    rows,      \* the table login: the row of a name, or NoRow
    next_id,   \* the AUTO_INCREMENT counter of user_id
    persons,   \* the keys of PersonManager::m_user_id_to_person
    session,   \* the user each client is logged in as, or 0
    req,       \* the request under way: client, kind and next query
    answer,    \* the last result each client was sent
    fails, crashes   \* counters for the bounds

vars == <<rows, next_id, persons, session, req, answer, fails, crashes>>

Idle == [client |-> NoRow, kind |-> "none", query |-> "none"]

\* The lengths of the statements for client c
StatementLen(c, query) ==
    CASE query = "find"   -> 34 + NameLen[c]
      [] query = "insert" -> 44 + NameLen[c] + PasswdLen[c]
      [] query = "id"     -> 40 + NameLen[c]

\* Mutant: the insert gets a length of its own.
Whole_Insert(c, query) == StatementLen(c, query) <= (IF query = "insert" THEN 120 ELSE 60) + 1

\* The statement reaches MySQL with nothing missing but the semicolon.
Whole(c, query) == StatementLen(c, query) <= 60 + 1

\* The next query can be made: it is not cut off.
At(query) == req.query = query /\ Whole(req.client, query)

\* The handler answers and is done.
Reply(result) ==
    /\ answer' = [answer EXCEPT ![req.client] = result]
    /\ req' = Idle

Row == rows[Name[req.client]]

-----------------------------------------------------------------------------
(* The requests. *)

\* A client that is not logged in sends CSLogin or CSRegist.
Request(c, kind) ==
    /\ req = Idle /\ session[c] = 0
    /\ req' = [client |-> c, kind |-> kind, query |-> "find"]
    /\ UNCHANGED <<rows, next_id, persons, session, answer, fails, crashes>>

\* strcmp(passwd.c_str(), m_row[1]) == 0
Matches(c) == Row # NoRow /\ Row.passwd = Passwd[c]

\* LoginRequest, first query
LoginFind ==
    /\ At("find") /\ req.kind = "login"
    /\ IF Matches(req.client)
       THEN req' = [req EXCEPT !.query = "id"] /\ UNCHANGED answer
       ELSE Reply("failed")
    /\ UNCHANGED <<rows, next_id, persons, session, fails, crashes>>

\* Mutant: the name is not looked for.
Used_Never == FALSE

Used == Row # NoRow

\* NewUserRegist, first query
RegistFind ==
    /\ At("find") /\ req.kind = "regist"
    /\ IF Used THEN Reply("used")
       ELSE req' = [req EXCEPT !.query = "insert"] /\ UNCHANGED answer
    /\ UNCHANGED <<rows, next_id, persons, session, fails, crashes>>

\* MySQL adds the row.  External.
InsertRow ==
    /\ rows' = [rows EXCEPT ![Name[req.client]] =
                  [passwd |-> Passwd[req.client], user_id |-> next_id]]
    /\ next_id' = next_id + 1

\* NewUserRegist, second query
RegistInsert ==
    /\ At("insert")
    /\ InsertRow
    /\ req' = [req EXCEPT !.query = "id"]
    /\ UNCHANGED <<persons, session, answer, fails, crashes>>

\* A query fails or is cut off; an insert that fails may have added the row.
QueryFails ==
    /\ req # Idle
    /\ IF Whole(req.client, req.query) THEN fails < MaxFails /\ fails' = fails + 1
       ELSE UNCHANGED fails
    /\ \/ UNCHANGED <<rows, next_id>>
       \/ At("insert") /\ InsertRow
    /\ Reply("db_error")
    /\ UNCHANGED <<persons, session, crashes>>

\* Mutant: a user may log in twice.
AlreadyLogin_Never(u) == FALSE

\* PersonManager::PersonLogin fails.
AlreadyLogin(u) == u \in persons

\* sscanf(m_row[0], "%d", &user_id)
UserId == Row.user_id

\* The last query of both: PersonLogin, PlayerLogin and the reply
GetUserId ==
    /\ At("id")
    /\ LET u == UserId
       IN  IF AlreadyLogin(u) THEN Reply("already") /\ UNCHANGED <<persons, session>>
           ELSE /\ persons' = persons \cup {u}
                /\ session' = [session EXCEPT ![req.client] = u]
                /\ Reply("succeed")
    /\ UNCHANGED <<rows, next_id, fails, crashes>>

\* The same, and the write of the reply fails: SendMessageToClient deletes the
\* client, who is logged out and hears nothing.
ReplyFails ==
    /\ At("id") /\ ~AlreadyLogin(UserId)
    /\ fails < MaxFails /\ fails' = fails + 1
    /\ req' = Idle
    /\ UNCHANGED <<rows, next_id, persons, session, answer, crashes>>

\* PersonManager::PersonLogout
Departed(c) == persons \ {session[c]}

\* DeleteClientByFD of a logged-in client
Logout(c) ==
    /\ req = Idle /\ session[c] # 0
    /\ persons' = Departed(c)
    /\ session' = [session EXCEPT ![c] = 0]
    /\ UNCHANGED <<rows, next_id, req, answer, fails, crashes>>

\* The server ends at any point and is started again.
Restart ==
    /\ crashes < MaxCrashes /\ crashes' = crashes + 1
    /\ persons' = {} /\ session' = [c \in Client |-> 0] /\ req' = Idle
    /\ UNCHANGED <<rows, next_id, answer, fails>>

Init ==
    /\ rows = [n \in Names |-> NoRow] /\ next_id = 1
    /\ persons = {} /\ session = [c \in Client |-> 0] /\ req = Idle
    /\ answer = [c \in Client |-> "none"] /\ fails = 0 /\ crashes = 0

Server == LoginFind \/ RegistFind \/ RegistInsert \/ QueryFails \/ GetUserId
          \/ ReplyFails

Next ==
    \/ \E c \in Client : Request(c, "login") \/ Request(c, "regist") \/ Logout(c)
    \/ Server \/ Restart

Spec == Init /\ [][Next]_vars

\* The handlers run to their end, and every client tries again and again to
\* log in, also while others make requests.
FairSpec ==
    Spec /\ WF_vars(Server) /\ \A c \in Client : SF_vars(Request(c, "login"))

-----------------------------------------------------------------------------
(* Properties. *)

\* Every variable has its type.
TypeOK ==
    /\ \A n \in Names : rows[n] # NoRow =>
         rows[n].user_id \in Users /\ rows[n].passwd \in {Passwd[c] : c \in Client}
    /\ next_id \in Nat \ {0}
    /\ persons \subseteq Users /\ session \in [Client -> Users \cup {0}]
    /\ req.client \in Client \cup {NoRow}
    /\ req.kind \in {"none", "login", "regist"}
    /\ req.query \in {"none", "find", "insert", "id"}
    /\ answer \in [Client -> {"none", "succeed", "failed", "used", "already", "db_error"}]
    /\ fails \in 0 .. MaxFails /\ crashes \in 0 .. MaxCrashes

\* Whoever is logged in is so under the account of his own name, knows its
\* password and is the only one, after any failures, retries and restarts.
SessionOwned ==
    /\ \A c \in Client : session[c] # 0 =>
         /\ rows[Name[c]] # NoRow
         /\ rows[Name[c]].passwd = Passwd[c] /\ rows[Name[c]].user_id = session[c]
         /\ session[c] \in persons
    /\ \A c, d \in Client : session[c] # 0 /\ session[c] = session[d] => c = d

\* Every variable has its type, and logged-in clients own their accounts.
SessionsRight == TypeOK /\ SessionOwned

\* A registration never takes a name away: once a name has a row, the row stays
\* as it is, whatever requests follow, are repeated or fail halfway.
AccountsKept ==
    [][\A n \in Names : rows[n] # NoRow => rows'[n] = rows[n]]_rows

\* When the insert went through, a client that keeps trying to log in gets in,
\* or another program has logged in to the same account, also if the answer of
\* the registration was db_error, used or none: the insert is the longest of the
\* statements, so neither query of LoginRequest is cut off for a name it added.
OwnerGetsIn ==
    \A c \in Client :
        (rows[Name[c]] # NoRow /\ rows[Name[c]].passwd = Passwd[c]) ~>
            \E d \in Client : Name[d] = Name[c] /\ session[d] # 0
=============================================================================
