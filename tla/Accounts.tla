------------------------------ MODULE Accounts ------------------------------
(***************************************************************************)
(* Users and tokens: POST /api/login, GET /api/me, the middleware, and     *)
(* internal/usecase/auth_service.go.  A token is signed and not stored, so *)
(* it outlives the process; a user is the id stored for an openid.         *)
(***************************************************************************)
EXTENDS Server

CONSTANTS
  OpenIDs,   \* what WeChat answers for a code
  UserIDs,   \* bounds the number of user ids ever made
  None       \* no id

ASSUME AccountAssumption == None \notin OpenIDs \cup UserIDs

VARIABLES
  users,   \* per storage and openid: the user id, or None
  made,    \* user ids randomID has returned
  tokens,  \* tokens clients hold
  login    \* per handler: what Login has in hand

accountVars == <<users, made, tokens, login>>

(* How a login came by its user id: it found the row, inserted it, was     *)
(* beaten by another insert, or lost its own to a failing query.           *)
Ways   == {"found", "new", "beaten", "lost"}
Tokens == [openid : OpenIDs, uid : UserIDs, way : Ways, store : Stores]
Logins == [openid : OpenIDs \cup {None}, uid : UserIDs \cup {None}, way : Ways \cup {None}]

NoLogin == [openid |-> None, uid |-> None, way |-> None]
NoUsers == [o \in OpenIDs |-> None]

AccountsInit == /\ users = [s \in Stores |-> NoUsers]
                /\ made = {}
                /\ tokens = {}
                /\ login = [g \in Handlers |-> NoLogin]

Stored(o)  == users[UserRepo][o]
Unasked(o) == TRUE           \* mutant: GetUserByOpenID's second result is ignored
HasUser(o) == Stored(o) # None
Holds(g, o, u, w) == login' = [login EXCEPT ![g] = [openid |-> o, uid |-> u, way |-> w]]

(* PutUser: the map takes the user, ON CONFLICT (openid) keeps the id.     *)
LastWins(o, u) == u          \* mutant: DO UPDATE SET user_id as well
Upserted(o, u) == IF UserRepo = "memory" \/ ~HasUser(o) THEN u ELSE Stored(o)

(* POST /api/login: WeChat has answered the openid; an error of            *)
(* Jscode2Session is answered with 502 and changes nothing.                *)
Login(g, o) ==
  /\ At(g, "idle")
  /\ Holds(g, o, None, None)
  /\ Goto(g, "get_user")
  /\ UNCHANGED <<storage, users, made, tokens>>

FindUser(g) ==
  LET o == login[g].openid IN
  /\ At(g, "get_user")
  /\ HasUser(o)
  /\ Holds(g, o, Stored(o), "found")
  /\ Goto(g, "sign")
  /\ UNCHANGED <<storage, users, made, tokens>>

(* A failing query is taken for an unknown user.                           *)
MakeUser(g, u) ==
  LET o == login[g].openid IN
  /\ At(g, "get_user")
  /\ ~HasUser(o) \/ Fails
  /\ u \notin made
  /\ made' = made \cup {u}
  /\ Holds(g, o, u, None)
  /\ Goto(g, "put_user")
  /\ UNCHANGED <<storage, users, tokens>>

PutUser(g) ==
  LET o == login[g].openid
      u == login[g].uid
  IN /\ At(g, "put_user")
     /\ \/ /\ users' = [users EXCEPT ![UserRepo][o] = Upserted(o, u)]
           /\ Holds(g, o, u, IF UserRepo = "memory" \/ ~HasUser(o) THEN "new" ELSE "beaten")
        \/ /\ Fails
           /\ Holds(g, o, u, "lost")
           /\ UNCHANGED users
     /\ Goto(g, "sign")
     /\ UNCHANGED <<storage, made, tokens>>

(* The answer carries the token.                                           *)
Sign(g) ==
  /\ At(g, "sign")
  /\ tokens' = tokens \cup {[openid |-> login[g].openid, uid |-> login[g].uid,
                             way |-> login[g].way, store |-> UserRepo]}
  /\ login' = [login EXCEPT ![g] = NoLogin]
  /\ Goto(g, "idle")
  /\ UNCHANGED <<storage, users, made>>

AccountsNext ==
  \E g \in Handlers :
    \/ \E o \in OpenIDs : Login(g, o)
    \/ \E u \in UserIDs : MakeUser(g, u)
    \/ FindUser(g) \/ PutUser(g) \/ Sign(g)

AccountsRestart == /\ users' = Kept(users, NoUsers)
                   /\ login' = [g \in Handlers |-> NoLogin]
                   /\ UNCHANGED <<made, tokens>>

(* The middleware lets a request in that carries a token; it looks at the  *)
(* signature and at no table.                                              *)
Authorized == tokens # {}

(* GET /api/me: the user ids it may answer for a token.                    *)
Me(t) == (IF HasUser(t.openid) THEN {Stored(t.openid)} ELSE {t.uid})
         \cup (IF Fails THEN {t.uid} ELSE {})

----------------------------------------------------------------------------
(* Every variable holds what the program can put there.                    *)
AccountsTypeOK ==
  /\ users \in [Stores -> [OpenIDs -> UserIDs \cup {None}]]
  /\ made \subseteq UserIDs
  /\ tokens \subseteq Tokens
  /\ login \in [Handlers -> Logins]
  /\ \A g \in Handlers :
       /\ pc[g] \in {"get_user", "put_user", "sign"} => login[g].openid \in OpenIDs
       /\ pc[g] \in {"put_user", "sign"} => login[g].uid \in made
       /\ pc[g] = "sign" => login[g].way \in Ways

(* In PostgreSQL two first logins of one openid may race, queries may fail *)
(* and the server may spend a restart in memory: still every token of a    *)
(* login that found or inserted its row names the user of that row for     *)
(* good, so that GET /api/me and the tasks made with it (server.go:530)    *)
(* agree on the user; and who was beaten, was beaten by a stored user      *)
(* (auth_service.go 29-46).                                                *)
TokensNameTheirUser ==
  \A t \in tokens : t.store = "postgres" =>
    /\ t.way \in {"found", "new"} => /\ users["postgres"][t.openid] = t.uid
                                     /\ storage = "postgres" => Me(t) = {t.uid}
    /\ t.way = "beaten" => users["postgres"][t.openid] \notin {None, t.uid}
=============================================================================
