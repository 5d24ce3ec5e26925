--------------------------- MODULE Backend_proofs ---------------------------
(* Theorems about Backend, for every value of its constants. *)
EXTENDS Backend, FiniteSetTheorems, TLAPS

----------------------------------------------------------------------------
(* A step of one component moves handlers between the places of that       *)
(* component and idle; what is said of handlers elsewhere goes on to hold. *)
AccountPcs == {"get_user", "put_user", "sign"}
SpecPcs    == {"upsert"}
ShopPcs    == {"copy", "put_order"}

Confined(P) ==
  /\ storage' = storage
  /\ pc' \in [Handlers -> Pcs]
  /\ \A h \in Handlers : \/ pc'[h] = pc[h]
                         \/ pc[h] \in P \cup {"idle"} /\ pc'[h] \in P \cup {"idle"}

(* Logins stay in the places of Accounts.                                  *)
LEMMA AccountsConfined ==
  ASSUME pc \in [Handlers -> Pcs], AccountsNext
  PROVE  Confined(AccountPcs)
<1>1. PICK g \in Handlers :
        \/ \E o \in OpenIDs : Login(g, o)
        \/ \E u \in UserIDs : MakeUser(g, u)
        \/ FindUser(g) \/ PutUser(g) \/ Sign(g)
  BY DEF AccountsNext
<1>2. PICK p \in AccountPcs \cup {"idle"} : Goto(g, p) /\ pc[g] \in AccountPcs \cup {"idle"} /\ storage' = storage
  BY <1>1 DEF Login, MakeUser, FindUser, PutUser, Sign, At, AccountPcs
<1> QED
  BY <1>2 DEF Confined, Goto, Pcs, AccountPcs

(* Updates of the specs stay in theirs.                                    *)
LEMMA SpecsConfined ==
  ASSUME pc \in [Handlers -> Pcs], SpecsStep
  PROVE  Confined(SpecPcs)
<1>1. PICK g \in Handlers :
        (\E code \in Codes : Upsert(g, code)) \/ Commit(g) \/ RollBack(g) \/ BeginUpdate(g)
  BY DEF SpecsStep, SpecsNext
<1>2. CASE \E code \in Codes : Upsert(g, code)
  BY <1>2 DEF Upsert, Confined
<1>3. CASE Commit(g) \/ RollBack(g) \/ BeginUpdate(g)
  <2>1. PICK p \in SpecPcs \cup {"idle"} : Goto(g, p) /\ pc[g] \in SpecPcs \cup {"idle"} /\ storage' = storage
    BY <1>3 DEF Commit, RollBack, BeginUpdate, Open, At, SpecPcs
  <2> QED
    BY <2>1 DEF Confined, Goto, Pcs, SpecPcs
<1> QED
  BY <1>1, <1>2, <1>3

(* So do uploads and orders.                                               *)
LEMMA ShopConfined ==
  ASSUME pc \in [Handlers -> Pcs], ShopNext
  PROVE  Confined(ShopPcs)
<1>1. PICK g \in Handlers :
        \/ \E f \in Photos : Upload(g, f)
        \/ \E t \in TaskIDs : CreateTask(g, t) \/ \E id \in OrderIDs : FindTask(g, t, id)
        \/ CopyPhoto(g) \/ PutOrder(g)
  BY DEF ShopNext
<1>2. CASE \E t \in TaskIDs : CreateTask(g, t)
  BY <1>2 DEF CreateTask, Confined
<1>3. CASE \/ \E f \in Photos : Upload(g, f)
           \/ \E t \in TaskIDs : \E id \in OrderIDs : FindTask(g, t, id)
           \/ CopyPhoto(g) \/ PutOrder(g)
  <2>1. PICK p \in ShopPcs \cup {"idle"} : Goto(g, p) /\ pc[g] \in ShopPcs \cup {"idle"} /\ storage' = storage
    BY <1>3 DEF Upload, FindTask, CopyPhoto, PutOrder, At, ShopPcs
  <2> QED
    BY <2>1 DEF Confined, Goto, Pcs, ShopPcs
<1> QED
  BY <1>1, <1>2, <1>3

(* New chooses one of the two storages.                                    *)
LEMMA Booted ==
  ASSUME Restart
  PROVE  storage' \in Stores /\ pc' = [g \in Handlers |-> "idle"]
  BY DEF Restart, Killed, Boot, Selected, Stores

----------------------------------------------------------------------------
(* Accounts.  A user id is made once; until its login has stored it, it is *)
(* in no table and in no other login.                                      *)
AccountInv ==
  /\ AccountsTypeOK
  /\ \A s \in Stores, o \in OpenIDs : users[s][o] \in made \cup {None}
  /\ \A g \in Handlers : pc[g] = "put_user" =>
       /\ \A s \in Stores, o \in OpenIDs : users[s][o] # login[g].uid
       /\ \A h \in Handlers : pc[h] = "put_user" /\ h # g => login[h].uid # login[g].uid

(* What a token or a login about to be signed says of the row.             *)
Names(o, u, w) == /\ w \in {"found", "new"} => users["postgres"][o] = u
                  /\ w = "beaten" => users["postgres"][o] \notin {None, u}

TokenInv ==
  /\ \A t \in tokens : t.store = "postgres" => Names(t.openid, t.uid, t.way)
  /\ \A g \in Handlers : pc[g] = "sign" /\ storage = "postgres" =>
       Names(login[g].openid, login[g].uid, login[g].way)

(* A row of table users keeps its user id.                                 *)
RowsStay == \A o \in OpenIDs : users["postgres"][o] # None =>
              users'["postgres"][o] = users["postgres"][o]

(* So what is said of it goes on to hold.                                  *)
LEMMA NamesStay ==
  ASSUME RowsStay, NEW o \in OpenIDs, NEW u \in UserIDs, NEW w, Names(o, u, w)
  PROVE  Names(o, u, w)'
  BY AccountAssumption DEF RowsStay, Names

(* A step of another component leaves the accounts alone.                  *)
LEMMA AccountsUntouched ==
  ASSUME AccountInv, TokenInv, UNCHANGED accountVars, NEW P, Confined(P), P \cap AccountPcs = {}
  PROVE  AccountInv' /\ TokenInv'
<1>1. \A g \in Handlers : pc'[g] \in AccountPcs => pc'[g] = pc[g]
  BY DEF Confined, AccountPcs
<1>2. AccountsTypeOK'
  BY <1>1 DEF AccountInv, AccountsTypeOK, accountVars, AccountPcs
<1> QED
  BY <1>1, <1>2 DEF AccountInv, TokenInv, Names, accountVars, Confined, AccountPcs

(* POST /api/login begins and looks for the user.                          *)
LEMMA AccountsFind ==
  ASSUME TypeOK, AccountInv, TokenInv, NEW g \in Handlers,
         (\E o \in OpenIDs : Login(g, o)) \/ FindUser(g)
  PROVE  AccountInv' /\ TokenInv'
<1>1. /\ pc \in [Handlers -> Pcs] /\ login \in [Handlers -> Logins]
      /\ users \in [Stores -> [OpenIDs -> UserIDs \cup {None}]] /\ storage \in Stores
  BY DEF TypeOK, AccountInv, AccountsTypeOK
<1>2. PICK o \in OpenIDs, u \in made \cup {None}, w \in Ways \cup {None}, p \in {"get_user", "sign"} :
        /\ Holds(g, o, u, w) /\ Goto(g, p) /\ UNCHANGED <<storage, users, made, tokens>>
        /\ p = "sign" => u = users[storage][o] /\ u # None /\ w = "found"
  <2>1. CASE \E o \in OpenIDs : Login(g, o)
    BY <2>1 DEF Login
  <2>2. CASE FindUser(g)
    <3>1. login[g].openid \in OpenIDs
      BY <2>2 DEF FindUser, At, AccountInv, AccountsTypeOK
    <3> QED
      BY <1>1, <2>2, <3>1 DEF FindUser, HasUser, Stored, UserRepo, AccountInv, Ways
  <2> QED
    BY <2>1, <2>2
<1>3. /\ pc' = [pc EXCEPT ![g] = p] /\ login' = [login EXCEPT ![g] = [openid |-> o, uid |-> u, way |-> w]]
  BY <1>2 DEF Goto, Holds
<1>4. /\ pc'[g] = p /\ login'[g] = [openid |-> o, uid |-> u, way |-> w]
      /\ \A h \in Handlers \ {g} : pc'[h] = pc[h] /\ login'[h] = login[h]
  BY <1>1, <1>3
<1>5. AccountsTypeOK'
  <2>1. login' \in [Handlers -> Logins]
    BY <1>1, <1>2, <1>3 DEF Logins, AccountInv, AccountsTypeOK
  <2>2. login'[g].openid \in OpenIDs /\ (p = "sign" => login'[g].uid \in made' /\ login'[g].way \in Ways)
    BY <1>2, <1>4 DEF Ways
  <2> QED
    BY <1>2, <1>4, <2>1, <2>2 DEF AccountInv, AccountsTypeOK
<1>6. AccountInv'
  BY <1>2, <1>4, <1>5 DEF AccountInv
<1>7. TokenInv'
  BY <1>2, <1>4 DEF TokenInv, Names
<1> QED
  BY <1>6, <1>7

(* A user id is made.                                                      *)
LEMMA AccountsMake ==
  ASSUME TypeOK, AccountInv, TokenInv, NEW g \in Handlers, NEW u \in UserIDs, MakeUser(g, u)
  PROVE  AccountInv' /\ TokenInv'
<1>1. /\ pc \in [Handlers -> Pcs] /\ login \in [Handlers -> Logins]
  BY DEF TypeOK, AccountInv, AccountsTypeOK
<1>2. login[g].openid \in OpenIDs /\ u \notin made /\ made' = made \cup {u} /\ UNCHANGED <<storage, users, tokens>>
  BY DEF MakeUser, At, AccountInv, AccountsTypeOK
<1>3. /\ pc'[g] = "put_user" /\ login'[g] = [openid |-> login[g].openid, uid |-> u, way |-> None]
      /\ \A h \in Handlers \ {g} : pc'[h] = pc[h] /\ login'[h] = login[h]
  BY <1>1 DEF MakeUser, Goto, Holds
<1>4. login' \in [Handlers -> Logins]
  BY <1>1, <1>2 DEF MakeUser, Holds, Logins
<1>5. AccountsTypeOK'
  BY <1>2, <1>3, <1>4 DEF AccountInv, AccountsTypeOK
<1>6. \A s \in Stores, o \in OpenIDs : users[s][o] # u
  BY <1>2, AccountAssumption DEF AccountInv
<1>7. AccountInv'
  <2>1. ASSUME NEW h \in Handlers, pc'[h] = "put_user"
        PROVE  /\ \A s \in Stores, o \in OpenIDs : users'[s][o] # login'[h].uid
               /\ \A f \in Handlers : pc'[f] = "put_user" /\ f # h => login'[f].uid # login'[h].uid
    <3>1. \A f \in Handlers \ {g} : pc[f] = "put_user" => login[f].uid \in made
      BY DEF AccountInv, AccountsTypeOK
    <3> QED
      BY <1>2, <1>3, <1>6, <2>1, <3>1 DEF AccountInv
  <2> QED
    BY <1>2, <1>5, <2>1 DEF AccountInv
<1>8. TokenInv'
  BY <1>2, <1>3 DEF TokenInv, Names
<1> QED
  BY <1>7, <1>8

(* PutUser stores the user, is beaten, or fails.                           *)
LEMMA AccountsPut ==
  ASSUME TypeOK, AccountInv, TokenInv, NEW g \in Handlers, PutUser(g)
  PROVE  AccountInv' /\ TokenInv'
<1> DEFINE o == login[g].openid
           u == login[g].uid
<1>1. /\ pc \in [Handlers -> Pcs] /\ login \in [Handlers -> Logins]
      /\ users \in [Stores -> [OpenIDs -> UserIDs \cup {None}]] /\ storage \in Stores
      /\ made \subseteq UserIDs
  BY DEF TypeOK, AccountInv, AccountsTypeOK
<1>2. o \in OpenIDs /\ u \in made /\ u # None /\ pc[g] = "put_user" /\ UNCHANGED <<storage, made, tokens>>
  BY <1>1, AccountAssumption DEF PutUser, At, AccountInv, AccountsTypeOK
<1>3. PICK w \in Ways :
        /\ Holds(g, o, u, w)
        /\ \/ users' = users /\ w = "lost"
           \/ /\ users' = [users EXCEPT ![storage][o] = Upserted(o, u)]
              /\ w = IF UserRepo = "memory" \/ ~HasUser(o) THEN "new" ELSE "beaten"
  BY DEF PutUser, UserRepo, Ways
<1>4. /\ pc'[g] = "sign" /\ login'[g] = [openid |-> o, uid |-> u, way |-> w]
      /\ \A h \in Handlers \ {g} : pc'[h] = pc[h] /\ login'[h] = login[h]
  BY <1>1, <1>3 DEF PutUser, Goto, Holds
<1>5. /\ \A s \in Stores, i \in OpenIDs : users'[s][i] \in {users[s][i], u}
      /\ users' \in [Stores -> [OpenIDs -> UserIDs \cup {None}]]
  <2>1. Upserted(o, u) \in {users[storage][o], u} /\ Upserted(o, u) \in UserIDs \cup {None}
    BY <1>1, <1>2 DEF Upserted, Stored, UserRepo
  <2> QED
    BY <1>1, <1>2, <1>3, <2>1
<1>6. RowsStay
  BY <1>1, <1>2, <1>3 DEF RowsStay, Upserted, HasUser, Stored, UserRepo, Stores
<1>7. storage = "postgres" => Names(o, u, w)'
  <2>1. storage = "postgres" /\ w # "lost" =>
          users'["postgres"][o] = IF users["postgres"][o] = None THEN u ELSE users["postgres"][o]
    BY <1>1, <1>2, <1>3 DEF Upserted, HasUser, Stored, UserRepo, Stores
  <2>2. users["postgres"][o] # u
    BY <1>2 DEF AccountInv, Stores
  <2> QED
    BY <1>2, <1>3, <1>4, <2>1, <2>2 DEF Names, HasUser, Stored, UserRepo
<1>8. AccountsTypeOK'
  <2>1. login' \in [Handlers -> Logins]
    BY <1>1, <1>2, <1>3 DEF Holds, Logins
  <2> QED
    BY <1>2, <1>3, <1>4, <1>5, <2>1 DEF AccountInv, AccountsTypeOK
<1>9. AccountInv'
  <2>1. \A s \in Stores, i \in OpenIDs : users'[s][i] \in made' \cup {None}
    BY <1>2, <1>5 DEF AccountInv
  <2>2. ASSUME NEW h \in Handlers, pc'[h] = "put_user"
        PROVE  /\ \A s \in Stores, i \in OpenIDs : users'[s][i] # login'[h].uid
               /\ \A f \in Handlers : pc'[f] = "put_user" /\ f # h => login'[f].uid # login'[h].uid
    BY <1>2, <1>4, <1>5, <2>2 DEF AccountInv
  <2> QED
    BY <1>8, <2>1, <2>2 DEF AccountInv
<1>10. TokenInv'
  <2>1. ASSUME NEW t \in tokens, t.store = "postgres" PROVE Names(t.openid, t.uid, t.way)'
    <3>1. t \in Tokens
      BY DEF AccountInv, AccountsTypeOK
    <3> QED
      BY <1>6, <2>1, <3>1, NamesStay DEF TokenInv, Tokens
  <2>2. ASSUME NEW h \in Handlers \ {g}, pc[h] = "sign", storage = "postgres"
        PROVE  Names(login[h].openid, login[h].uid, login[h].way)'
    <3>1. login[h].openid \in OpenIDs /\ login[h].uid \in UserIDs
      BY <1>1, <2>2 DEF AccountInv, AccountsTypeOK
    <3>2. Names(login[h].openid, login[h].uid, login[h].way)
      BY <2>2 DEF TokenInv
    <3>3. users'["postgres"][login[h].openid] = users["postgres"][login[h].openid]
            \/ users["postgres"][login[h].openid] = None
      BY <1>6, <3>1 DEF RowsStay
    <3> QED
      BY <1>4, <2>2, <3>1, <3>2, <3>3, AccountAssumption DEF Names
  <2> QED
    BY <1>2, <1>4, <1>7, <2>1, <2>2 DEF TokenInv, Names
<1> QED
  BY <1>9, <1>10

(* The token is signed.                                                    *)
LEMMA AccountsSign ==
  ASSUME TypeOK, AccountInv, TokenInv, NEW g \in Handlers, Sign(g)
  PROVE  AccountInv' /\ TokenInv'
<1> DEFINE t == [openid |-> login[g].openid, uid |-> login[g].uid, way |-> login[g].way, store |-> UserRepo]
<1>1. /\ pc \in [Handlers -> Pcs] /\ login \in [Handlers -> Logins] /\ storage \in Stores
      /\ made \subseteq UserIDs
  BY DEF TypeOK, AccountInv, AccountsTypeOK
<1>2. pc[g] = "sign" /\ UNCHANGED <<storage, users, made>> /\ tokens' = tokens \cup {t}
  BY DEF Sign, At
<1>3. t \in Tokens
  BY <1>1, <1>2 DEF Tokens, UserRepo, AccountInv, AccountsTypeOK
<1>4. /\ pc'[g] = "idle"
      /\ \A h \in Handlers \ {g} : pc'[h] = pc[h] /\ login'[h] = login[h]
  BY <1>1 DEF Sign, Goto
<1>5. AccountsTypeOK'
  <2>1. login' \in [Handlers -> Logins]
    BY <1>1 DEF Sign, Logins, NoLogin
  <2> QED
    BY <1>2, <1>3, <1>4, <2>1 DEF AccountInv, AccountsTypeOK
<1>6. AccountInv'
  BY <1>2, <1>4, <1>5 DEF AccountInv
<1>7. TokenInv'
  BY <1>2, <1>4 DEF TokenInv, Names, UserRepo
<1> QED
  BY <1>6, <1>7

(* A restart ends every login; tokens and rows stay.                       *)
LEMMA AccountsRestarted ==
  ASSUME TypeOK, AccountInv, TokenInv, Restart
  PROVE  AccountInv' /\ TokenInv'
<1>1. /\ users' = [users EXCEPT !["memory"] = NoUsers] /\ UNCHANGED <<made, tokens>>
      /\ login' = [g \in Handlers |-> NoLogin] /\ \A g \in Handlers : pc'[g] = "idle"
  BY Booted DEF Restart, AccountsRestart, Kept
<1>2. users \in [Stores -> [OpenIDs -> UserIDs \cup {None}]]
  BY DEF AccountInv, AccountsTypeOK
<1>3. /\ users'["postgres"] = users["postgres"]
      /\ \A s \in Stores, o \in OpenIDs : users'[s][o] \in {users[s][o], None}
      /\ users' \in [Stores -> [OpenIDs -> UserIDs \cup {None}]]
  BY <1>1, <1>2 DEF Stores, NoUsers
<1>4. AccountsTypeOK'
  BY <1>1, <1>3 DEF AccountInv, AccountsTypeOK, Logins, NoLogin
<1>5. AccountInv'
  BY <1>1, <1>3, <1>4 DEF AccountInv
<1>6. TokenInv'
  BY <1>1, <1>3 DEF TokenInv, Names
<1> QED
  BY <1>5, <1>6

(* The accounts of the first start.                                        *)
LEMMA AccountsStart == Init => AccountInv /\ TokenInv
<1> SUFFICES ASSUME Init PROVE AccountInv /\ TokenInv
  OBVIOUS
<1>1. AccountsTypeOK
  BY DEF Init, ServerInit, AccountsInit, AccountsTypeOK, NoUsers, Logins, NoLogin
<1> QED
  BY <1>1 DEF Init, ServerInit, AccountsInit, AccountInv, TokenInv, NoUsers

(* Every step keeps the accounts.                                          *)
LEMMA AccountsStay ==
  ASSUME TypeOK, AccountInv, TokenInv, [Next]_vars
  PROVE  AccountInv' /\ TokenInv'
<1>1. pc \in [Handlers -> Pcs]
  BY DEF TypeOK
<1>2. CASE AccountsNext
  BY <1>2, AccountsFind, AccountsMake, AccountsPut, AccountsSign DEF AccountsNext
<1>3. CASE SpecsStep /\ UNCHANGED <<accountVars, shopVars>>
  BY <1>1, <1>3, SpecsConfined, AccountsUntouched DEF SpecPcs, AccountPcs
<1>4. CASE ShopNext /\ UNCHANGED <<accountVars, specVars>>
  BY <1>1, <1>4, ShopConfined, AccountsUntouched DEF ShopPcs, AccountPcs
<1>5. CASE UNCHANGED vars
  <2>1. Confined({}) /\ UNCHANGED accountVars
    BY <1>1, <1>5 DEF Confined, vars
  <2> QED
    BY <2>1, AccountsUntouched
<1> QED
  BY <1>2, <1>3, <1>4, <1>5, AccountsRestarted DEF Next

----------------------------------------------------------------------------
(* Specs.  The row cn_1inch is the lock of an update: it is written first, *)
(* so of all open transactions one has written at most.                    *)
SpecInv ==
  /\ SpecsTypeOK
  /\ specs \in {{}, Codes}
  /\ \A g \in Handlers : tx[g] # {} => Open(g) /\ "cn_1inch" \in tx[g]
  /\ \A g, h \in Handlers : g # h => tx[g] \cap tx[h] = {}

(* The first row of an update.                                             *)
LEMMA FirstCode == NextCode({}) = {"cn_1inch"} /\ "cn_1inch" \in Codes
<1>1. Cardinality({}) = 0
  BY FS_EmptySet
<1>2. UpdateOrder[1] = "cn_1inch"
  BY DEF UpdateOrder
<1> QED
  BY <1>1, <1>2 DEF NextCode, Codes

(* A step of another component leaves the specs alone.                     *)
LEMMA SpecsUntouched ==
  ASSUME SpecInv, UNCHANGED specVars, NEW P, Confined(P), "upsert" \notin P
  PROVE  SpecInv'
  BY DEF SpecInv, SpecsTypeOK, specVars, Confined, Open, At

(* A row is written.                                                       *)
LEMMA SpecsUpsert ==
  ASSUME TypeOK, SpecInv, NEW g \in Handlers, NEW code \in Codes, Upsert(g, code)
  PROVE  SpecInv'
<1>1. /\ tx \in [Handlers -> SUBSET Codes] /\ UNCHANGED <<storage, pc, specs>> /\ Open(g)
      /\ tx' = [tx EXCEPT ![g] = tx[g] \cup {code}] /\ code \in NextCode(tx[g])
      /\ \A h \in Handlers \ {g} : code \notin tx[h]
  BY DEF SpecInv, SpecsTypeOK, Upsert, AfterUpsert
<1>2. tx'[g] = tx[g] \cup {code} /\ \A h \in Handlers \ {g} : tx'[h] = tx[h]
  BY <1>1
<1>3. "cn_1inch" \in tx'[g]
  BY <1>1, <1>2, FirstCode DEF SpecInv
<1>4. SpecsTypeOK'
  BY <1>1 DEF SpecInv, SpecsTypeOK
<1> QED
  BY <1>1, <1>2, <1>3, <1>4 DEF SpecInv, Open, At

(* An update begins or ends.                                               *)
LEMMA SpecsEnd ==
  ASSUME TypeOK, SpecInv, NEW g \in Handlers, BeginUpdate(g) \/ Commit(g) \/ RollBack(g)
  PROVE  SpecInv'
<1>1. /\ tx \in [Handlers -> SUBSET Codes] /\ pc \in [Handlers -> Pcs] /\ specs' \in {specs, Codes}
  BY DEF TypeOK, SpecInv, SpecsTypeOK, BeginUpdate, Commit, RollBack
<1>2. /\ tx'[g] = {} /\ \A h \in Handlers \ {g} : tx'[h] = tx[h] /\ pc'[h] = pc[h]
      /\ tx' \in [Handlers -> SUBSET Codes]
  BY <1>1 DEF SpecInv, BeginUpdate, Commit, RollBack, Goto, Open, At
<1> QED
  BY <1>1, <1>2 DEF SpecInv, SpecsTypeOK, Open, At

(* Every step keeps the specs.                                             *)
LEMMA SpecsStay ==
  ASSUME TypeOK, SpecInv, [Next]_vars
  PROVE  SpecInv'
<1>1. pc \in [Handlers -> Pcs]
  BY DEF TypeOK
<1>2. CASE SpecsStep
  BY <1>2, SpecsUpsert, SpecsEnd DEF SpecsStep, SpecsNext
<1>3. CASE AccountsNext /\ UNCHANGED <<specVars, shopVars>>
  BY <1>1, <1>3, AccountsConfined, SpecsUntouched DEF AccountPcs
<1>4. CASE ShopNext /\ UNCHANGED <<accountVars, specVars>>
  BY <1>1, <1>4, ShopConfined, SpecsUntouched DEF ShopPcs
<1>5. CASE Restart
  BY <1>5 DEF Restart, SpecsRestart, SpecInv, SpecsTypeOK
<1>6. CASE UNCHANGED vars
  BY <1>6 DEF vars, specVars, SpecInv, SpecsTypeOK, Open, At
<1> QED
  BY <1>2, <1>3, <1>4, <1>5, <1>6 DEF Next

----------------------------------------------------------------------------
(* Photos, tasks and orders.  A handler that stores an order has found the *)
(* task in the storage it will store the order in, as only a restart, which *)
(* ends it, changes the storage.                                           *)
ShopTypes ==
  /\ uploads \in [Photos -> {"none", "part", "whole"}]
  /\ keys \subseteq Photos
  /\ tasks \in [Stores -> SUBSET TaskIDs]
  /\ known \subseteq TaskIDs
  /\ orders \in [Stores -> SUBSET Orders]
  /\ placed \subseteq OrderIDs
  /\ job \in [Handlers -> Jobs]
  /\ \A g \in Handlers :
       /\ pc[g] = "copy" => job[g].photo \in Photos
       /\ pc[g] = "put_order" => job[g].id \in OrderIDs /\ job[g].task \in TaskIDs

ShopInv ==
  /\ ShopTypes
  /\ ToldPhotosAreWhole
  /\ OrdersHaveTheirTask
  /\ \A g \in Handlers : pc[g] = "put_order" => job[g].task \in tasks[storage]

(* A step of another component leaves the shop alone.                      *)
LEMMA ShopUntouched ==
  ASSUME ShopInv, UNCHANGED shopVars, NEW P, Confined(P), P \cap ShopPcs = {}
  PROVE  ShopInv'
<1>1. \A g \in Handlers : pc'[g] \in ShopPcs => pc'[g] = pc[g]
  BY DEF Confined, ShopPcs
<1>2. ShopTypes'
  BY <1>1 DEF ShopInv, ShopTypes, shopVars, ShopPcs
<1> QED
  BY <1>1, <1>2 DEF ShopInv, shopVars, ToldPhotosAreWhole, OrdersHaveTheirTask, Confined, ShopPcs

(* An upload begins, and ends.                                             *)
LEMMA ShopUpload ==
  ASSUME TypeOK, ShopInv, NEW g \in Handlers, (\E f \in Photos : Upload(g, f)) \/ CopyPhoto(g)
  PROVE  ShopInv'
<1>1. /\ pc \in [Handlers -> Pcs] /\ job \in [Handlers -> Jobs] /\ keys \subseteq Photos
      /\ uploads \in [Photos -> {"none", "part", "whole"}]
  BY DEF TypeOK, ShopInv, ShopTypes
<1>2. PICK f \in Photos, p \in {"copy", "idle"}, j \in Jobs :
        /\ Goto(g, p) /\ job' = [job EXCEPT ![g] = j] /\ (p = "copy" => j.photo = f)
        /\ UNCHANGED <<storage, tasks, known, orders, placed>>
        /\ \/ uploads[f] = "none" /\ uploads' = [uploads EXCEPT ![f] = "part"] /\ keys' = keys
           \/ uploads' = [uploads EXCEPT ![f] = "whole"] /\ keys' = keys \cup {f}
           \/ uploads' = uploads /\ keys' = keys
  <2>1. ASSUME NEW f \in Photos, Upload(g, f) PROVE [photo |-> f, id |-> None, task |-> None] \in Jobs
    BY DEF Jobs
  <2>2. NoJob \in Jobs
    BY DEF NoJob, Jobs
  <2>3. CASE CopyPhoto(g)
    <3>1. job[g].photo \in Photos
      BY <2>3 DEF CopyPhoto, At, ShopInv, ShopTypes
    <3> QED
      BY <2>2, <2>3, <3>1 DEF CopyPhoto, Drop, AfterFailure
  <2> QED
    BY <2>1, <2>3 DEF Upload, Take
<1>3. /\ pc'[g] = p /\ job'[g] = j
      /\ \A h \in Handlers \ {g} : pc'[h] = pc[h] /\ job'[h] = job[h]
  BY <1>1, <1>2 DEF Goto
<1>4. /\ uploads' \in [Photos -> {"none", "part", "whole"}] /\ keys' \subseteq Photos
      /\ job' \in [Handlers -> Jobs]
  BY <1>1, <1>2
<1>5. ShopTypes'
  BY <1>2, <1>3, <1>4 DEF ShopInv, ShopTypes
<1>6. ToldPhotosAreWhole'
  BY <1>1, <1>2 DEF ShopInv, ToldPhotosAreWhole
<1> QED
  BY <1>2, <1>3, <1>5, <1>6 DEF ShopInv, OrdersHaveTheirTask

(* A task is stored, or its row is lost.                                   *)
LEMMA ShopTask ==
  ASSUME TypeOK, ShopInv, NEW g \in Handlers, NEW t \in TaskIDs, CreateTask(g, t)
  PROVE  ShopInv'
<1>1. /\ \A s \in Stores : tasks[s] \subseteq tasks'[s]
      /\ tasks' \in [Stores -> SUBSET TaskIDs] /\ known' \subseteq TaskIDs
      /\ UNCHANGED <<storage, pc, uploads, keys, orders, placed, job>> /\ storage \in Stores
  BY DEF CreateTask, Inserts, TaskRepo, TypeOK, ShopInv, ShopTypes
<1>2. ShopTypes'
  BY <1>1 DEF ShopInv, ShopTypes
<1> QED
  BY <1>1, <1>2 DEF ShopInv, ToldPhotosAreWhole, OrdersHaveTheirTask

(* The task of an order is found.                                          *)
LEMMA ShopFind ==
  ASSUME TypeOK, ShopInv, NEW g \in Handlers, NEW t \in TaskIDs, NEW id \in OrderIDs, FindTask(g, t, id)
  PROVE  ShopInv'
<1>1. /\ pc \in [Handlers -> Pcs] /\ job \in [Handlers -> Jobs] /\ t \in tasks[storage]
      /\ UNCHANGED <<storage, uploads, keys, tasks, known, orders, placed>>
  BY DEF TypeOK, ShopInv, ShopTypes, FindTask, HasTask, TaskRepo
<1>2. /\ pc'[g] = "put_order" /\ job'[g] = [photo |-> None, id |-> id, task |-> t]
      /\ \A h \in Handlers \ {g} : pc'[h] = pc[h] /\ job'[h] = job[h]
  BY <1>1 DEF FindTask, Goto, Take
<1>3. job' \in [Handlers -> Jobs]
  BY <1>1 DEF FindTask, Take, Jobs
<1>4. ShopTypes'
  BY <1>1, <1>2, <1>3 DEF ShopInv, ShopTypes
<1> QED
  BY <1>1, <1>2, <1>4 DEF ShopInv, ToldPhotosAreWhole, OrdersHaveTheirTask

(* The order is stored beside its task, or its row is lost.                *)
LEMMA ShopPut ==
  ASSUME TypeOK, ShopInv, NEW g \in Handlers, PutOrder(g)
  PROVE  ShopInv'
<1> DEFINE o == [id |-> job[g].id, task |-> job[g].task]
<1>1. /\ pc \in [Handlers -> Pcs] /\ job \in [Handlers -> Jobs] /\ storage \in Stores
      /\ tasks \in [Stores -> SUBSET TaskIDs] /\ orders \in [Stores -> SUBSET Orders]
      /\ UNCHANGED <<storage, uploads, keys, tasks, known>>
  BY DEF TypeOK, ShopInv, ShopTypes, PutOrder
<1>2. o \in Orders /\ o.task \in tasks[storage]
  BY DEF PutOrder, At, ShopInv, ShopTypes, Orders
<1>3. /\ pc'[g] = "idle" /\ \A h \in Handlers \ {g} : pc'[h] = pc[h] /\ job'[h] = job[h]
      /\ job' \in [Handlers -> Jobs]
  BY <1>1 DEF PutOrder, Goto, Drop, NoJob, Jobs
<1>4. orders' = orders \/ orders' = [orders EXCEPT ![storage] = orders[storage] \cup {o}]
  BY DEF PutOrder, Inserts, OrderRepo
<1>5. /\ orders' \in [Stores -> SUBSET Orders] /\ placed' \subseteq OrderIDs
  BY <1>1, <1>2, <1>4 DEF PutOrder, ShopInv, ShopTypes, Orders, At
<1>6. ShopTypes'
  BY <1>1, <1>3, <1>5 DEF ShopInv, ShopTypes
<1>7. OrdersHaveTheirTask'
  <2>1. ASSUME NEW s \in Stores, NEW x \in orders'[s] PROVE x.task \in tasks[s]
    <3>1. x \in orders[s] \/ (s = storage /\ x = o)
      BY <1>1, <1>4
    <3> QED
      BY <1>2, <3>1 DEF ShopInv, OrdersHaveTheirTask
  <2> QED
    BY <1>1, <2>1 DEF OrdersHaveTheirTask
<1> QED
  BY <1>1, <1>3, <1>6, <1>7 DEF ShopInv, ToldPhotosAreWhole

(* A restart empties tasks and orders in memory alike.                     *)
LEMMA ShopRestarted ==
  ASSUME TypeOK, ShopInv, Restart
  PROVE  ShopInv'
<1>1. /\ \A g \in Handlers : pc'[g] = "idle"
      /\ tasks' = [tasks EXCEPT !["memory"] = {}] /\ orders' = [orders EXCEPT !["memory"] = {}]
      /\ job' = [g \in Handlers |-> NoJob] /\ UNCHANGED <<uploads, keys, known, placed>>
  BY Booted DEF Restart, Kept
<1>2. tasks \in [Stores -> SUBSET TaskIDs] /\ orders \in [Stores -> SUBSET Orders]
  BY DEF ShopInv, ShopTypes
<1>3. ShopTypes'
  BY <1>1, <1>2 DEF ShopInv, ShopTypes, NoJob, Jobs
<1>4. OrdersHaveTheirTask'
  BY <1>1, <1>2 DEF ShopInv, OrdersHaveTheirTask
<1> QED
  BY <1>1, <1>3, <1>4 DEF ShopInv, ToldPhotosAreWhole

(* Every step keeps the shop.                                              *)
LEMMA ShopStays ==
  ASSUME TypeOK, ShopInv, [Next]_vars
  PROVE  ShopInv'
<1>1. pc \in [Handlers -> Pcs]
  BY DEF TypeOK
<1>2. CASE ShopNext
  BY <1>2, ShopUpload, ShopTask, ShopFind, ShopPut DEF ShopNext
<1>3. CASE AccountsNext /\ UNCHANGED <<specVars, shopVars>>
  BY <1>1, <1>3, AccountsConfined, ShopUntouched DEF AccountPcs, ShopPcs
<1>4. CASE SpecsStep /\ UNCHANGED <<accountVars, shopVars>>
  BY <1>1, <1>4, SpecsConfined, ShopUntouched DEF SpecPcs, ShopPcs
<1>5. CASE UNCHANGED vars
  <2>1. Confined({}) /\ UNCHANGED shopVars
    BY <1>1, <1>5 DEF Confined, vars
  <2> QED
    BY <2>1, ShopUntouched
<1> QED
  BY <1>2, <1>3, <1>4, <1>5, ShopRestarted DEF Next

----------------------------------------------------------------------------
(* The inductive invariant of the whole server.                            *)
Inv == /\ storage \in Stores
       /\ pc \in [Handlers -> Pcs]
       /\ AccountInv
       /\ TokenInv
       /\ SpecInv
       /\ ShopInv

(* It has the types in it, ...                                             *)
LEMMA InvTypes == Inv => TypeOK
  BY DEF Inv, TypeOK, AccountInv, SpecInv, ShopInv, ShopTypes

(* holds at the first start                                                *)
LEMMA InvInit == Init => Inv
<1> SUFFICES ASSUME Init PROVE Inv
  OBVIOUS
<1>1. storage \in Stores /\ pc = [g \in Handlers |-> "idle"]
  BY DEF Init, ServerInit, Selected, Stores
<1>2. SpecInv
  BY DEF Init, SpecsInit, SpecInv, SpecsTypeOK
<1>3. ShopInv
  BY <1>1 DEF Init, ShopInv, ShopTypes, ToldPhotosAreWhole, OrdersHaveTheirTask, Empty, Jobs, NoJob
<1> QED
  BY <1>1, <1>2, <1>3, AccountsStart DEF Inv, Pcs

(* and is inductive.                                                       *)
LEMMA InvNext == Inv /\ [Next]_vars => Inv'
<1> SUFFICES ASSUME Inv, [Next]_vars PROVE Inv'
  OBVIOUS
<1>1. TypeOK /\ pc \in [Handlers -> Pcs]
  BY InvTypes DEF Inv
<1>2. storage' \in Stores /\ pc' \in [Handlers -> Pcs]
  <2>1. CASE Restart
    BY <2>1, Booted DEF Pcs
  <2>2. CASE AccountsNext \/ SpecsStep \/ ShopNext
    BY <1>1, <2>2, AccountsConfined, SpecsConfined, ShopConfined DEF Confined, Inv
  <2>3. CASE UNCHANGED vars
    BY <1>1, <2>3 DEF vars, Inv
  <2> QED
    BY <2>1, <2>2, <2>3 DEF Next
<1> QED
  BY <1>1, <1>2, AccountsStay, SpecsStay, ShopStays DEF Inv

(* The variables of all components hold what the program can put there.    *)
THEOREM TypeCorrect == Spec => []TypeOK
  BY InvTypes, InvInit, InvNext, PTL DEF Spec

(* However logins of one openid race and queries fail, a token names the   *)
(* user stored for its openid, or was beaten by that user, for good.       *)
THEOREM TokensNameUsers == Spec => []TokensNameTheirUser
<1>1. Inv => TokensNameTheirUser
  <2> SUFFICES ASSUME Inv, NEW t \in tokens, t.store = "postgres"
               PROVE  /\ t.way \in {"found", "new"} =>
                            /\ users["postgres"][t.openid] = t.uid
                            /\ storage = "postgres" => Me(t) = {t.uid}
                      /\ t.way = "beaten" => users["postgres"][t.openid] \notin {None, t.uid}
    BY DEF TokensNameTheirUser
  <2>1. t.openid \in OpenIDs /\ t.uid \in UserIDs /\ t.uid # None
    BY AccountAssumption DEF Inv, AccountInv, AccountsTypeOK, Tokens
  <2>2. Names(t.openid, t.uid, t.way)
    BY DEF Inv, TokenInv
  <2> QED
    BY <2>1, <2>2 DEF Names, Me, HasUser, Stored, UserRepo
<1> QED
  BY <1>1, InvInit, InvNext, PTL DEF Spec

(* No client is shown half an update of the specs, and no read that breaks *)
(* off shows rows of both lists.                                           *)
THEOREM UpdatesAreWhole == Spec => []AdvertisedWhole
<1>1. Inv => AdvertisedWhole
  <2> SUFFICES ASSUME Inv PROVE AdvertisedWhole
    OBVIOUS
  <2>1. specs \in {{}, Codes}
    BY DEF Inv, SpecInv
  <2>2. \A rows \in ListSpecs : rows \subseteq specs
    BY DEF ListSpecs
  <2> QED
    BY <2>1, <2>2 DEF AdvertisedWhole, Advertised
<1> QED
  BY <1>1, InvInit, InvNext, PTL DEF Spec

(* Any number of updates at once: they do not deadlock on their rows.      *)
THEOREM UpdatesDoNotDeadlock == Spec => []SomeUpdateMoves
<1>1. Inv => SomeUpdateMoves
  <2> SUFFICES ASSUME Inv, NEW g \in Handlers, Open(g)
               PROVE  \E f \in Handlers : Open(f) /\ \A h \in Handlers : ~Waits(f, h)
    BY DEF SomeUpdateMoves
  <2>1. CASE \E f \in Handlers : tx[f] # {}
    <3>1. PICK f \in Handlers : tx[f] # {}
      BY <2>1
    <3>2. Open(f) /\ \A h \in Handlers \ {f} : tx[h] = {}
      BY <3>1 DEF Inv, SpecInv
    <3> QED
      BY <3>2 DEF Waits
  <2>2. CASE \A f \in Handlers : tx[f] = {}
    BY <2>2 DEF Waits
  <2> QED
    BY <2>1, <2>2
<1> QED
  BY <1>1, InvInit, InvNext, PTL DEF Spec

(* A client is told the key of whole files only.                           *)
THEOREM ToldPhotosStayWhole == Spec => []ToldPhotosAreWhole
<1>1. Inv => ToldPhotosAreWhole
  BY DEF Inv, ShopInv
<1> QED
  BY <1>1, InvInit, InvNext, PTL DEF Spec

(* Orders are stored where their tasks are, over restarts that change the  *)
(* storage.                                                                *)
THEOREM OrdersKeepTheirTask == Spec => []OrdersHaveTheirTask
<1>1. Inv => OrdersHaveTheirTask
  BY DEF Inv, ShopInv
<1> QED
  BY <1>1, InvInit, InvNext, PTL DEF Spec
=============================================================================
