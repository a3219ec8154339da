------------------------- MODULE BlogHandlerProofs -------------------------
(***************************************************************************)
(* Proofs about BlogHandler, for any number of threads, ids and requests   *)
(* and whatever the forms contain: what the redirects lead to, although    *)
(* the threads share form_to_value_ without a lock, and what a request is  *)
(* stored as that no other one overlapped.                                 *)
(***************************************************************************)
EXTENDS BlogHandler, SequenceTheorems, WellFoundedInduction, TLAPS

Keys == {TitleKey, BodyKey}
Arg == UNION {[D -> Fields] : D \in SUBSET Keys}

HandlerTypeOK ==
  /\ posts \in [Id -> Post \cup {NoPost}]
  /\ stage \in [Thread -> {"idle", "called", "done"}]
  /\ call \in [Thread -> Call \cup {NoCall}]
  /\ res \in [Thread -> Result]
  /\ up \in BOOLEAN
  /\ at \in [Thread -> {"idle", "assign", "get", "fields", "wait"}]
  /\ req \in [Thread -> Request \cup {NoRequest}]
  /\ arg \in [Thread -> Arg]
  /\ alone \in [Thread -> BOOLEAN]
  /\ granted \subseteq Id

\* Where a thread is in the handler, its call and its request agree.
StagesAgree ==
  \A t \in Thread :
    /\ at[t] = "wait" <=> stage[t] # "idle"
    /\ at[t] # "idle" => req[t] \in Request
    /\ at[t] = "get" => req[t].method = "GET"
    /\ at[t] = "fields" => req[t].method = "POST"
    /\ at[t] = "wait" /\ call[t].op = "insert_blog" => req[t].method = "POST"
    /\ at[t] \in {"idle", "assign"} => DOMAIN arg[t] = {}

\* The map never holds a title or a body that was not read from some request.
FormIsRead == \A k \in Keys \cap DOMAIN form : form[k] \in Fields

\* The ids given out and not sent yet are those of the posts inserted, each
\* given once; an id that was sent is in use.
GrantsAreNew ==
  /\ \A t \in Thread : Redirects(t) =>
       /\ res[t].id \in Id \ granted
       /\ posts[res[t].id] = call[t].post /\ call[t].post \in Post
       /\ \A u \in Thread \ {t} : Redirects(u) => res[u].id # res[t].id
  /\ \A i \in granted : posts[i] # NoPost

\* While a request is alone, no other thread is in the handler.
AloneIsAlone ==
  \A t, u \in Thread : Busy(t) /\ alone[t] /\ u # t => ~Busy(u)

\* Then the map, what was copied from it and what is inserted are its own.
OwnFields ==
  \A t \in Thread : alone[t] =>
    /\ at[t] = "fields" => \A k \in Keys :
         /\ Field(req[t], k) = IF k \in DOMAIN form THEN form[k] ELSE <<>>
         /\ k \in DOMAIN arg[t] => arg[t][k] = Field(req[t], k)
    /\ at[t] = "wait" /\ call[t].op = "insert_blog" =>
         call[t].post = <<Field(req[t], TitleKey), Field(req[t], BodyKey)>>

\* The inductive invariant: what the redirects need, and what isolation needs.
GrantInv == HandlerTypeOK /\ StagesAgree /\ FormIsRead /\ GrantsAreNew
OwnInv == AloneIsAlone /\ OwnFields

-----------------------------------------------------------------------------
(* What is read from forms.                                                *)

LEMMA FieldIsRead ==
  ASSUME NEW r \in Request, NEW k \in Keys
  PROVE  Field(r, k) \in Fields
BY DEF Fields, Keys

\* The arguments of an insert are a post.
LEMMA ArgIsPost ==
  ASSUME NEW a \in Arg, DOMAIN a = Keys
  PROVE  <<a[TitleKey], a[BodyKey]>> \in Post
<1>1. PICK D \in SUBSET Keys : a \in [D -> Fields]
  BY DEF Arg
<1>2. a[TitleKey] \in Fields /\ a[BodyKey] \in Fields
  BY <1>1 DEF Keys
<1> QED
  BY <1>2, HandlerAssumption

\* A field that is copied was read from some request, or is empty; an absent
\* key is added to the map.
LEMMA ReadFieldIsRead ==
  ASSUME HandlerTypeOK, FormIsRead, NEW t \in Thread, NEW k \in Keys, ReadField(t, k)
  PROVE  /\ FormIsRead'
         /\ k \notin DOMAIN arg[t] /\ k \in DOMAIN form'
         /\ \A j \in Keys : (IF j \in DOMAIN form' THEN form'[j] ELSE <<>>)
                             = (IF j \in DOMAIN form THEN form[j] ELSE <<>>)
         /\ arg' = [arg EXCEPT ![t] = With(arg[t], k, form'[k])]
         /\ With(arg[t], k, form'[k]) \in Arg
<1>1. /\ k \notin DOMAIN arg[t]
      /\ form' = IF k \in DOMAIN form THEN form ELSE With(form, k, <<>>)
      /\ arg' = [arg EXCEPT ![t] = With(arg[t], k, form'[k])]
  BY DEF ReadField, HandlerTypeOK
<1>2. /\ DOMAIN form' = DOMAIN form \cup {k}
      /\ \A j \in DOMAIN form : form'[j] = form[j]
      /\ k \notin DOMAIN form => form'[k] = <<>>
  <2>1. CASE k \in DOMAIN form
    BY <1>1, <2>1
  <2>2. CASE k \notin DOMAIN form
    <3>1. form' = [j \in DOMAIN form \cup {k} |-> IF j = k THEN <<>> ELSE form[j]]
      BY <1>1, <2>2 DEF With
    <3> QED
      BY <2>2, <3>1
  <2> QED
    BY <2>1, <2>2
<1>3. FormIsRead'
  BY <1>2 DEF FormIsRead, Fields
<1>4. form'[k] \in Fields
  BY <1>2, <1>3 DEF FormIsRead
<1>5. With(arg[t], k, form'[k]) \in Arg
  <2>1. PICK D \in SUBSET Keys : arg[t] \in [D -> Fields]
    BY DEF HandlerTypeOK, Arg
  <2>2. With(arg[t], k, form'[k]) \in [D \cup {k} -> Fields]
    <3>1. DOMAIN arg[t] = D /\ \A j \in D : arg[t][j] \in Fields
      BY <2>1
    <3> DEFINE v == form'[k]
    <3>2. v \in Fields
      BY <1>4
    <3> HIDE DEF v
    <3>3. [j \in D \cup {k} |-> IF j = k THEN v ELSE arg[t][j]] \in [D \cup {k} -> Fields]
      BY <3>1, <3>2
    <3> QED
      BY <3>1, <3>3 DEF With, v
  <2>3. D \cup {k} \in SUBSET Keys
    OBVIOUS
  <2> QED
    BY <2>2, <2>3 DEF Arg
<1> QED
  BY <1>1, <1>2, <1>3, <1>5

\* The map holds nothing but fields.
LEMMA FormStep ==
  ASSUME HandlerTypeOK, StagesAgree, FormIsRead, [HandlerNext]_allVars
  PROVE  FormIsRead'
<1>1. ASSUME NEW t \in Thread, AssignForm(t) PROVE FormIsRead'
  <2>1. req[t] \in Request /\ form' = Form(req[t])
    BY <1>1 DEF AssignForm, At, StagesAgree
  <2>2. \A k \in Keys \cap DOMAIN form' : form'[k] = Field(req[t], k)
    BY <2>1 DEF Field
  <2> QED
    BY <2>1, <2>2, FieldIsRead DEF FormIsRead
<1>2. ASSUME NEW t \in Thread, ReadField(t, TitleKey) \/ ReadField(t, BodyKey) PROVE FormIsRead'
  BY <1>2, ReadFieldIsRead DEF Keys
<1>3. ASSUME UNCHANGED form PROVE FormIsRead'
  BY <1>3 DEF FormIsRead
<1>4. ASSUME NEW t \in Thread,
             \/ Receive(t) \/ CallInsert(t) \/ CallGetAll(t) \/ CallGetOne(t) \/ StoiThrows(t)
             \/ StoreStep(t) \/ Respond(t)
      PROVE  UNCHANGED form
  BY <1>4 DEF Receive, CallInsert, CallGetAll, CallGetOne, Calls, StoiThrows, StoreStep, Respond,
     handlerVars
<1> QED
  BY <1>1, <1>2, <1>3, <1>4 DEF HandlerNext, FormRace, allVars, handlerVars

-----------------------------------------------------------------------------
(* Types, and where a thread is.                                           *)

\* The rows of a query are rows.
LEMMA RowsType ==
  ASSUME HandlerTypeOK, NEW S \in SUBSET Id
  PROVE  Rows(S) \in SUBSET (Id \X Post)
BY DEF HandlerTypeOK, Rows

\* An operation of the store: one thread gets its result.
LEMMA StoreTypes ==
  ASSUME HandlerTypeOK, NEW t \in Thread, StoreStep(t)
  PROVE  /\ posts' \in [Id -> Post \cup {NoPost}] /\ UNCHANGED <<call, handlerVars>>
         /\ stage[t] = "called" /\ stage' = [stage EXCEPT ![t] = "done"]
         /\ \E r \in Result : res' = [res EXCEPT ![t] = r]
<1>1. call[t] \in Call \cup {NoCall}
  BY DEF HandlerTypeOK
<1>2. CASE Insert(t)
  <2>1. PICK i \in Id, answered \in BOOLEAN :
          /\ posts' = [posts EXCEPT ![i] = call[t].post]
          /\ Effect(t, "insert_blog", [id |-> IF answered THEN i ELSE -1, rows |-> {}])
    BY <1>2 DEF Insert
  <2>2. call[t].post \in Post
    BY <1>1, <2>1 DEF Effect, Call, NoCall
  <2>3. [id |-> IF answered THEN i ELSE -1, rows |-> {}] \in Result
    BY DEF Result
  <2> QED
    BY <2>1, <2>2, <2>3 DEF Effect, StoreStep, HandlerTypeOK
<1>3. CASE Get(t)
  <2> DEFINE found == Rows(Id \cap {call[t].id})
             r == [id |-> IF found = {} THEN -1 ELSE call[t].id, rows |-> found]
  <2>1. Effect(t, "get_blog", r) /\ posts' = posts
    BY <1>3 DEF Get
  <2>2. call[t].id \in Id \cup {-1}
    BY <1>1, <2>1 DEF Effect, Call, NoCall
  <2>3. r \in Result
    BY <2>2, RowsType DEF Result
  <2> HIDE DEF r
  <2> QED
    BY <2>1, <2>3 DEF Effect, StoreStep, HandlerTypeOK
<1>4. CASE GetAll(t)
  <2>1. [id |-> 0, rows |-> Rows(Id)] \in Result
    BY RowsType DEF Result
  <2> QED
    BY <1>4, <2>1 DEF GetAll, Effect, StoreStep, HandlerTypeOK
<1>5. CASE Fail(t)
  <2>1. [id |-> -1, rows |-> {}] \in Result /\ [id |-> 0, rows |-> {}] \in Result
    BY DEF Result
  <2> QED
    BY <1>5, <2>1 DEF Fail, Effect, StoreStep, HandlerTypeOK
<1> QED
  BY <1>2, <1>3, <1>4, <1>5 DEF StoreStep

\* A call of the store is made with what the request says.
LEMMA CallTypes ==
  ASSUME HandlerTypeOK, StagesAgree, NEW t \in Thread,
         CallInsert(t) \/ CallGetAll(t) \/ CallGetOne(t)
  PROVE  /\ call' \in [Thread -> Call \cup {NoCall}]
         /\ stage[t] = "idle" /\ stage' = [stage EXCEPT ![t] = "called"]
         /\ at[t] \in {"fields", "get"} /\ at' = [at EXCEPT ![t] = "wait"]
         /\ UNCHANGED <<posts, res, up, form, req, arg, alone, granted, handled>>
<1>1. CASE CallInsert(t)
  <2>1. DOMAIN arg[t] = Keys /\ arg[t] \in Arg
    BY <1>1 DEF CallInsert, At, Uses, Keys, HandlerTypeOK
  <2>2. <<arg[t][TitleKey], arg[t][BodyKey]>> \in Post
    BY <2>1, ArgIsPost
  <2>3. [op |-> "insert_blog", post |-> <<arg[t][TitleKey], arg[t][BodyKey]>>, id |-> 0] \in Call
    BY <2>2 DEF Call
  <2> QED
    BY <1>1, <2>3 DEF CallInsert, At, Calls, HandlerTypeOK
<1>2. CASE CallGetAll(t)
  <2>1. [op |-> "get_all_blogs", post |-> NoPost, id |-> 0] \in Call
    BY DEF Call
  <2> QED
    BY <1>2, <2>1 DEF CallGetAll, At, Calls, HandlerTypeOK
<1>3. CASE CallGetOne(t)
  <2>1. req[t].target = "one" => req[t].id \in Id
    BY <1>3 DEF CallGetOne, At, StagesAgree, Request
  <2>2. [op |-> "get_blog", post |-> NoPost,
         id |-> IF req[t].target = "one" THEN req[t].id ELSE -1] \in Call
    BY <2>1 DEF Call
  <2> QED
    BY <1>3, <2>2 DEF CallGetOne, At, Calls, HandlerTypeOK
<1> QED
  BY <1>1, <1>2, <1>3

\* Every variable keeps its type.
LEMMA TypeStep ==
  ASSUME HandlerTypeOK, StagesAgree, FormIsRead, [HandlerNext]_allVars
  PROVE  HandlerTypeOK'
<1>1. ASSUME NEW t \in Thread, Receive(t) PROVE HandlerTypeOK'
  <2>1. alone' \in [Thread -> BOOLEAN]
    BY <1>1 DEF Receive, HandlerTypeOK
  <2>2. req' \in [Thread -> Request \cup {NoRequest}]
    BY <1>1 DEF Receive, HandlerTypeOK
  <2> QED
    BY <1>1, <2>1, <2>2 DEF Receive, At, vars, HandlerTypeOK
<1>2. ASSUME NEW t \in Thread, AssignForm(t) PROVE HandlerTypeOK'
  BY <1>2 DEF AssignForm, At, vars, HandlerTypeOK
<1>3. ASSUME NEW t \in Thread, NEW k \in Keys, ReadField(t, k) PROVE HandlerTypeOK'
  <2>1. arg' \in [Thread -> Arg]
    BY <1>3, ReadFieldIsRead DEF HandlerTypeOK
  <2> QED
    BY <1>3, <2>1 DEF ReadField, At, vars, HandlerTypeOK
<1>4. ASSUME NEW t \in Thread, CallInsert(t) \/ CallGetAll(t) \/ CallGetOne(t)
      PROVE  HandlerTypeOK'
  BY <1>4, CallTypes DEF HandlerTypeOK
<1>5. ASSUME NEW t \in Thread, StoreStep(t) PROVE HandlerTypeOK'
  BY <1>5, StoreTypes DEF HandlerTypeOK, handlerVars
<1>6. ASSUME NEW t \in Thread, Respond(t) PROVE HandlerTypeOK'
  <2>1. NoArg \in Arg
    BY DEF NoArg, Arg
  <2>2. alone' \in [Thread -> BOOLEAN] /\ granted' \subseteq Id
    BY <1>6 DEF Respond, HandlerTypeOK
  <2>3. NoResult \in Result
    BY DEF NoResult, Result
  <2> QED
    BY <1>6, <2>1, <2>2, <2>3 DEF Respond, At, Return, HandlerTypeOK
<1>7. ASSUME UNCHANGED <<vars, form, at, req, arg, alone, granted, handled>>, up' \in BOOLEAN
      PROVE  HandlerTypeOK'
  BY <1>7 DEF HandlerTypeOK, vars
<1>8. ASSUME NEW t \in Thread, StoiThrows(t) \/ \E u \in Thread : FormRace(t, u)
      PROVE  HandlerTypeOK'
  BY <1>7, <1>8 DEF StoiThrows, FormRace
<1>9. CASE UNCHANGED allVars
  BY <1>7, <1>9 DEF allVars, handlerVars, HandlerTypeOK
<1> QED
  BY <1>1, <1>2, <1>3, <1>4, <1>5, <1>6, <1>8, <1>9 DEF HandlerNext, Keys

\* A thread stays where its call and its request say.
LEMMA StagesStep ==
  ASSUME HandlerTypeOK, StagesAgree, FormIsRead, [HandlerNext]_allVars
  PROVE  StagesAgree'
<1> USE DEF StagesAgree
<1>1. ASSUME NEW t \in Thread, Receive(t) PROVE StagesAgree'
  BY <1>1 DEF Receive, At, vars, HandlerTypeOK
<1>2. ASSUME NEW t \in Thread, AssignForm(t) PROVE StagesAgree'
  <2>1. req[t] \in Request => req[t].method \in {"GET", "POST"}
    BY DEF Request
  <2> QED
    BY <1>2, <2>1 DEF AssignForm, At, vars, HandlerTypeOK
<1>3. ASSUME NEW t \in Thread, NEW k \in Keys, ReadField(t, k) PROVE StagesAgree'
  BY <1>3, ReadFieldIsRead DEF ReadField, At, vars, HandlerTypeOK
<1>4. ASSUME NEW t \in Thread, CallInsert(t) \/ CallGetAll(t) \/ CallGetOne(t)
      PROVE  StagesAgree'
  <2>1. call'[t].op = "insert_blog" => at[t] = "fields"
    BY <1>4 DEF CallInsert, CallGetAll, CallGetOne, Calls, At, HandlerTypeOK
  <2>2. \A u \in Thread \ {t} : call'[u] = call[u]
    BY <1>4 DEF CallInsert, CallGetAll, CallGetOne, Calls, HandlerTypeOK
  <2> QED
    BY <1>4, <2>1, <2>2, CallTypes DEF HandlerTypeOK
<1>5. ASSUME NEW t \in Thread, StoreStep(t) PROVE StagesAgree'
  BY <1>5, StoreTypes DEF HandlerTypeOK, handlerVars
<1>6. ASSUME NEW t \in Thread, Respond(t) PROVE StagesAgree'
  <2>1. DOMAIN NoArg = {}
    BY DEF NoArg
  <2> QED
    BY <1>6, <2>1 DEF Respond, At, Return, HandlerTypeOK
<1>7. CASE UNCHANGED <<vars, form, at, req, arg, alone, granted, handled>>
  BY <1>7 DEF vars
<1> QED
  BY <1>1, <1>2, <1>3, <1>4, <1>5, <1>6, <1>7
     DEF HandlerNext, StoiThrows, FormRace, allVars, handlerVars, Keys

-----------------------------------------------------------------------------
(* The ids that are given out.                                             *)

\* A step by which nothing is inserted and no redirect is due or sent.
LEMMA StillGrants ==
  ASSUME GrantsAreNew, UNCHANGED <<posts, granted>>,
         \A u \in Thread : Redirects(u)' => Redirects(u) /\ res'[u] = res[u] /\ call'[u] = call[u]
  PROVE  GrantsAreNew'
BY DEF GrantsAreNew

\* An insert: the id is one that no post, redirect or other result has.
LEMMA InsertGrants ==
  ASSUME GrantInv, NEW t \in Thread, Insert(t), UNCHANGED handlerVars
  PROVE  GrantsAreNew'
<1>1. PICK i \in Id, answered \in BOOLEAN :
        /\ posts[i] = NoPost
        /\ posts' = [posts EXCEPT ![i] = call[t].post]
        /\ Effect(t, "insert_blog", [id |-> IF answered THEN i ELSE -1, rows |-> {}])
  BY DEF Insert
<1>2. /\ stage[t] = "called" /\ call[t].op = "insert_blog" /\ call' = call
      /\ stage'[t] = "done" /\ res'[t].id = IF answered THEN i ELSE -1
      /\ \A u \in Thread \ {t} : stage'[u] = stage[u] /\ res'[u] = res[u]
      /\ at' = at /\ granted' = granted
  BY <1>1 DEF Effect, GrantInv, HandlerTypeOK, handlerVars
<1>3. call[t].post \in Post
  <2>1. call[t] \in Call \cup {NoCall}
    BY DEF GrantInv, HandlerTypeOK
  <2> QED
    BY <1>2, <2>1 DEF Call, NoCall
<1>4. i \notin granted /\ posts'[i] = call[t].post
      /\ \A j \in Id \ {i} : posts'[j] = posts[j]
  BY <1>1 DEF GrantInv, GrantsAreNew, HandlerTypeOK
<1>5. \A u \in Thread \ {t} : Redirects(u)' => Redirects(u)
  BY <1>2 DEF Redirects
<1>6. ASSUME NEW u \in Thread \ {t}, Redirects(u)
      PROVE  /\ res[u].id \in (Id \ granted) \ {i}
             /\ posts[res[u].id] = call[u].post /\ call[u].post \in Post
             /\ \A v \in Thread \ {u} : Redirects(v) => res[v].id # res[u].id
  BY <1>1, <1>6, BlogAssumption DEF GrantInv, GrantsAreNew
<1>7. ASSUME NEW u \in Thread, Redirects(u)'
      PROVE  /\ res'[u].id \in Id \ granted
             /\ posts'[res'[u].id] = call[u].post /\ call[u].post \in Post
             /\ \A v \in Thread \ {u} : Redirects(v)' => res'[v].id # res'[u].id
  <2>1. CASE u = t
    <3>1. res'[t].id = i
      BY <1>2, <1>7, <2>1 DEF Redirects
    <3> QED
      BY <1>2, <1>3, <1>4, <1>5, <1>6, <2>1, <3>1
  <2>2. CASE u # t
    <3>1. Redirects(u) /\ res'[u] = res[u]
      BY <1>2, <1>5, <1>7, <2>2
    <3>2. ASSUME NEW v \in Thread \ {u}, Redirects(v)' PROVE res'[v].id # res'[u].id
      <4>1. CASE v = t
        <5>1. res'[t].id = i
          BY <1>2, <3>2, <4>1 DEF Redirects
        <5> QED
          BY <1>6, <2>2, <3>1, <4>1, <5>1
      <4>2. CASE v # t
        BY <1>2, <1>5, <1>6, <2>2, <3>1, <3>2, <4>2
      <4> QED
        BY <4>1, <4>2
    <3>3. res[u].id \in Id \ {i} /\ res[u].id \notin granted
          /\ posts[res[u].id] = call[u].post /\ call[u].post \in Post
      BY <1>6, <2>2, <3>1
    <3> QED
      BY <1>4, <3>1, <3>2, <3>3
  <2> QED
    BY <2>1, <2>2
<1>8. \A j \in granted : posts'[j] # NoPost
  BY <1>3, <1>4, BlogAssumption DEF GrantInv, GrantsAreNew, HandlerTypeOK
<1> QED
  BY <1>2, <1>7, <1>8 DEF GrantsAreNew

\* A response: the redirect is sent for the id given, which has its post.
LEMMA RespondGrants ==
  ASSUME GrantInv, NEW t \in Thread, Respond(t)
  PROVE  GrantsAreNew'
<1>1. /\ at[t] = "wait" /\ stage[t] = "done" /\ posts' = posts
      /\ granted' = granted \cup ({res[t].id} \cap
                                  IF call[t].op = "insert_blog" THEN Id ELSE {})
      /\ at'[t] = "idle"
      /\ \A u \in Thread \ {t} :
           at'[u] = at[u] /\ stage'[u] = stage[u] /\ call'[u] = call[u] /\ res'[u] = res[u]
  BY DEF Respond, At, Return, GrantInv, HandlerTypeOK
<1>2. ~Redirects(t)' /\ \A u \in Thread \ {t} : Redirects(u)' => Redirects(u)
  BY <1>1 DEF Redirects
<1>3. ASSUME NEW i \in granted', i \notin granted PROVE Redirects(t) /\ i = res[t].id
  <2>1. i = res[t].id /\ i \in Id /\ call[t].op = "insert_blog"
    BY <1>1, <1>3
  <2> QED
    BY <1>1, <2>1, BlogAssumption DEF Redirects, Id
<1>4. \A i \in granted' : posts'[i] # NoPost
  BY <1>1, <1>3, BlogAssumption DEF GrantInv, GrantsAreNew
<1>5. ASSUME NEW u \in Thread, Redirects(u)'
      PROVE  /\ res'[u].id \in Id \ granted'
             /\ posts'[res'[u].id] = call'[u].post /\ call'[u].post \in Post
             /\ \A v \in Thread \ {u} : Redirects(v)' => res'[v].id # res'[u].id
  <2>1. u # t /\ Redirects(u)
    BY <1>2, <1>5
  <2>2. res[u].id \notin granted'
    BY <1>3, <2>1 DEF GrantInv, GrantsAreNew
  <2> QED
    BY <1>1, <1>2, <2>1, <2>2 DEF GrantInv, GrantsAreNew
<1> QED
  BY <1>4, <1>5 DEF GrantsAreNew

\* Every step keeps the ids of the redirects apart.
LEMMA GrantsStep ==
  ASSUME GrantInv, [HandlerNext]_allVars
  PROVE  GrantsAreNew'
<1> USE DEF GrantInv
<1>1. ASSUME NEW t \in Thread, Receive(t) \/ AssignForm(t) \/ ReadField(t, TitleKey)
                               \/ ReadField(t, BodyKey)
      PROVE  GrantsAreNew'
  <2>1. /\ UNCHANGED <<vars, granted>>
        /\ \A u \in Thread : at'[u] = "wait" => at[u] = "wait"
    BY <1>1 DEF Receive, AssignForm, ReadField, At, HandlerTypeOK
  <2> QED
    BY <2>1, StillGrants DEF Redirects, vars
<1>2. ASSUME NEW t \in Thread, CallInsert(t) \/ CallGetAll(t) \/ CallGetOne(t)
      PROVE  GrantsAreNew'
  <2>1. /\ UNCHANGED <<posts, res, granted>> /\ stage'[t] = "called"
        /\ \A u \in Thread \ {t} :
             at'[u] = at[u] /\ stage'[u] = stage[u] /\ call'[u] = call[u]
    BY <1>2 DEF CallInsert, CallGetAll, CallGetOne, Calls, At, HandlerTypeOK
  <2> QED
    BY <2>1, StillGrants DEF Redirects
<1>3. ASSUME NEW t \in Thread, Get(t) \/ GetAll(t) \/ Fail(t), UNCHANGED handlerVars
      PROVE  GrantsAreNew'
  <2>1. /\ UNCHANGED <<posts, call, at, granted>>
        /\ call[t].op = "insert_blog" => res'[t].id = -1
        /\ \A u \in Thread \ {t} : stage'[u] = stage[u] /\ res'[u] = res[u]
    BY <1>3 DEF Get, GetAll, Fail, Effect, handlerVars, HandlerTypeOK
  <2> QED
    BY <2>1, StillGrants DEF Redirects
<1>4. ASSUME NEW t \in Thread, StoreStep(t) PROVE GrantsAreNew'
  BY <1>3, <1>4, InsertGrants DEF StoreStep
<1>5. CASE UNCHANGED <<vars, at, granted>>
  BY <1>5, StillGrants DEF Redirects, vars
<1> QED
  BY <1>1, <1>2, <1>4, <1>5, RespondGrants
     DEF HandlerNext, StoiThrows, FormRace, allVars, handlerVars

-----------------------------------------------------------------------------
(* Isolation.                                                              *)

\* A request that arrives ends the isolation of those that are there.
LEMMA AloneStep ==
  ASSUME GrantInv, AloneIsAlone, [HandlerNext]_allVars
  PROVE  AloneIsAlone'
<1> USE DEF GrantInv, HandlerTypeOK
<1>1. ASSUME NEW t \in Thread, Receive(t) PROVE AloneIsAlone'
  <2>1. /\ alone' = [u \in Thread |-> IF u = t THEN \A v \in Thread \ {t} : ~Busy(v)
                                      ELSE alone[u] /\ ~Busy(u)]
        /\ \A u \in Thread \ {t} : at'[u] = at[u]
    BY <1>1 DEF Receive, At
  <2>2. ASSUME NEW u \in Thread, NEW v \in Thread, Busy(u)', alone'[u], v # u PROVE ~Busy(v)'
    <3>1. u = t
      BY <2>1, <2>2 DEF Busy
    <3> QED
      BY <2>1, <2>2, <3>1 DEF Busy
  <2> QED
    BY <2>2 DEF AloneIsAlone
<1>2. ASSUME NEW t \in Thread,
             \/ AssignForm(t) \/ ReadField(t, TitleKey) \/ ReadField(t, BodyKey)
             \/ CallInsert(t) \/ CallGetAll(t) \/ CallGetOne(t)
      PROVE  AloneIsAlone'
  <2>1. alone' = alone /\ \A u \in Thread : Busy(u)' <=> Busy(u)
    BY <1>2 DEF AssignForm, ReadField, CallInsert, CallGetAll, CallGetOne, Calls, At, Busy
  <2> QED
    BY <2>1 DEF AloneIsAlone
<1>3. ASSUME NEW t \in Thread, Respond(t) PROVE AloneIsAlone'
  <2>1. /\ at'[t] = "idle"
        /\ \A u \in Thread \ {t} : at'[u] = at[u] /\ alone'[u] = alone[u]
    BY <1>3 DEF Respond, At
  <2> QED
    BY <2>1 DEF AloneIsAlone, Busy
<1>4. CASE UNCHANGED <<at, alone>>
  BY <1>4 DEF AloneIsAlone, Busy
<1> QED
  BY <1>1, <1>2, <1>3, <1>4
     DEF HandlerNext, StoreStep, StoiThrows, FormRace, allVars, handlerVars

\* The form of a request that is alone is only touched by its own thread.
LEMMA OwnStep ==
  ASSUME GrantInv, OwnInv, [HandlerNext]_allVars
  PROVE  OwnFields'
<1> USE DEF GrantInv, HandlerTypeOK
<1>1. ASSUME NEW t \in Thread, Receive(t) PROVE OwnFields'
  <2>1. \A u \in Thread : alone'[u] => at'[u] \notin {"fields", "wait"}
    BY <1>1 DEF Receive, At, Busy
  <2> QED
    BY <2>1 DEF OwnFields
<1>2. ASSUME NEW t \in Thread, Busy(t), UNCHANGED <<req, alone>>,
             \A u \in Thread \ {t} : at'[u] = at[u],
             alone[t] =>
               /\ at'[t] = "fields" => \A k \in Keys :
                    /\ Field(req[t], k) = IF k \in DOMAIN form' THEN form'[k] ELSE <<>>
                    /\ k \in DOMAIN arg'[t] => arg'[t][k] = Field(req[t], k)
               /\ at'[t] = "wait" /\ call'[t].op = "insert_blog" =>
                    call'[t].post = <<Field(req[t], TitleKey), Field(req[t], BodyKey)>>
      PROVE  OwnFields'
  <2>1. \A u \in Thread \ {t} : alone'[u] => at'[u] \notin {"fields", "wait"}
    BY <1>2 DEF OwnInv, AloneIsAlone, Busy
  <2> QED
    BY <1>2, <2>1 DEF OwnFields
<1>3. ASSUME NEW t \in Thread, AssignForm(t) PROVE OwnFields'
  <2>1. /\ at[t] = "assign" /\ form' = Form(req[t]) /\ UNCHANGED <<req, arg, alone>>
        /\ at'[t] \in {"get", "fields"} /\ \A u \in Thread \ {t} : at'[u] = at[u]
        /\ DOMAIN arg[t] = {}
    BY <1>3 DEF AssignForm, At, StagesAgree
  <2>2. \A k \in Keys : Field(req[t], k) = IF k \in DOMAIN form' THEN form'[k] ELSE <<>>
    BY <2>1 DEF Field
  <2> QED
    BY <1>2, <2>1, <2>2 DEF Busy
<1>4. ASSUME NEW t \in Thread, NEW k \in Keys, ReadField(t, k) PROVE OwnFields'
  <2>1. /\ at[t] = "fields" /\ UNCHANGED <<at, req, alone>>
    BY <1>4 DEF ReadField, At
  <2>2. /\ k \in DOMAIN form'
        /\ \A j \in Keys : (IF j \in DOMAIN form' THEN form'[j] ELSE <<>>)
                            = (IF j \in DOMAIN form THEN form[j] ELSE <<>>)
        /\ arg' = [arg EXCEPT ![t] = With(arg[t], k, form'[k])]
    BY <1>4, ReadFieldIsRead
  <2>3. ASSUME alone[t]
        PROVE  \A j \in Keys :
                 /\ Field(req[t], j) = IF j \in DOMAIN form' THEN form'[j] ELSE <<>>
                 /\ j \in DOMAIN arg'[t] => arg'[t][j] = Field(req[t], j)
    <3>1. \A j \in Keys :
            /\ Field(req[t], j) = IF j \in DOMAIN form THEN form[j] ELSE <<>>
            /\ j \in DOMAIN arg[t] => arg[t][j] = Field(req[t], j)
      BY <2>1, <2>3 DEF OwnInv, OwnFields
    <3>2. \A j \in Keys : Field(req[t], j) = IF j \in DOMAIN form' THEN form'[j] ELSE <<>>
      BY <2>2, <3>1
    <3>3. Field(req[t], k) = form'[k]
      BY <2>2, <3>2
    <3>4. ASSUME NEW j \in Keys, j \in DOMAIN arg'[t] PROVE arg'[t][j] = Field(req[t], j)
      <4>1. arg'[t] = [i \in DOMAIN arg[t] \cup {k} |-> IF i = k THEN form'[k] ELSE arg[t][i]]
        BY <2>2 DEF With
      <4>2. j = k \/ (j # k /\ j \in DOMAIN arg[t])
        BY <3>4, <4>1
      <4> QED
        BY <3>1, <3>3, <3>4, <4>1, <4>2
    <3> QED
      BY <3>2, <3>4
  <2> QED
    BY <1>2, <2>1, <2>3 DEF Busy
<1>5. ASSUME NEW t \in Thread, CallInsert(t) PROVE OwnFields'
  <2>1. /\ at[t] = "fields" /\ DOMAIN arg[t] = Keys
        /\ at'[t] = "wait" /\ \A u \in Thread \ {t} : at'[u] = at[u]
        /\ UNCHANGED <<req, alone>>
        /\ call'[t].post = <<arg[t][TitleKey], arg[t][BodyKey]>>
    BY <1>5 DEF CallInsert, Calls, At, Uses, Keys
  <2>2. alone[t] => \A k \in Keys : arg[t][k] = Field(req[t], k)
    BY <2>1 DEF OwnInv, OwnFields
  <2> QED
    BY <1>2, <2>1, <2>2 DEF Busy, Keys
<1>6. ASSUME NEW t \in Thread, CallGetAll(t) \/ CallGetOne(t) PROVE OwnFields'
  <2>1. /\ at[t] = "get" /\ at'[t] = "wait" /\ \A u \in Thread \ {t} : at'[u] = at[u]
        /\ UNCHANGED <<req, alone>> /\ call'[t].op # "insert_blog"
    BY <1>6 DEF CallGetAll, CallGetOne, Calls, At
  <2> QED
    BY <1>2, <2>1 DEF Busy
<1>7. ASSUME NEW t \in Thread, Respond(t) PROVE OwnFields'
  <2>1. /\ at'[t] = "idle" /\ form' = form
        /\ \A u \in Thread \ {t} :
             /\ at'[u] = at[u] /\ alone'[u] = alone[u] /\ req'[u] = req[u]
             /\ arg'[u] = arg[u] /\ call'[u] = call[u]
    BY <1>7 DEF Respond, At, Return
  <2> QED
    BY <2>1 DEF OwnInv, OwnFields
<1>8. CASE UNCHANGED <<form, at, req, arg, alone, call>>
  BY <1>8 DEF OwnInv, OwnFields
<1>9. ASSUME NEW t \in Thread, StoreStep(t) PROVE OwnFields'
  BY <1>8, <1>9, StoreTypes DEF handlerVars
<1> QED
  BY <1>1, <1>3, <1>4, <1>5, <1>6, <1>7, <1>8, <1>9
     DEF HandlerNext, StoiThrows, FormRace, allVars, handlerVars, vars, Keys

-----------------------------------------------------------------------------
(* The theorems.                                                           *)

\* Nothing was asked for at the start.
LEMMA InitHandler == HandlerInit => GrantInv /\ OwnInv
<1> SUFFICES ASSUME HandlerInit PROVE GrantInv /\ OwnInv
  OBVIOUS
<1>1. NoArg \in Arg /\ DOMAIN NoArg = {}
  BY DEF NoArg, Arg
<1>2. NoResult \in Result
  BY DEF NoResult, Result
<1>3. HandlerTypeOK
  BY <1>1, <1>2 DEF HandlerInit, Init, HandlerTypeOK
<1>4. StagesAgree
  BY <1>1 DEF HandlerInit, Init, StagesAgree
<1>5. FormIsRead
  <2>1. Keys \cap DOMAIN form = {}
    BY DEF HandlerInit, Keys, TitleKey, BodyKey
  <2> QED
    BY <2>1 DEF FormIsRead
<1>6. GrantsAreNew /\ AloneIsAlone /\ OwnFields
  BY DEF HandlerInit, Init, GrantsAreNew, Redirects, AloneIsAlone, Busy, OwnFields
<1> QED
  BY <1>3, <1>4, <1>5, <1>6 DEF GrantInv, OwnInv

\* Both invariants: the base of the theorems below.
THEOREM HandlerInvariant == HandlerSpec => [](GrantInv /\ OwnInv)
<1>1. GrantInv /\ OwnInv /\ [HandlerNext]_allVars => (GrantInv /\ OwnInv)'
  BY TypeStep, StagesStep, FormStep, GrantsStep, AloneStep, OwnStep DEF GrantInv, OwnInv
<1> QED
  BY <1>1, InitHandler, PTL DEF HandlerSpec

(* The handler makes the calls of the store one after the other in each    *)
(* thread, with arguments the store takes, and waits for each result: what *)
(* it does is, to the store, a behaviour of BlogStore.                     *)
THEOREM HandlersUseTheStore == HandlerSpec => Spec
<1>1. HandlerInit => Init
  BY DEF HandlerInit
<1>2. ASSUME GrantInv, [HandlerNext]_allVars PROVE [Next]_vars
  <2>1. ASSUME NEW t \in Thread, NEW c \in Call, Calls(t, c) PROVE Invoke(t)
    BY <2>1 DEF Calls, Invoke
  <2>2. ASSUME NEW t \in Thread, CallInsert(t) PROVE Invoke(t)
    <3>1. DOMAIN arg[t] = Keys /\ arg[t] \in Arg
      BY <1>2, <2>2 DEF CallInsert, At, Uses, Keys, GrantInv, HandlerTypeOK
    <3>2. [op |-> "insert_blog", post |-> <<arg[t][TitleKey], arg[t][BodyKey]>>, id |-> 0] \in Call
      BY <3>1, ArgIsPost DEF Call
    <3> QED
      BY <2>1, <2>2, <3>2 DEF CallInsert
  <2>3. ASSUME NEW t \in Thread, CallGetAll(t) PROVE Invoke(t)
    BY <2>1, <2>3 DEF CallGetAll, Call
  <2>4. ASSUME NEW t \in Thread, CallGetOne(t) PROVE Invoke(t)
    <3>1. req[t].target = "one" => req[t].id \in Id
      BY <1>2, <2>4 DEF CallGetOne, At, GrantInv, StagesAgree, Request
    <3>2. [op |-> "get_blog", post |-> NoPost,
           id |-> IF req[t].target = "one" THEN req[t].id ELSE -1] \in Call
      BY <3>1 DEF Call
    <3> QED
      BY <2>1, <2>4, <3>2 DEF CallGetOne
  <2>5. ASSUME NEW t \in Thread, StoreStep(t) \/ Respond(t) PROVE Next
    BY <2>5 DEF StoreStep, Respond, Next
  <2>6. ASSUME NEW t \in Thread,
               \/ Receive(t) \/ AssignForm(t) \/ StoiThrows(t)
               \/ ReadField(t, TitleKey) \/ ReadField(t, BodyKey)
               \/ \E u \in Thread : FormRace(t, u)
        PROVE  UNCHANGED vars
    BY <2>6 DEF Receive, AssignForm, ReadField, StoiThrows, FormRace
  <2>7. CASE UNCHANGED allVars
    BY <2>7 DEF allVars
  <2> QED
    BY <1>2, <2>2, <2>3, <2>4, <2>5, <2>6, <2>7 DEF HandlerNext, Next
<1> QED
  BY <1>1, <1>2, HandlerInvariant, PTL DEF HandlerSpec, Spec

(* handle_post_blog: the id in a redirect is that of a post in the store,  *)
(* and of no other redirect, sent or on its way, whatever the threads did  *)
(* to each other's form before they called insert_blog.                    *)
THEOREM RedirectsLeadToNewPosts == HandlerSpec => []RedirectsToNewPost
<1>1. GrantInv => RedirectsToNewPost
  BY BlogAssumption DEF GrantInv, GrantsAreNew, RedirectsToNewPost
<1> QED
  BY <1>1, HandlerInvariant, PTL

\* A post whose request no other one overlapped is the pair of values that
\* the body of this request is read as.
IsolatedPostIsRead ==
  \A t \in Thread : Redirects(t) /\ alone[t]
    => posts[res[t].id] = <<Field(req[t], TitleKey), Field(req[t], BodyKey)>>

(* The shared member form_to_value_ keeps nothing of the requests before:  *)
(* a request that no other one overlapped is stored as its own body alone  *)
(* is read.                                                                *)
THEOREM IsolatedPostsAreTheirOwn == HandlerSpec => []IsolatedPostIsRead
<1>1. GrantInv /\ OwnInv => IsolatedPostIsRead
  BY DEF GrantInv, GrantsAreNew, OwnInv, OwnFields, IsolatedPostIsRead, Redirects
<1> QED
  BY <1>1, HandlerInvariant, PTL

-----------------------------------------------------------------------------
(* Greatest and least elements, and induction over sequences.              *)

\* A non-empty set of natural numbers has a least element,
LEMMA LeastNat ==
  ASSUME NEW S \in SUBSET Nat, S # {}
  PROVE  \E x \in S : \A y \in S : x <= y
<1> DEFINE Less == {p \in Nat \X Nat : p[1] < p[2]}
<1>1. IsWellFoundedOn(Less, Nat)
  BY NatLessThanWellFounded DEF OpToRel
<1>2. PICK x \in S : \A y \in S : ~(<<y, x>> \in Less)
  <2> HIDE DEF Less
  <2> QED
    BY <1>1, WFMin
<1>3. \A y \in S : x <= y
  <2>1. SUFFICES ASSUME NEW y \in S PROVE x <= y
    OBVIOUS
  <2>2. x \in Nat /\ y \in Nat /\ ~(y < x)
    BY <1>2
  <2> QED
    BY <2>2
<1> QED
  BY <1>3

\* and a greatest one if there is a bound.
LEMMA MaxOfBounded ==
  ASSUME NEW n \in Nat, NEW S \in SUBSET (0..n), S # {}
  PROVE  Max(S) \in S /\ \A i \in S : i <= Max(S)
<1> DEFINE T == {k \in 0..n : n - k \in S}
<1>1. T \in SUBSET Nat /\ T # {}
  <2>1. PICK i \in S : TRUE
    OBVIOUS
  <2>2. i \in 0..n /\ n - i \in 0..n /\ n - (n - i) = i
    OBVIOUS
  <2>3. n - i \in T
    BY <2>2
  <2>4. \A k \in T : k \in Nat
    OBVIOUS
  <2> HIDE DEF T
  <2> QED
    BY <2>3, <2>4
<1>2. PICK x \in T : \A y \in T : x <= y
  BY <1>1, LeastNat
<1>3. n - x \in S /\ x \in 0..n
  OBVIOUS
<1>4. \A i \in S : i <= n - x
  <2>1. SUFFICES ASSUME NEW i \in S PROVE i <= n - x
    OBVIOUS
  <2>2. i \in 0..n /\ n - i \in 0..n /\ n - (n - i) = i
    OBVIOUS
  <2>3. x <= n - i
    BY <1>2, <2>2
  <2> QED
    BY <1>3, <2>2, <2>3
<1>5. \E m \in S : \A i \in S : m >= i
  <2>1. \A i \in S : n - x >= i
    <3>1. SUFFICES ASSUME NEW i \in S PROVE n - x >= i
      OBVIOUS
    <3>2. i \in 0..n /\ i <= n - x
      BY <1>4
    <3> QED
      BY <1>3, <3>2
  <2> QED
    BY <1>3, <2>1
<1>6. Max(S) \in S /\ \A i \in S : Max(S) >= i
  BY <1>5 DEF Max
<1> QED
  BY <1>6

\* A set of strings that has the empty one, and with each one those that are
\* longer by a symbol, has all.
LEMMA AllSequences ==
  ASSUME NEW A, NEW P \in SUBSET Seq(A), <<>> \in P,
         \A s \in P, e \in A : Append(s, e) \in P
  PROVE  Seq(A) \subseteq P
<1> DEFINE missing == {n \in Nat : \E s \in Seq(A) : s \notin P /\ Len(s) = n}
<1>1. SUFFICES ASSUME missing # {} PROVE FALSE
  BY LenProperties
<1>2. PICK n \in missing : \A m \in missing : n <= m
  <2>1. missing \in SUBSET Nat
    OBVIOUS
  <2> HIDE DEF missing
  <2> QED
    BY <1>1, <2>1, LeastNat
<1>3. PICK s \in Seq(A) : s \notin P /\ Len(s) = n
  OBVIOUS
<1>4. PICK t \in Seq(A), e \in A : s = Append(t, e)
  BY <1>3, SequenceEmptyOrAppend
<1>5. Len(t) \in Nat /\ Len(t) + 1 = n
  BY <1>3, <1>4, LenProperties, AppendProperties
<1>6. t \notin P
  BY <1>3, <1>4
<1>7. Len(t) \in missing
  BY <1>5, <1>6
<1>8. n <= Len(t) /\ n \in Nat
  BY <1>2, <1>7
<1> QED
  BY <1>5, <1>8

-----------------------------------------------------------------------------
(* What parseRequestBody folds over a body.                                *)

Start == [temp |-> <<>>, key |-> <<>>, value |-> <<>>, atkey |-> TRUE]
Parsed(body) == FoldLeft(ParseChar, Start, body)

\* What the recursion of FoldLeft has to satisfy.
Folds(f, s) ==
  f = [D \in SUBSET DOMAIN s |->
         IF D = {} THEN Start ELSE ParseChar(f[D \ {Max(D)}], s[Max(D)])]

LEMMA FoldsAt ==
  ASSUME NEW f, NEW s, Folds(f, s), NEW D \in SUBSET DOMAIN s
  PROVE  f[D] = IF D = {} THEN Start ELSE ParseChar(f[D \ {Max(D)}], s[Max(D)])
<1> DEFINE g == [E \in SUBSET DOMAIN s |->
                   IF E = {} THEN Start ELSE ParseChar(f[E \ {Max(E)}], s[Max(E)])]
<1>1. f = g
  BY DEF Folds
<1>2. g[D] = IF D = {} THEN Start ELSE ParseChar(f[D \ {Max(D)}], s[Max(D)])
  OBVIOUS
<1> QED
  BY <1>1, <1>2, Zenon

\* Positions in a sequence, and in one that is longer by one.
LEMMA Positions ==
  ASSUME NEW A, NEW s \in Seq(A), NEW c \in A
  PROVE  /\ Len(s) \in Nat /\ DOMAIN s = 1..Len(s)
         /\ Append(s, c) \in Seq(A) /\ DOMAIN Append(s, c) = 1..(Len(s) + 1)
         /\ Append(s, c)[Len(s) + 1] = c /\ \A i \in 1..Len(s) : Append(s, c)[i] = s[i]
<1> DEFINE t == Append(s, c)
<1>1. /\ Len(s) \in Nat /\ DOMAIN s = 1..Len(s) /\ t \in Seq(A) /\ Len(t) = Len(s) + 1
      /\ t[Len(s) + 1] = c /\ \A i \in 1..Len(s) : t[i] = s[i]
  BY LenProperties, AppendProperties
<1>2. DOMAIN t = 1..Len(t)
  <2> HIDE DEF t
  <2> QED
    BY <1>1, LenProperties
<1> QED
  BY <1>1, <1>2

\* The greatest of some positions.
LEMMA MaxOfPositions ==
  ASSUME NEW n \in Nat, NEW D \in SUBSET (1..n), D # {}
  PROVE  Max(D) \in D /\ Max(D) \in 1..n /\ (\A i \in D : i <= Max(D)) /\ D \ {Max(D)} \in SUBSET (1..n)
<1>1. D \in SUBSET (0..n)
  OBVIOUS
<1> QED
  BY <1>1, MaxOfBounded

\* Longer by one: the recursion goes on where it was.
LEMMA FoldsLonger ==
  ASSUME NEW A, NEW s \in Seq(A), NEW c \in A, NEW f, Folds(f, s)
  PROVE  \E g : Folds(g, Append(s, c))
<1> DEFINE t == Append(s, c)
           n == Len(s)
           g == [D \in SUBSET (1..(n + 1)) |->
                   IF n + 1 \in D THEN ParseChar(f[D \ {n + 1}], c) ELSE f[D]]
           h == [D \in SUBSET (1..(n + 1)) |->
                   IF D = {} THEN Start ELSE ParseChar(g[D \ {Max(D)}], t[Max(D)])]
<1>1. /\ n \in Nat /\ n + 1 \in Nat /\ DOMAIN s = 1..n /\ DOMAIN t = 1..(n + 1)
      /\ t[n + 1] = c /\ \A i \in 1..n : t[i] = s[i]
  BY Positions
<1>2. /\ \A D \in SUBSET (1..(n + 1)) :
           g[D] = IF n + 1 \in D THEN ParseChar(f[D \ {n + 1}], c) ELSE f[D]
      /\ \A D \in SUBSET (1..(n + 1)) :
           h[D] = IF D = {} THEN Start ELSE ParseChar(g[D \ {Max(D)}], t[Max(D)])
      /\ DOMAIN g = SUBSET (1..(n + 1)) /\ DOMAIN h = SUBSET (1..(n + 1))
      /\ g = [D \in DOMAIN g |-> g[D]] /\ h = [D \in DOMAIN h |-> h[D]]
  OBVIOUS
<1>3. Folds(g, t) <=> g = h
  BY <1>1 DEF Folds
<1> HIDE DEF t, n, g, h
<1>4. ASSUME NEW D \in SUBSET (1..(n + 1)) PROVE g[D] = h[D]
  <2>1. CASE D = {}
    <3>1. f[D] = Start
      BY <1>1, <2>1, FoldsAt
    <3>2. {} \in SUBSET (1..(n + 1)) /\ n + 1 \notin {}
      OBVIOUS
    <3> QED
      BY <1>2, <2>1, <3>1, <3>2
  <2>2. CASE n + 1 \in D
    <3>1. D # {}
      BY <2>2
    <3>2. /\ Max(D) \in 1..(n + 1) /\ n + 1 <= Max(D)
          /\ D \ {Max(D)} \in SUBSET (1..(n + 1))
      BY <1>1, <2>2, <3>1, MaxOfPositions
    <3>3. Max(D) = n + 1
      BY <1>1, <3>2
    <3>4. n + 1 \notin D \ {n + 1}
      OBVIOUS
    <3>5. g[D \ {n + 1}] = f[D \ {n + 1}]
      BY <1>2, <3>2, <3>3, <3>4
    <3> QED
      BY <1>1, <1>2, <2>2, <3>1, <3>3, <3>5
  <2>3. CASE D # {} /\ n + 1 \notin D
    <3>1. D \in SUBSET (1..n)
      <4>1. \A i \in 1..(n + 1) : i # n + 1 => i \in 1..n
        BY <1>1
      <4> QED
        BY <2>3, <4>1
    <3>2. /\ Max(D) \in D /\ Max(D) \in 1..n /\ D \ {Max(D)} \in SUBSET (1..n)
      BY <1>1, <2>3, <3>1, MaxOfPositions
    <3>3. f[D] = ParseChar(f[D \ {Max(D)}], s[Max(D)])
      BY <1>1, <2>3, <3>1, FoldsAt
    <3>4. D \ {Max(D)} \in SUBSET (1..(n + 1)) /\ n + 1 \notin D \ {Max(D)}
      BY <2>3
    <3>5. g[D \ {Max(D)}] = f[D \ {Max(D)}] /\ g[D] = f[D] /\ t[Max(D)] = s[Max(D)]
      BY <1>1, <1>2, <2>3, <3>2, <3>4
    <3> QED
      BY <1>2, <2>3, <3>3, <3>5
  <2> QED
    BY <2>1, <2>2, <2>3
<1>5. g = h
  BY <1>2, <1>4, Zenon
<1> QED
  BY <1>3, <1>5 DEF t

\* The recursion is defined for every sequence,
LEMMA FoldsExists ==
  ASSUME NEW A, NEW s \in Seq(A)
  PROVE  \E f : Folds(f, s)
<1> DEFINE P == {t \in Seq(A) : \E f : Folds(f, t)}
<1>1. <<>> \in P
  <2>1. <<>> \in Seq(A) /\ DOMAIN <<>> = {}
    <3>1. <<>> \in Seq(A) /\ Len(<<>>) = 0
      BY EmptySeq
    <3>2. DOMAIN <<>> = 1..0
      BY <3>1, LenProperties
    <3> QED
      BY <3>1, <3>2
  <2> DEFINE g == [D \in SUBSET {} |-> Start]
  <2>2. Folds(g, <<>>)
    <3>1. \A D \in SUBSET {} : D = {}
      OBVIOUS
    <3>2. g = [D \in SUBSET {} |->
                 IF D = {} THEN Start ELSE ParseChar(g[D \ {Max(D)}], <<>>[Max(D)])]
      BY <3>1
    <3> HIDE DEF g
    <3> QED
      BY <2>1, <3>2 DEF Folds
  <2> QED
    BY <2>1, <2>2, Zenon
<1>2. \A t \in P, c \in A : Append(t, c) \in P
  BY FoldsLonger, AppendProperties
<1>3. P \in SUBSET Seq(A)
  OBVIOUS
<1> HIDE DEF P
<1>4. s \in P
  BY <1>1, <1>2, <1>3, AllSequences
<1> QED
  BY <1>4 DEF P

\* and it has only one value.
LEMMA FoldsUnique ==
  ASSUME NEW A, NEW s \in Seq(A), NEW c \in A,
         NEW f, NEW g, Folds(f, s), Folds(g, Append(s, c))
  PROVE  f[DOMAIN s] = g[DOMAIN s]
<1> DEFINE t == Append(s, c)
           n == Len(s)
           differ == {k \in 0..n : \E D \in SUBSET (1..k) : f[D] # g[D]}
<1>1. /\ n \in Nat /\ DOMAIN s = 1..n /\ DOMAIN t = 1..(n + 1)
      /\ \A i \in 1..n : t[i] = s[i]
  BY Positions
<1>2. Folds(g, t)
  OBVIOUS
<1> HIDE DEF t
<1>3. SUFFICES ASSUME n \in differ PROVE FALSE
  BY <1>1
<1>4. PICK k \in differ : \A j \in differ : k <= j
  <2>1. differ \in SUBSET Nat
    OBVIOUS
  <2> HIDE DEF differ
  <2> QED
    BY <1>3, <2>1, LeastNat
<1>5. PICK D \in SUBSET (1..k) : f[D] # g[D]
  OBVIOUS
<1>6. k \in 0..n /\ k \in Nat
  OBVIOUS
<1> HIDE DEF n
<1>7. D \in SUBSET DOMAIN s /\ D \in SUBSET DOMAIN t
  <2>1. \A i \in 1..k : i \in 1..n /\ i \in 1..(n + 1)
    BY <1>1, <1>6
  <2> QED
    BY <1>1, <2>1
<1>8. /\ f[D] = IF D = {} THEN Start ELSE ParseChar(f[D \ {Max(D)}], s[Max(D)])
      /\ g[D] = IF D = {} THEN Start ELSE ParseChar(g[D \ {Max(D)}], t[Max(D)])
  <2> HIDE DEF differ
  <2>1. f[D] = IF D = {} THEN Start ELSE ParseChar(f[D \ {Max(D)}], s[Max(D)])
    BY <1>7, FoldsAt
  <2>2. g[D] = IF D = {} THEN Start ELSE ParseChar(g[D \ {Max(D)}], t[Max(D)])
    BY <1>2, <1>7, FoldsAt
  <2> QED
    BY <2>1, <2>2
<1>9. D # {}
  BY <1>5, <1>8
<1>10. /\ Max(D) \in D /\ Max(D) \in 1..k /\ \A i \in D : i <= Max(D)
  BY <1>6, <1>9, MaxOfPositions
<1>11. s[Max(D)] = t[Max(D)]
  BY <1>1, <1>6, <1>10
<1>12. f[D \ {Max(D)}] = g[D \ {Max(D)}]
  <2>1. k - 1 \in 0..n /\ ~(k <= k - 1)
    BY <1>1, <1>6, <1>10
  <2>2. D \ {Max(D)} \in SUBSET (1..(k - 1))
    <3>1. ASSUME NEW i \in D, i # Max(D) PROVE i \in 1..(k - 1)
      <4>1. i \in 1..k /\ i <= Max(D)
        BY <1>10
      <4> QED
        BY <1>6, <1>10, <3>1, <4>1
    <3> QED
      BY <3>1
  <2>3. k - 1 \notin differ
    BY <1>4, <2>1
  <2> QED
    BY <2>1, <2>2, <2>3 DEF differ, n
<1> QED
  BY <1>5, <1>8, <1>9, <1>11, <1>12

\* The two equations of Parsed.
LEMMA ParsedIs ==
  ASSUME NEW A, NEW s \in Seq(A)
  PROVE  \E f : Folds(f, s) /\ Parsed(s) = f[DOMAIN s]
<1> DEFINE F == CHOOSE f : Folds(f, s)
<1>1. Folds(F, s)
  BY FoldsExists, Zenon
<1>2. Parsed(s) = F[DOMAIN s]
  BY DEF Parsed, FoldLeft, MapThenFoldSet, Folds
<1> QED
  BY <1>1, <1>2, Zenon

LEMMA ParsedEmpty == Parsed(<<>>) = Start
<1>1. <<>> \in Seq(STRING) /\ DOMAIN <<>> = {}
  <2>1. <<>> \in Seq(STRING) /\ Len(<<>>) = 0
    BY EmptySeq
  <2>2. DOMAIN <<>> = 1..0
    BY <2>1, LenProperties
  <2> QED
    BY <2>1, <2>2
<1>2. PICK f : Folds(f, <<>>) /\ Parsed(<<>>) = f[{}]
  BY <1>1, ParsedIs
<1>3. {} \in SUBSET DOMAIN <<>>
  OBVIOUS
<1> QED
  BY <1>2, <1>3, FoldsAt

LEMMA ParsedAppend ==
  ASSUME NEW A, NEW s \in Seq(A), NEW c \in A
  PROVE  Parsed(Append(s, c)) = ParseChar(Parsed(s), c)
<1> DEFINE t == Append(s, c)
           n == Len(s)
           D == 1..(n + 1)
<1>1. /\ n \in Nat /\ n + 1 \in Nat /\ DOMAIN s = 1..n /\ t \in Seq(A) /\ DOMAIN t = D
      /\ t[n + 1] = c
  BY Positions
<1>2. PICK f : Folds(f, s) /\ Parsed(s) = f[DOMAIN s]
  BY ParsedIs
<1>3. PICK g : Folds(g, t) /\ Parsed(t) = g[DOMAIN t]
  BY <1>1, ParsedIs
<1>4. f[DOMAIN s] = g[DOMAIN s]
  BY <1>2, <1>3, FoldsUnique
<1>5. n + 1 \in D /\ D # {} /\ D \in SUBSET (1..(n + 1)) /\ D \in SUBSET DOMAIN t
  BY <1>1
<1> HIDE DEF t, n
<1>6. Max(D) = n + 1
  <2> HIDE DEF D
  <2>1. Max(D) \in 1..(n + 1) /\ n + 1 <= Max(D)
    BY <1>1, <1>5, MaxOfPositions
  <2> QED
    BY <1>1, <2>1
<1>7. D \ {n + 1} = 1..n
  <2>1. \A i : i \in D \ {n + 1} <=> i \in 1..n
    BY <1>1
  <2> QED
    BY <2>1
<1> HIDE DEF D
<1>8. g[D] = ParseChar(g[D \ {Max(D)}], t[Max(D)])
  BY <1>3, <1>5, FoldsAt
<1> QED
  BY <1>1, <1>2, <1>3, <1>4, <1>6, <1>7, <1>8 DEF t

\* Longer on the right.
LEMMA ConcatAppend ==
  ASSUME NEW A, NEW s \in Seq(A), NEW v \in Seq(A), NEW c \in A
  PROVE  s \o Append(v, c) = Append(s \o v, c)
<1>1. <<c>> \in Seq(A) /\ s \o v \in Seq(A)
  BY ConcatProperties
<1>2. Append(v, c) = v \o <<c>> /\ Append(s \o v, c) = (s \o v) \o <<c>>
  BY <1>1, AppendIsConcat
<1>3. s \o (v \o <<c>>) = (s \o v) \o <<c>>
  BY <1>1, ConcatAssociative
<1> QED
  BY <1>2, <1>3

\* The symbols of a body: strings all, which the provers know of no literal.
Symbol ==
  STRING \cup DOMAIN Escapes \cup {Escapes[e] : e \in DOMAIN Escapes}
    \cup {"submissiontitle", "submissionbody", "=", "&"}

\* The variables of the loop.
Loop(temp, key, value, atkey) ==
  [temp |-> temp, key |-> key, value |-> value, atkey |-> atkey]

\* A key of one symbol.
LEMMA ParsedKey ==
  ASSUME NEW s \in Seq(Symbol), NEW m, NEW c \in Symbol, c # "=", c # "&",
         Parsed(s) = Loop(m, <<>>, <<>>, TRUE)
  PROVE  Parsed((s \o <<c>>) \o <<"=">>) = Loop(m, <<c>>, <<>>, FALSE)
<1>1. s \o <<c>> = Append(s, c) /\ Append(s, c) \in Seq(Symbol)
  BY AppendIsConcat, AppendProperties
<1>2. Parsed(Append(s, c)) = Loop(m, Append(<<>>, c), <<>>, TRUE)
  <2>1. Parsed(Append(s, c)) = ParseChar(Loop(m, <<>>, <<>>, TRUE), c)
    BY ParsedAppend
  <2>2. ParseChar(Loop(m, <<>>, <<>>, TRUE), c) = Loop(m, Append(<<>>, c), <<>>, TRUE)
    BY DEF ParseChar, Loop
  <2> QED
    BY <2>1, <2>2
<1>3. Append(<<>>, c) = <<c>>
  OBVIOUS
<1>4. (s \o <<c>>) \o <<"=">> = Append(Append(s, c), "=")
  <2>1. "=" \in Symbol
    BY DEF Symbol
  <2> QED
    BY <1>1, <2>1, AppendIsConcat
<1>5. Parsed(Append(Append(s, c), "=")) = ParseChar(Parsed(Append(s, c)), "=")
  <2>1. "=" \in Symbol
    BY DEF Symbol
  <2> QED
    BY <1>1, <2>1, ParsedAppend
<1>6. ParseChar(Loop(m, <<c>>, <<>>, TRUE), "=") = Loop(m, <<c>>, <<>>, FALSE)
  BY DEF ParseChar, Loop
<1> QED
  BY <1>2, <1>3, <1>4, <1>5, <1>6

\* A value without separators is appended as it is.
LEMMA ParsedValue ==
  ASSUME NEW s \in Seq(Symbol), NEW m, NEW k, Parsed(s) = Loop(m, k, <<>>, FALSE),
         NEW v \in Seq(Symbol), IsClean(v)
  PROVE  Parsed(s \o v) = Loop(m, k, v, FALSE)
<1> DEFINE P == {u \in Seq(Symbol) : IsClean(u) => Parsed(s \o u) = Loop(m, k, u, FALSE)}
<1>1. <<>> \in P
  <2>1. <<>> \in Seq(Symbol) /\ s \o <<>> = s
    BY EmptySeq, ConcatEmptySeq
  <2> QED
    BY <2>1
<1>2. ASSUME NEW u \in P, NEW c \in Symbol PROVE Append(u, c) \in P
  <2>0. u \in Seq(Symbol) /\ (IsClean(u) => Parsed(s \o u) = Loop(m, k, u, FALSE))
    OBVIOUS
  <2>1. u \in Seq(Symbol) /\ Append(u, c) \in Seq(Symbol)
    BY <2>0, AppendProperties
  <2>2. SUFFICES ASSUME IsClean(Append(u, c))
                 PROVE  Parsed(s \o Append(u, c)) = Loop(m, k, Append(u, c), FALSE)
    BY <2>1
  <2> HIDE DEF P
  <2>3. IsClean(u) /\ c # "=" /\ c # "&"
    <3>1. /\ Len(u) \in Nat /\ DOMAIN u = 1..Len(u)
          /\ DOMAIN Append(u, c) = 1..(Len(u) + 1)
          /\ Append(u, c)[Len(u) + 1] = c /\ \A i \in 1..Len(u) : Append(u, c)[i] = u[i]
      BY <2>1, Positions
    <3>2. Len(u) + 1 \in 1..(Len(u) + 1) /\ \A i \in 1..Len(u) : i \in 1..(Len(u) + 1)
      BY <3>1
    <3> QED
      BY <2>2, <3>1, <3>2 DEF IsClean, Separators
  <2>4. Parsed(s \o u) = Loop(m, k, u, FALSE)
    BY <2>0, <2>3
  <2>5. s \o Append(u, c) = Append(s \o u, c) /\ s \o u \in Seq(Symbol)
    BY <2>1, ConcatAppend, ConcatProperties
  <2>6. Parsed(Append(s \o u, c)) = ParseChar(Loop(m, k, u, FALSE), c)
    BY <2>4, <2>5, ParsedAppend
  <2>7. ParseChar(Loop(m, k, u, FALSE), c) = Loop(m, k, Append(u, c), FALSE)
    BY <2>3 DEF ParseChar, Loop
  <2> QED
    BY <2>5, <2>6, <2>7
<1>3. P \in SUBSET Seq(Symbol)
  OBVIOUS
<1> HIDE DEF P
<1>4. v \in P
  BY <1>1, <1>2, <1>3, AllSequences
<1> QED
  BY <1>4 DEF P

\* What a form reads as, whose fields have no separators in them.
Plain(title, body) ==
  TitleKey \o <<"=">> \o title \o <<"&">> \o BodyKey \o <<"=">> \o body

LEMMA PlainFormsAreRead ==
  ASSUME NEW title \in Seq(Symbol), NEW body \in Seq(Symbol), IsClean(title), IsClean(body)
  PROVE  /\ DOMAIN parseRequestBody(Plain(title, body)) = {TitleKey, BodyKey}
         /\ parseRequestBody(Plain(title, body))[TitleKey] = title
         /\ parseRequestBody(Plain(title, body))[BodyKey] = body
<1> DEFINE s1 == TitleKey \o <<"=">>
           s2 == s1 \o title
           s3 == s2 \o <<"&">>
           s4 == (s3 \o BodyKey) \o <<"=">>
           m == Put(Loop(<<>>, TitleKey, title, FALSE))
<1>0. /\ "=" \in Symbol /\ "&" \in Symbol
      /\ <<"=">> \in Seq(Symbol) /\ <<"&">> \in Seq(Symbol) /\ <<>> \in Seq(Symbol)
      /\ TitleKey \in Seq(Symbol) /\ BodyKey \in Seq(Symbol)
  <2>1. {"=", "&", "submissiontitle", "submissionbody"} \subseteq Symbol
    BY DEF Symbol
  <2> QED
    BY <2>1 DEF TitleKey, BodyKey
<1>1. s1 \in Seq(Symbol) /\ Parsed(s1) = Loop(<<>>, TitleKey, <<>>, FALSE)
  <2>1. Parsed(<<>>) = Loop(<<>>, <<>>, <<>>, TRUE)
    BY ParsedEmpty DEF Start, Loop
  <2>2. <<>> \o TitleKey = TitleKey /\ TitleKey \o <<"=">> \in Seq(Symbol)
    BY <1>0, ConcatEmptySeq, ConcatProperties
  <2>3. Parsed((<<>> \o TitleKey) \o <<"=">>) = Loop(<<>>, TitleKey, <<>>, FALSE)
    <3>1. "submissiontitle" \in Symbol /\ "submissiontitle" # "=" /\ "submissiontitle" # "&"
      BY DEF Symbol
    <3> QED
      BY <1>0, <2>1, <3>1, ParsedKey DEF TitleKey
  <2> QED
    BY <2>2, <2>3
<1>2. s2 \in Seq(Symbol) /\ Parsed(s2) = Loop(<<>>, TitleKey, title, FALSE)
  <2> HIDE DEF s1
  <2> QED
    BY <1>1, ParsedValue, ConcatProperties
<1>3. s3 \in Seq(Symbol) /\ Parsed(s3) = Loop(m, <<>>, <<>>, TRUE)
  <2> HIDE DEF s1, s2
  <2>1. s3 = Append(s2, "&") /\ s3 \in Seq(Symbol)
    BY <1>0, <1>2, AppendIsConcat, AppendProperties
  <2>2. Parsed(Append(s2, "&")) = ParseChar(Loop(<<>>, TitleKey, title, FALSE), "&")
    BY <1>0, <1>2, ParsedAppend
  <2>3. ParseChar(Loop(<<>>, TitleKey, title, FALSE), "&") = Loop(m, <<>>, <<>>, TRUE)
    BY DEF ParseChar, Loop
  <2> QED
    BY <2>1, <2>2, <2>3
<1>4. s4 \in Seq(Symbol) /\ Parsed(s4) = Loop(m, BodyKey, <<>>, FALSE)
  <2> HIDE DEF s1, s2, s3, m
  <2>1. Parsed(s4) = Loop(m, BodyKey, <<>>, FALSE)
    <3>1. "submissionbody" \in Symbol /\ "submissionbody" # "=" /\ "submissionbody" # "&"
      BY DEF Symbol
    <3> QED
      BY <1>3, <3>1, ParsedKey DEF BodyKey
  <2> QED
    BY <1>0, <1>3, <2>1, ConcatProperties
<1>5. Parsed(s4 \o body) = Loop(m, BodyKey, body, FALSE)
  <2> HIDE DEF s1, s2, s3, s4, m
  <2> QED
    BY <1>4, ParsedValue
<1>6. Plain(title, body) = s4 \o body
  BY DEF Plain
<1>7. parseRequestBody(Plain(title, body)) = Put(Loop(m, BodyKey, body, FALSE))
  BY <1>5, <1>6 DEF parseRequestBody, Parsed, Start
<1>8. DOMAIN m = {TitleKey} /\ m[TitleKey] = title
  <2>1. DOMAIN <<>> = {}
    OBVIOUS
  <2> QED
    BY <2>1 DEF Put, Loop
<1>9. TitleKey # BodyKey
  BY DEF TitleKey, BodyKey
<1> DEFINE pairs == Put(Loop(m, BodyKey, body, FALSE))
<1>10. /\ DOMAIN pairs = {TitleKey, BodyKey}
       /\ pairs[TitleKey] = title /\ pairs[BodyKey] = body
  <2> HIDE DEF m
  <2> QED
    BY <1>8, <1>9 DEF Put, Loop
<1> QED
  BY <1>7, <1>10

-----------------------------------------------------------------------------
(* What urldecode makes of an encoded form.                                *)

Decoded(c) == IF c \in DOMAIN Escapes THEN Escapes[c] ELSE c
Encoded(c) == IF \E e \in DOMAIN Escapes : Escapes[e] = c
              THEN CHOOSE e \in DOMAIN Escapes : Escapes[e] = c ELSE c

LEMMA DecodedType ==
  ASSUME NEW c \in Symbol
  PROVE  Decoded(c) \in Symbol
<1>1. \A e \in DOMAIN Escapes : Escapes[e] \in Symbol
  BY Zenon DEF Symbol
<1> QED
  BY <1>1, Zenon DEF Decoded

\* What is encoded decodes to itself,
LEMMA DecodesBack ==
  ASSUME NEW c \in Character
  PROVE  Encoded(c) \in Symbol /\ Decoded(Encoded(c)) = c
<1>1. DOMAIN Escapes = {"+", "%26", "%3D", "%2B"} /\ Escapes["%2B"] = "+"
  BY Zenon DEF Escapes
<1>2. CASE \E e \in DOMAIN Escapes : Escapes[e] = c
  <2>1. Encoded(c) \in DOMAIN Escapes /\ Escapes[Encoded(c)] = c
    BY <1>2, Zenon DEF Encoded
  <2>2. Encoded(c) \in Symbol
    BY <2>1, Zenon DEF Symbol
  <2> QED
    BY <2>1, <2>2, Zenon DEF Decoded
<1>3. CASE ~ \E e \in DOMAIN Escapes : Escapes[e] = c
  <2>1. Encoded(c) = c
    BY <1>3, Zenon DEF Encoded
  <2>2. c \notin DOMAIN Escapes
    BY <1>1, <1>3 DEF Character
  <2>3. c \in Symbol
    BY DEF Symbol, Character
  <2> QED
    BY <2>1, <2>2, <2>3, Zenon DEF Decoded
<1> QED
  BY <1>2, <1>3

\* and so do the keys and the separators.
LEMMA DecodedAlone ==
  ASSUME NEW c \in {"submissiontitle", "submissionbody", "=", "&"}
  PROVE  Decoded(c) = c
<1>1. DOMAIN Escapes = {"+", "%26", "%3D", "%2B"}
  BY Zenon DEF Escapes
<1> QED
  BY <1>1 DEF Decoded

LEMMA UrldecodeType ==
  ASSUME NEW s \in Seq(Symbol)
  PROVE  /\ urldecode(s) \in Seq(Symbol) /\ Len(urldecode(s)) = Len(s)
         /\ \A i \in 1..Len(s) : urldecode(s)[i] = Decoded(s[i])
<1>1. Len(s) \in Nat /\ DOMAIN s = 1..Len(s) /\ \A i \in 1..Len(s) : s[i] \in Symbol
  BY LenProperties, ElementOfSeq
<1>2. urldecode(s) = [i \in 1..Len(s) |-> Decoded(s[i])]
  BY <1>1, Zenon DEF urldecode, Decoded
<1>3. \A i \in 1..Len(s) : Decoded(s[i]) \in Symbol
  BY <1>1, DecodedType
<1> QED
  BY <1>1, <1>2, <1>3

\* urldecode goes part by part.
LEMMA UrldecodeConcat ==
  ASSUME NEW s \in Seq(Symbol), NEW t \in Seq(Symbol)
  PROVE  urldecode(s \o t) = urldecode(s) \o urldecode(t)
<1> DEFINE u == s \o t
           d == urldecode(s) \o urldecode(t)
<1>1. /\ u \in Seq(Symbol) /\ Len(s) \in Nat /\ Len(t) \in Nat /\ Len(u) = Len(s) + Len(t)
      /\ \A i \in 1..Len(s) + Len(t) : u[i] = IF i <= Len(s) THEN s[i] ELSE t[i - Len(s)]
  BY ConcatProperties, LenProperties
<1>2. /\ urldecode(u) \in Seq(Symbol) /\ Len(urldecode(u)) = Len(u)
      /\ \A i \in 1..Len(u) : urldecode(u)[i] = Decoded(u[i])
  <2> HIDE DEF u
  <2> QED
    BY <1>1, UrldecodeType
<1>3. /\ d \in Seq(Symbol) /\ Len(d) = Len(s) + Len(t)
      /\ \A i \in 1..Len(s) + Len(t) :
           d[i] = IF i <= Len(s) THEN Decoded(s[i]) ELSE Decoded(t[i - Len(s)])
  <2> DEFINE a == urldecode(s)
             b == urldecode(t)
  <2>1. /\ a \in Seq(Symbol) /\ Len(a) = Len(s) /\ \A i \in 1..Len(s) : a[i] = Decoded(s[i])
        /\ b \in Seq(Symbol) /\ Len(b) = Len(t) /\ \A i \in 1..Len(t) : b[i] = Decoded(t[i])
    BY UrldecodeType
  <2> HIDE DEF a, b, u, d
  <2>2. /\ a \o b \in Seq(Symbol) /\ Len(a \o b) = Len(s) + Len(t)
        /\ \A i \in 1..Len(s) + Len(t) :
             (a \o b)[i] = IF i <= Len(s) THEN a[i] ELSE b[i - Len(s)]
    <3>1. a \in Seq(Symbol) /\ b \in Seq(Symbol)
      BY <2>1
    <3>2. /\ a \o b \in Seq(Symbol) /\ Len(a \o b) = Len(a) + Len(b)
          /\ \A i \in 1..Len(a) + Len(b) :
               (a \o b)[i] = IF i <= Len(a) THEN a[i] ELSE b[i - Len(a)]
      BY <3>1, ConcatProperties
    <3> QED
      BY <2>1, <3>2
  <2>3. ASSUME NEW i \in 1..Len(s) + Len(t)
        PROVE  (a \o b)[i] = IF i <= Len(s) THEN Decoded(s[i]) ELSE Decoded(t[i - Len(s)])
    <3>1. CASE i <= Len(s)
      <4>1. i \in 1..Len(s)
        BY <1>1, <3>1
      <4> QED
        BY <2>1, <2>2, <3>1, <4>1
    <3>2. CASE ~(i <= Len(s))
      <4>1. i - Len(s) \in 1..Len(t)
        BY <1>1, <3>2
      <4> QED
        BY <2>1, <2>2, <3>2, <4>1
    <3> QED
      BY <3>1, <3>2
  <2> QED
    BY <2>2, <2>3 DEF a, b, d
<1>4. ASSUME NEW i \in 1..Len(s) + Len(t) PROVE urldecode(u)[i] = d[i]
  <2> HIDE DEF u, d
  <2> QED
    BY <1>1, <1>2, <1>3
<1>5. Len(urldecode(u)) = Len(d)
  BY <1>1, <1>2, <1>3
<1> HIDE DEF u, d
<1>6. urldecode(u) = d
  BY <1>1, <1>2, <1>3, <1>4, <1>5, SeqEqual
<1> QED
  BY <1>6 DEF u, d

LEMMA UrldecodeAlone ==
  ASSUME NEW c \in {"submissiontitle", "submissionbody", "=", "&"}
  PROVE  <<c>> \in Seq(Symbol) /\ urldecode(<<c>>) = <<c>>
<1>1. <<c>> \in Seq(Symbol) /\ Len(<<c>>) = 1 /\ <<c>>[1] = c
  <2>1. c \in Symbol
    BY DEF Symbol
  <2> QED
    BY <2>1
<1>2. /\ urldecode(<<c>>) \in Seq(Symbol) /\ Len(urldecode(<<c>>)) = 1
      /\ urldecode(<<c>>)[1] = c
  <2>1. 1 \in 1..1
    OBVIOUS
  <2> QED
    BY <1>1, <2>1, UrldecodeType, DecodedAlone
<1> QED
  BY <1>1, <1>2, SeqEqual

LEMMA UrldecodeEncode ==
  ASSUME NEW v \in Seq(Character)
  PROVE  Encode(v) \in Seq(Symbol) /\ urldecode(Encode(v)) = v
<1>1. /\ v \in Seq(Symbol) /\ Len(v) \in Nat /\ DOMAIN v = 1..Len(v)
      /\ \A i \in 1..Len(v) : v[i] \in Character
  <2>1. Character \subseteq Symbol
    BY DEF Character, Symbol
  <2>2. v \in Seq(Symbol)
    BY <2>1
  <2> QED
    BY <2>2, LenProperties, ElementOfSeq
<1>2. Encode(v) = [i \in 1..Len(v) |-> Encoded(v[i])]
  BY <1>1, Zenon DEF Encode, Encoded
<1>3. \A i \in 1..Len(v) : Encoded(v[i]) \in Symbol /\ Decoded(Encoded(v[i])) = v[i]
  BY <1>1, DecodesBack
<1>4. /\ Encode(v) \in Seq(Symbol) /\ Len(Encode(v)) = Len(v)
      /\ \A i \in 1..Len(v) : Encode(v)[i] = Encoded(v[i])
  BY <1>1, <1>2, <1>3
<1>5. /\ urldecode(Encode(v)) \in Seq(Symbol) /\ Len(urldecode(Encode(v))) = Len(v)
      /\ \A i \in 1..Len(v) : urldecode(Encode(v))[i] = v[i]
  BY <1>3, <1>4, UrldecodeType
<1> QED
  BY <1>1, <1>4, <1>5, SeqEqual

LEMMA SubmissionsDecode ==
  ASSUME NEW title \in Seq(Character), NEW body \in Seq(Character)
  PROVE  urldecode(Submission(title, body)) = Plain(title, body)
<1> DEFINE et == Encode(title)
           eb == Encode(body)
<1>1. /\ et \in Seq(Symbol) /\ urldecode(et) = title
      /\ eb \in Seq(Symbol) /\ urldecode(eb) = body
  BY UrldecodeEncode
<1>2. /\ TitleKey \in Seq(Symbol) /\ urldecode(TitleKey) = TitleKey
      /\ BodyKey \in Seq(Symbol) /\ urldecode(BodyKey) = BodyKey
      /\ <<"=">> \in Seq(Symbol) /\ urldecode(<<"=">>) = <<"=">>
      /\ <<"&">> \in Seq(Symbol) /\ urldecode(<<"&">>) = <<"&">>
  BY UrldecodeAlone DEF TitleKey, BodyKey
<1> DEFINE s1 == TitleKey \o <<"=">>
           s2 == s1 \o et
           s3 == s2 \o <<"&">>
           s4 == s3 \o BodyKey
           s5 == s4 \o <<"=">>
<1>3. s1 \in Seq(Symbol) /\ urldecode(s1) = TitleKey \o <<"=">>
  BY <1>2, ConcatProperties, UrldecodeConcat
<1>4. s2 \in Seq(Symbol) /\ urldecode(s2) = urldecode(s1) \o title
  <2> HIDE DEF s1, et
  <2> QED
    BY <1>1, <1>3, ConcatProperties, UrldecodeConcat
<1>5. s3 \in Seq(Symbol) /\ urldecode(s3) = urldecode(s2) \o <<"&">>
  <2> HIDE DEF s1, s2, et
  <2> QED
    BY <1>2, <1>4, ConcatProperties, UrldecodeConcat
<1>6. s4 \in Seq(Symbol) /\ urldecode(s4) = urldecode(s3) \o BodyKey
  <2> HIDE DEF s1, s2, s3, et
  <2> QED
    BY <1>2, <1>5, ConcatProperties, UrldecodeConcat
<1>7. s5 \in Seq(Symbol) /\ urldecode(s5) = urldecode(s4) \o <<"=">>
  <2> HIDE DEF s1, s2, s3, s4, et
  <2> QED
    BY <1>2, <1>6, ConcatProperties, UrldecodeConcat
<1>8. urldecode(s5 \o eb) = urldecode(s5) \o body
  <2> HIDE DEF s1, s2, s3, s4, s5, eb
  <2> QED
    BY <1>1, <1>7, UrldecodeConcat
<1>9. Submission(title, body) = s5 \o eb
  BY DEF Submission
<1> HIDE DEF s1, s2, s3, s4, s5, et, eb
<1> QED
  BY <1>3, <1>4, <1>5, <1>6, <1>7, <1>8, <1>9 DEF Plain

(* What a browser encodes and sends, urldecode and parseRequestBody split  *)
(* into the same two values, when neither has a separator in it.           *)
ReadsBack ==
  \A r \in Request : r.method = "POST" /\ IsClean(r.title) /\ IsClean(r.body)
    => Field(r, TitleKey) = r.title /\ Field(r, BodyKey) = r.body

THEOREM FormsReadBack == ReadsBack
<1> SUFFICES ASSUME NEW r \in Request, r.method = "POST", IsClean(r.title), IsClean(r.body)
             PROVE  Field(r, TitleKey) = r.title /\ Field(r, BodyKey) = r.body
  BY DEF ReadsBack
<1>1. r.title \in Seq(Character) /\ r.body \in Seq(Character)
  <2>1. r.title \in Value /\ r.body \in Value
    BY DEF Request
  <2> QED
    BY <2>1, HandlerAssumption
<1>2. r.title \in Seq(Symbol) /\ r.body \in Seq(Symbol)
  <2>1. Character \subseteq Symbol
    BY DEF Character, Symbol
  <2> HIDE DEF Character
  <2> QED
    BY <1>1, <2>1
<1>3. Form(r) = parseRequestBody(Plain(r.title, r.body))
  BY <1>1, SubmissionsDecode DEF Form, Content
<1>4. /\ DOMAIN Form(r) = {TitleKey, BodyKey}
      /\ Form(r)[TitleKey] = r.title /\ Form(r)[BodyKey] = r.body
  <2> DEFINE pairs == parseRequestBody(Plain(r.title, r.body))
  <2>1. /\ DOMAIN pairs = {TitleKey, BodyKey}
        /\ pairs[TitleKey] = r.title /\ pairs[BodyKey] = r.body
    BY <1>2, PlainFormsAreRead
  <2> HIDE DEF pairs
  <2>2. Form(r) = pairs
    BY <1>3 DEF pairs
  <2> QED
    BY <2>1, <2>2
<1> QED
  BY <1>4 DEF Field

(* A request that no other one overlapped is stored as it was submitted,   *)
(* when neither field has a separator in it.                               *)
THEOREM IsolatedPostsAreAsSubmitted == HandlerSpec => []IsolatedPostIsStored
<1>1. GrantInv /\ IsolatedPostIsRead => IsolatedPostIsStored
  <2> SUFFICES ASSUME GrantInv, IsolatedPostIsRead, NEW t \in Thread, Redirects(t), alone[t],
                      IsClean(req[t].title), IsClean(req[t].body)
               PROVE  posts[res[t].id] = <<req[t].title, req[t].body>>
    BY DEF IsolatedPostIsStored
  <2>1. req[t] \in Request /\ req[t].method = "POST"
    BY DEF Redirects, GrantInv, StagesAgree
  <2> QED
    BY <2>1, FormsReadBack DEF IsolatedPostIsRead, ReadsBack
<1> QED
  BY <1>1, HandlerInvariant, IsolatedPostsAreTheirOwn, PTL
=============================================================================
