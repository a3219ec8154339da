---------------------------- MODULE BlogHandler ----------------------------
(***************************************************************************)
(* blog_upload_request_handler (blog_upload_request_handler.cc): one       *)
(* object serves every request under its location, on any thread of the    *)
(* pool, in front of the atomic store of BlogStore.  It parses the body of *)
(* a request into its own member form_to_value_ and reads the fields back  *)
(* from there.                                                             *)
(***************************************************************************)
EXTENDS BlogStore, BlogForm

CONSTANTS Value,        \* the titles and bodies that are submitted
          MaxRequests   \* bound: requests per thread

VARIABLES
  up,        \* FALSE after the process died
  form,      \* form_to_value_: field name -> value
  at,        \* thread -> where in handle_request it is
  req,       \* thread -> the request
  arg,       \* thread -> the arguments of handle_post_blog, copied so far
  alone,     \* ghost: thread -> no other request was handled during this one
  granted,   \* ghost: the ids that redirects have been sent for
  handled    \* thread -> how many requests it has handled

handlerVars == <<up, form, at, req, arg, alone, granted, handled>>
allVars == <<vars, handlerVars>>

\* What the client asks for: every method but GET is a post.  A GET names all
\* posts, one post, something that is no number, or a number stoi cannot hold.
Request ==
  [method : {"GET"}, target : {"one"}, id : Id, title : {<<>>}, body : {<<>>}]
    \cup [method : {"GET"}, target : {"all", "unparsable", "huge"}, id : {0},
          title : {<<>>}, body : {<<>>}]
    \cup [method : {"POST"}, target : {"all"}, id : {0}, title : Value, body : Value]
NoRequest == [method |-> "none", target |-> "all", id |-> 0, title |-> <<>>, body |-> <<>>]

\* request.body_
Content(r) == IF r.method = "POST" THEN Submission(r.title, r.body) ELSE <<>>

\* What the body is read as: a form, and the value of a key in it.
Form(r) == parseRequestBody(urldecode(Content(r)))
Field(r, key) == IF key \in DOMAIN Form(r) THEN Form(r)[key] ELSE <<>>

\* The characters of what is submitted.  A percent escape is a symbol of its own
\* in a body only; in a value it would be three characters.
Character == STRING \ {"%26", "%3D", "%2B"}

\* Every value that a title or a body can be read as, and so every post made
\* of two of them, is one the store can hold.
Fields == {<<>>} \cup {Field(r, key) : r \in Request, key \in {TitleKey, BodyKey}}
ASSUME HandlerAssumption ==
  /\ Value \subseteq Seq(Character) /\ Fields \X Fields \subseteq Post
  /\ MaxRequests \in Nat

NoArg == [k \in {} |-> <<>>]

HandlerInit ==
  /\ Init
  /\ up = TRUE /\ form = <<>>
  /\ at = [t \in Thread |-> "idle"]
  /\ req = [t \in Thread |-> NoRequest]
  /\ arg = [t \in Thread |-> NoArg]
  /\ alone = [t \in Thread |-> TRUE]
  /\ granted = {}
  /\ handled = [t \in Thread |-> 0]

At(t, from, to) == up /\ at[t] = from /\ at' = [at EXCEPT ![t] = to]

Busy(t) == at[t] # "idle"

Receive(t) ==
  /\ At(t, "idle", "assign") /\ handled[t] < MaxRequests
  /\ \E r \in Request : req' = [req EXCEPT ![t] = r]
  /\ handled' = [handled EXCEPT ![t] = @ + 1]
  /\ alone' = [u \in Thread |-> IF u = t THEN \A v \in Thread \ {t} : ~Busy(v)
                                ELSE alone[u] /\ ~Busy(u)]
  /\ UNCHANGED <<vars, up, form, arg, granted>>

AssignForm(t) ==
  /\ At(t, "assign", IF req[t].method = "GET" THEN "get" ELSE "fields")
  /\ form' = Form(req[t])
  /\ UNCHANGED <<vars, up, req, arg, alone, granted, handled>>

\* f with f[k] = v.
With(f, k, v) == [j \in DOMAIN f \cup {k} |-> IF j = k THEN v ELSE f[j]]

\* form_to_value_[key], in either order of the two arguments: operator[] adds
\* an absent key with an empty value.
ReadField(t, key) ==
  /\ At(t, "fields", "fields") /\ key \notin DOMAIN arg[t]
  /\ form' = IF key \in DOMAIN form THEN form ELSE With(form, key, <<>>)
  /\ arg' = [arg EXCEPT ![t] = With(@, key, form'[key])]
  /\ UNCHANGED <<vars, up, req, alone, granted, handled>>

\* t may use the map now; it may write to it now.
Uses(t) ==
  \/ at[t] = "assign"
  \/ at[t] = "fields" /\ {TitleKey, BodyKey} # DOMAIN arg[t]
Writes(t) ==
  \/ at[t] = "assign"
  \/ at[t] = "fields" /\ ~({TitleKey, BodyKey} \subseteq DOMAIN arg[t] \cup DOMAIN form)

\* One thread writes to the map while another one is in it.
FormRace(t, u) ==
  /\ up /\ t # u /\ Writes(t) /\ Uses(u)
  /\ up' = FALSE
  /\ UNCHANGED <<vars, form, at, req, arg, alone, granted, handled>>

\* The call of the store that t makes from here on waits for its result.
Calls(t, c) ==
  /\ stage[t] = "idle"
  /\ stage' = [stage EXCEPT ![t] = "called"]
  /\ call' = [call EXCEPT ![t] = c]
  /\ UNCHANGED <<posts, res, up, form, req, arg, alone, granted, handled>>

\* handle_post_blog
CallInsert(t) ==
  /\ At(t, "fields", "wait") /\ ~Uses(t)
  /\ Calls(t, [op |-> "insert_blog", post |-> <<arg[t][TitleKey], arg[t][BodyKey]>>, id |-> 0])

CallGetAll(t) ==
  /\ At(t, "get", "wait") /\ req[t].target = "all"
  /\ Calls(t, [op |-> "get_all_blogs", post |-> NoPost, id |-> 0])

\* handle_get_one_blog: an id that is no number is looked up as -1.
CallGetOne(t) ==
  /\ At(t, "get", "wait") /\ req[t].target \in {"one", "unparsable"}
  /\ Calls(t, [op |-> "get_blog", post |-> NoPost,
               id |-> IF req[t].target = "one" THEN req[t].id ELSE -1])

\* stoi throws out_of_range, which nothing catches.
StoiThrows(t) ==
  /\ up /\ at[t] = "get" /\ req[t].target = "huge"
  /\ up' = FALSE
  /\ UNCHANGED <<vars, form, at, req, arg, alone, granted, handled>>

\* The store carries out the call of t.
StoreStep(t) ==
  /\ up /\ (Insert(t) \/ Get(t) \/ GetAll(t) \/ Fail(t))
  /\ UNCHANGED handlerVars

\* The response: a redirect to the id, -1 included, or a page with the rows.
Respond(t) ==
  /\ At(t, "wait", "idle") /\ Return(t)
  /\ granted' = granted \cup ({res[t].id} \cap
                              IF call[t].op = "insert_blog" THEN Id ELSE {})
  /\ req' = [req EXCEPT ![t] = NoRequest]
  /\ arg' = [arg EXCEPT ![t] = NoArg]
  /\ alone' = [alone EXCEPT ![t] = TRUE]
  /\ UNCHANGED <<up, form, handled>>

HandlerNext ==
  \/ \E t \in Thread :
       \/ Receive(t) \/ AssignForm(t)
       \/ ReadField(t, TitleKey) \/ ReadField(t, BodyKey)
       \/ CallInsert(t) \/ CallGetAll(t) \/ CallGetOne(t) \/ StoiThrows(t)
       \/ StoreStep(t) \/ Respond(t)
  \/ \E t, u \in Thread : FormRace(t, u)

HandlerSpec == HandlerInit /\ [][HandlerNext]_allVars

-----------------------------------------------------------------------------
(* Properties.                                                             *)

\* t is about to send the redirect to a post it was given an id for.
Redirects(t) == at[t] = "wait" /\ stage[t] = "done"
                  /\ call[t].op = "insert_blog" /\ res[t].id # -1

(* The redirect after a post leads to a post, and to one that no other     *)
(* redirect has been sent for: no two posts are taken for one.             *)
RedirectsToNewPost ==
  \A t \in Thread : Redirects(t) =>
    /\ res[t].id \in Id \ granted /\ posts[res[t].id] # NoPost
    /\ \A u \in Thread \ {t} : Redirects(u) => res[u].id # res[t].id

Separators == {"&", "="}
IsClean(value) == \A i \in DOMAIN value : value[i] \notin Separators

(* When no other request of the handler overlapped it, a post is stored    *)
(* with the title and the body that its own request submitted, whatever    *)
(* the requests before it left in form_to_value_.  The decoding comes      *)
(* before the splitting, so the fields must not contain '&' or '='.        *)
IsolatedPostIsStored ==
  \A t \in Thread :
    Redirects(t) /\ alone[t] /\ IsClean(req[t].title) /\ IsClean(req[t].body)
      => posts[res[t].id] = <<req[t].title, req[t].body>>

(* A post is stored with the title and the body its request submitted      *)
(* ("Parse the request body so that we can store in the database           *)
(* properly", blog_upload_request_handler.cc).                             *)
PostIsStoredAsSubmitted ==
  \A t \in Thread : Redirects(t) => posts[res[t].id] = <<req[t].title, req[t].body>>
=============================================================================
