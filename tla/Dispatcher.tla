----------------------------- MODULE Dispatcher -----------------------------
(***************************************************************************)
(* request_dispatcher (request_dispatcher.cc): one handler object is made  *)
(* for every location of the configuration, and every request is given to  *)
(* the handler its URI selects.  The map from locations to handlers is     *)
(* shared by all threads of the pool without a lock, and is only read      *)
(* with operator[], which adds a null pointer under an absent key.         *)
(* A string is a sequence of characters; "status" stands for six of them.  *)
(***************************************************************************)
EXTENDS Integers, Sequences, SequencesExt

CONSTANTS Char,          \* the characters of strings
          Location,      \* the locations a configuration may name
          URI,           \* the URIs that are requested
          MaxLocations   \* bound: location blocks of the configuration

ASSUME DispatcherAssumption ==
  /\ {"/", " ", "%20"} \subseteq Char
  /\ Location \subseteq Seq(Char) \ {<<>>} /\ URI \subseteq Seq(Char)
  /\ MaxLocations \in Nat

VARIABLES
  handler_types_,          \* config: the handler types, by first occurrence
  locations,               \* config: handler type -> its locations
  dispatcher,              \* location -> handler
  status_handler_enabled,
  stage,                   \* config, mapping, ready
  next,                    \* the next location block, then the next type
  request,                 \* the last URI that was dispatched; empty after get_status_handler
  answer                   \* the handler that was returned

vars == <<handler_types_, locations, dispatcher, status_handler_enabled, stage, next,
          request, answer>>

ExactType == {"StatusHandler", "RedirectHandler", "HealthHandler", "UploadFormHandler"}
Type == ExactType \cup {"EchoHandler", "StaticHandler", "ProxyHandler", "BlogHandler"}

\* Handlers: the object of a type for a location, error_handler_, nullptr.
Handler(type, location) == [type |-> type, location |-> location]
ErrorHandler == Handler("Error404", <<>>)
Null == Handler("null", <<>>)

StatusPath == <<"/", "status">>

Init ==
  /\ handler_types_ = <<>> /\ locations = [k \in Type |-> {}]
  /\ dispatcher = <<>> /\ status_handler_enabled = FALSE
  /\ stage = "config" /\ next = 1
  /\ request = <<>> /\ answer = ErrorHandler

\* A location block of the configuration file has been parsed.
AddLocation ==
  /\ stage = "config"
  /\ \E k \in Type, l \in Location :
       /\ l \notin locations[k]
       /\ locations' = [locations EXCEPT ![k] = @ \cup {l}]
       /\ handler_types_' = IF locations[k] = {} THEN Append(handler_types_, k)
                            ELSE handler_types_
  /\ next <= MaxLocations /\ next' = next + 1
  /\ UNCHANGED <<dispatcher, status_handler_enabled, stage, request, answer>>

\* The constructor is called.
Construct ==
  /\ stage = "config" /\ stage' = "mapping" /\ next' = 1
  /\ UNCHANGED <<handler_types_, locations, dispatcher, status_handler_enabled, request, answer>>

\* Mutant: BlogHandler has no branch in create_handler_mapping.
create_handler_mappingNoBlog ==
  /\ stage = "mapping" /\ next <= Len(handler_types_)
  /\ LET type == handler_types_[next]
         here == IF type = "BlogHandler" THEN {} ELSE locations[type]
     IN /\ dispatcher' = [l \in DOMAIN dispatcher \cup here |->
                            IF l \in here THEN Handler(type, l) ELSE dispatcher[l]]
        /\ status_handler_enabled' =
             (status_handler_enabled \/ (type = "StatusHandler" /\ here # {}))
  /\ next' = next + 1
  /\ UNCHANGED <<handler_types_, locations, stage, request, answer>>

\* One round of the loop of create_handler_mapping: the handlers of one type.
create_handler_mapping ==
  /\ stage = "mapping" /\ next <= Len(handler_types_)
  /\ LET type == handler_types_[next]
         here == locations[type]
     IN /\ dispatcher' = [l \in DOMAIN dispatcher \cup here |->
                            IF l \in here THEN Handler(type, l) ELSE dispatcher[l]]
        /\ status_handler_enabled' =
             (status_handler_enabled \/ (type = "StatusHandler" /\ here # {}))
  /\ next' = next + 1
  /\ UNCHANGED <<handler_types_, locations, stage, request, answer>>

Ready ==
  /\ stage = "mapping" /\ next > Len(handler_types_)
  /\ stage' = "ready"
  /\ UNCHANGED <<handler_types_, locations, dispatcher, status_handler_enabled, next,
                 request, answer>>

\* "%20" is a space.
Decoded(uri) == [i \in DOMAIN uri |-> IF uri[i] = "%20" THEN " " ELSE uri[i]]

\* The lengths of uri at which the beginnings end that the loop of
\* longest_prefix_match comes to and that are static locations: the loop cuts
\* before the last slash, again and again.
StaticCuts(uri) ==
  {n \in 0..Len(uri) : /\ SubSeq(uri, 1, n) \in locations["StaticHandler"]
                       /\ n < Len(uri) => uri[n + 1] = "/"}

\* Mutant: cuts at the first slash from the left that leaves a location.
longest_prefix_matchShortest(uri) ==
  IF StaticCuts(uri) = {} THEN <<>> ELSE SubSeq(uri, 1, Min(StaticCuts(uri)))

\* The first of them that the loop comes to, from the right.
longest_prefix_match(uri) ==
  IF StaticCuts(uri) = {} THEN <<>> ELSE SubSeq(uri, 1, Max(StaticCuts(uri)))

\* Mutant: the location has to be the whole uri.
PrefixLocationsWhole(type, uri) == {l \in locations[type] : l = uri}

\* The locations of a type that the uri starts with.  Which of them the loop
\* over the unordered map meets first is not specified.
PrefixLocations(type, uri) == {l \in locations[type] : IsPrefix(l, uri)}

\* The keys that get_handler may look up; none for the error handler.
Keys(uri) ==
  IF uri \in locations["EchoHandler"] THEN {uri}
  ELSE IF longest_prefix_match(uri) # <<>> THEN {longest_prefix_match(uri)}
  ELSE IF \E k \in ExactType : uri \in locations[k] THEN {uri}
  ELSE IF PrefixLocations("ProxyHandler", uri) # {} THEN PrefixLocations("ProxyHandler", uri)
  ELSE PrefixLocations("BlogHandler", uri)

\* dispatcher[key]
Find(key) == IF key \in DOMAIN dispatcher THEN dispatcher[key] ELSE Null
Access(key) ==
  dispatcher' = [l \in DOMAIN dispatcher \cup {key} |-> Find(l)]

get_handler(uri) ==
  /\ stage = "ready"
  /\ request' = uri
  /\ LET keys == Keys(Decoded(uri)) IN
       \/ keys = {} /\ answer' = ErrorHandler /\ UNCHANGED dispatcher
       \/ \E key \in keys : answer' = Find(key) /\ Access(key)
  /\ UNCHANGED <<handler_types_, locations, status_handler_enabled, stage, next>>

\* session calls it for every good request when the status handler is enabled;
\* the cast of another type of handler is null.
get_status_handler ==
  /\ stage = "ready" /\ status_handler_enabled
  /\ request' = <<>>
  /\ answer' = IF Find(StatusPath).type = "StatusHandler" THEN Find(StatusPath) ELSE Null
  /\ Access(StatusPath)
  /\ UNCHANGED <<handler_types_, locations, status_handler_enabled, stage, next>>

\* What happens before the server runs.
Setup == AddLocation \/ Construct \/ create_handler_mapping \/ Ready

-----------------------------------------------------------------------------
(* Properties.                                                             *)

\* Does the handler of this type at l serve the uri?
Serves(type, l, uri) ==
  /\ type \in Type /\ l \in locations[type]
  /\ \/ l = uri
     \/ type = "StaticHandler" /\ IsPrefix(l \o <<"/">>, uri)
     \/ type \in {"ProxyHandler", "BlogHandler"} /\ IsPrefix(l, uri)

Unambiguous == \A k, m \in Type : k # m => locations[k] \cap locations[m] = {}

(* Once the server runs, lookups only read the map that all threads share: *)
(* no key is absent when operator[] is used on it, for every URI.  The     *)
(* status handler is looked up under "/status", whatever its location is,  *)
(* so that it has to be configured there.                                  *)
LookupsDoNotWrite ==
  [][stage = "ready" /\ (status_handler_enabled => StatusPath \in locations["StatusHandler"])
       => dispatcher' = dispatcher]_vars

(* A request is given to a handler whose location serves its URI, and to   *)
(* the 404 handler only if there is none, when no location is used twice.  *)
AnswerServes ==
  stage = "ready" /\ request # <<>> /\ Unambiguous =>
    LET uri == Decoded(request) IN
      IF answer = ErrorHandler THEN ~\E k \in Type, l \in Location : Serves(k, l, uri)
      ELSE Serves(answer.type, answer.location, uri)

(* Of nested static locations the most specific one serves a URI, and a    *)
(* location serves whole path segments only.                               *)
MostSpecificStatic ==
  stage = "ready" /\ request # <<>> /\ answer.type = "StaticHandler" =>
    \A l \in locations["StaticHandler"] :
      Serves("StaticHandler", l, Decoded(request)) => Len(l) <= Len(answer.location)
=============================================================================
