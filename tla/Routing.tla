------------------------------ MODULE Routing ------------------------------
(***************************************************************************)
(* The path of a request from its URI to a file or to the URI of another   *)
(* server: request_dispatcher finds the handler, and static_request_handler*)
(* or proxy_request_handler finds its own location in the URI once more.   *)
(* The proxy handler rewrites the links of the pages it returns, and the   *)
(* browser follows them.                                                   *)
(***************************************************************************)
EXTENDS Dispatcher

CONSTANTS ServerPath,   \* what a configuration may have after the name of the other server,
                        \* from its first slash
          Link          \* links of its pages

ASSUME RoutingAssumption ==
  /\ ServerPath \subseteq Seq(Char) /\ \A p \in ServerPath : p # <<>> => Head(p) = "/"
  /\ Link \subseteq Seq(Char)
  \* Paths only, and references inside of the page: no query, scheme or dot segment.
  /\ \A link \in Link : \A i \in DOMAIN link :
       link[i] \notin {"?", ":", "."} /\ (link[i] = "#" => i = 1 /\ Len(link) > 1)

VARIABLES
  server_location_path_,   \* of the proxy handlers
  target                   \* the path after server_root_path_, or the uri sent on; or empty

routingVars == <<vars, server_location_path_, target>>

\* proxy_request_handler::Init: less a slash at its end.
WithoutSlash(path) == IF path # <<>> /\ Last(path) = "/" THEN Front(path) ELSE path

RoutingInit ==
  /\ Init
  /\ server_location_path_ = <<>> /\ target = <<>>

\* The configuration is read and the handlers are made.
Prepare ==
  /\ Setup
  /\ LET makes_proxies == /\ stage = "mapping" /\ next <= Len(handler_types_)
                          /\ handler_types_[next] = "ProxyHandler"
     IN server_location_path_' \in IF makes_proxies THEN {WithoutSlash(p) : p \in ServerPath}
                                   ELSE {server_location_path_}
  /\ UNCHANGED target

\* The uri from its last slash that has the location before it, or else from
\* its first one.
Below(location, uri) ==
  LET slashes == {n \in DOMAIN uri : uri[n] = "/"}
      stops == {n \in slashes : SubSeq(uri, 1, n - 1) = location \/ n = Min(slashes)}
  IN SubSeq(uri, Max(stops), Len(uri))

\* Mutant: the uri is not decoded.
StaticPathRaw(location, uri) ==
  IF uri = location \/ ~Contains(uri, "/") THEN uri ELSE Below(location, uri)

\* static_request_handler::handle_request: the decoded uri is cut before its
\* last slash until the location is left.  At the location itself nothing is
\* cut off.
StaticPath(location, uri) ==
  LET u == Decoded(uri)
  IN IF u = location \/ ~Contains(u, "/") THEN u ELSE Below(location, u)

\* The characters of a uri: "%20" is three of them.
Characters(uri) ==
  FlattenSeq([i \in DOMAIN uri |-> IF uri[i] = "%20" THEN <<"%", "2", "0">> ELSE <<uri[i]>>])

\* Mutant: an empty uri is sent on.
ProxiedUriEmpty(location, uri) ==
  server_location_path_ \o SubSeq(Characters(uri), Len(location) + 1, Len(Characters(uri)))

\* proxy_request_handler::handle_request: as many characters as the location
\* has are cut off, but the uri is not decoded.
ProxiedUri(location, uri) ==
  LET u == server_location_path_ \o
             SubSeq(Characters(uri), Len(location) + 1, Len(Characters(uri)))
  IN IF u = <<>> THEN <<"/">> ELSE u

\* session: the handler is found and handles the request.
Handle(uri) ==
  /\ get_handler(uri)
  /\ target' = CASE answer'.type = "StaticHandler" -> StaticPath(answer'.location, uri)
                 [] answer'.type = "ProxyHandler"  -> ProxiedUri(answer'.location, uri)
                 [] OTHER                          -> <<>>
  /\ UNCHANGED server_location_path_

Slashed(link) == IF link = <<>> \/ Head(link) # "/" THEN <<"/">> \o link ELSE link

\* Mutant: the client's part of the path is forgotten.
handle_propertyBare(location, link) == Slashed(link)

\* proxy_request_handler::handle_property, for a link that it rewrites.
handle_property(location, link) == location \o Slashed(link)

\* A reference inside of the page, or to another server; or taken for one.
\* "http" stands for four characters.
Untouched(link) == Len(link) > 1 /\
  (link[1] \in {"#", "http"} \/ (Len(link) > 2 /\ link[1] = "/" /\ link[2] = "/"))

\* The browser encodes spaces.
Encoded(path) == [i \in DOMAIN path |-> IF path[i] = " " THEN "%20" ELSE path[i]]

\* A link of the last page is followed.  The browser takes what begins with two
\* slashes for the name of a server.
FollowLink(link) ==
  /\ answer.type = "ProxyHandler" /\ request # <<>> /\ ~Untouched(link)
  /\ LET path == handle_property(answer.location, link) IN
       /\ Len(path) > 1 => path[2] # "/"
       /\ Handle(Encoded(path))

RoutingNext ==
  \/ Prepare
  \/ get_status_handler /\ UNCHANGED <<server_location_path_, target>>
  \/ \E uri \in URI : Handle(uri)
  \/ \E link \in Link : FollowLink(link)

RoutingSpec == RoutingInit /\ [][RoutingNext]_routingVars

-----------------------------------------------------------------------------
(* Properties.                                                             *)

Handled(type) == stage = "ready" /\ request # <<>> /\ answer.type = type

(* The static handler cuts off the location that the dispatcher found, no  *)
(* more and no less, and opens a file below its root, if the URI is below  *)
(* the location: the two loops over the URI agree.  (For the location      *)
(* itself the handler keeps all of the URI.)                               *)
FileIsBelowLocation ==
  Handled("StaticHandler") /\ Unambiguous /\ Decoded(request) # answer.location =>
    answer.location \o target = Decoded(request) /\ Head(target) = "/"

(* What the proxy handler sends on is an absolute path, which is what      *)
(* follows the location in the URI, below the server's own path, if that   *)
(* is whole segments.  A location with a space is not cut off right, as it *)
(* is longer in the URI; and of a URI that goes on in the middle of a      *)
(* segment, as every one does at the location "/", the slash is missing.   *)
ProxiedUriIsPath ==
  LET rest == SubSeq(request, Len(answer.location) + 1, Len(request)) IN
  Handled("ProxyHandler") /\ ~Contains(answer.location, " ")
    /\ (rest = <<>> \/ Head(rest) = "/") =>
      /\ target # <<>> /\ Head(target) = "/"
      /\ rest # <<>> => target = server_location_path_ \o Characters(rest)

\* Of the page that was got from the uri target.
Directory == SubSeq(target, 1, Max({0} \cup {n \in DOMAIN target : target[n] = "/"}))

\* The uri that a link of the page names on the other server: the page itself,
\* a path from the root, or one from the directory of the page.
Named(link) ==
  LET path == Characters(Encoded(link)) IN
  IF link = <<>> THEN target
  ELSE IF Head(link) = "/" THEN path
  ELSE Directory \o path

\* handle_property takes the top of the server's own path for the root, for the
\* directory of every page, and for the page that an empty link names.
NamedFromTop(link) ==
  LET top == server_location_path_ \o <<"/">> IN
  IF link = <<>> THEN target = top
  ELSE IF Head(link) = "/" THEN server_location_path_ = <<>>
  ELSE Directory = top /\ ~Contains(target, "?")

(* A rewritten link of a page leads back to the proxy that returned the    *)
(* page, and from there to the path that the link names on the server of   *)
(* the page, on three conditions: the location has no space, no other      *)
(* location serves the link as well, and the link is an absolute one and   *)
(* the other server has no path of its own, or a relative one on a page    *)
(* right below that path, or an empty one on the page there.  Any other    *)
(* link is rewritten to a path that the page did not mean.                 *)
LinksLeadBack ==
  [][\A link \in Link :
       /\ FollowLink(link) /\ NamedFromTop(link) /\ ~Contains(answer.location, " ")
       /\ \A k \in Type, l \in Location :
            Serves(k, l, Decoded(request')) => k = "ProxyHandler" /\ l = answer.location
       => answer' = answer /\ target' = Named(link)]_routingVars
=============================================================================
