-------------------------------- MODULE Urls --------------------------------
(***************************************************************************)
(* parse_url (url_parse.hpp), which takes a URL apart from the left; what  *)
(* is left is handed from one function to the next.  A URL is a sequence of*)
(* characters, a part that is not there is empty.                          *)
(***************************************************************************)
EXTENDS Naturals, Sequences

LOCAL INSTANCE SequencesExt
LOCAL INSTANCE FiniteSetsExt

CONSTANTS
  Users, Hosts, Ports, Paths, Queries, Fragments    \* parts to build URLs of

VARIABLES
  parts,     \* the parts the URL was built of
  url,       \* the URL, or the beginning of it
  cut        \* how many characters were cut off

urlVars == <<parts, url, cut>>

-----------------------------------------------------------------------------
(* string_view: positions count from 1, and are 0 when nothing is found.   *)

find_first_of(s, chars) ==
  LET at == {i \in DOMAIN s : s[i] \in chars} IN IF at = {} THEN 0 ELSE Min(at)
Before(s, i) == SubSeq(s, 1, i - 1)
From(s, i) == SubSeq(s, i, Len(s))

NoParse == [status |-> "ok", scheme |-> <<>>, user |-> <<>>, host |-> <<>>, port |-> <<>>,
            path |-> <<>>, query |-> <<>>, fragment |-> <<>>]
Failed(status) == [NoParse EXCEPT !.status = status]

Digits == {"1", "2"}
\* from_string<i64> takes the digits at the front; without any it fails, except
\* at the end of the string, where it returns a value it never set.
PortOf(s) ==
  LET end == find_first_of(s, {c \in ToSet(s) : c \notin Digits})
  IN  IF s = <<>> THEN <<"unset">> ELSE IF end = 0 THEN s ELSE Before(s, end)

-----------------------------------------------------------------------------
parse_url_query(s, parse) ==
  LET delim == find_first_of(s, {"#"})
  IN  IF delim = 0 THEN [parse EXCEPT !.query = s]
      ELSE [parse EXCEPT !.query = Before(s, delim), !.fragment = From(s, delim + 1)]

parse_url_path(s, parse) ==
  LET delim == find_first_of(s, {"?", "#"})
      pathed == [parse EXCEPT !.path = Before(s, delim)]
  IN  IF delim = 0 THEN [parse EXCEPT !.path = s]
      ELSE IF s[delim] = "?" THEN parse_url_query(From(s, delim + 1), pathed)
      ELSE [pathed EXCEPT !.fragment = From(s, delim + 1)]

parse_url_port(s, parse) ==
  LET slash == find_first_of(s, {"/"})
      port_str == IF slash = 0 THEN s ELSE Before(s, slash)
  IN  IF PortOf(port_str) = <<>> THEN Failed("invalid argument")
      ELSE parse_url_path(From(s, Len(port_str) + 1), [parse EXCEPT !.port = PortOf(port_str)])

\* What follows a host.
AfterHost(s, parse) ==
  IF s = <<>> THEN parse
  ELSE CASE s[1] = ":" -> parse_url_port(Tail(s), parse)
         [] s[1] = "/" -> parse_url_path(s, parse)
         [] OTHER -> Failed("panic")
parse_url_host(s, parse) ==
  IF s # <<>> /\ s[1] = "["
  THEN LET delim == find_first_of(s, {"]"})
       IN  IF delim = 0 THEN Failed("invalid argument")
           ELSE AfterHost(From(s, delim + 1), [parse EXCEPT !.host = SubSeq(s, 2, delim - 1)])
  ELSE LET delim == find_first_of(s, {":", "/"})
       IN  IF delim = 0 THEN [parse EXCEPT !.host = s]
           ELSE AfterHost(From(s, delim), [parse EXCEPT !.host = Before(s, delim)])

\* Mutant: no look at a bracket before the search for a delimiter.
Bracketed_Never(s) == FALSE
Bracketed(s) == s # <<>> /\ s[1] = "["
parse_url_auth(s, parse) ==
  LET delim == find_first_of(s, {"@", ":", "/"})
  IN  IF Bracketed(s) THEN parse_url_host(s, parse)
      ELSE IF delim = 0 THEN [parse EXCEPT !.host = s]
      ELSE CASE s[delim] = "@" -> parse_url_host(From(s, delim + 1), [parse EXCEPT !.user = Before(s, delim)])
             [] s[delim] = ":" -> parse_url_port(From(s, delim + 1), [parse EXCEPT !.host = Before(s, delim)])
             [] s[delim] = "/" -> parse_url_path(From(s, delim), [parse EXCEPT !.host = Before(s, delim)])

parse_url(s) ==
  LET delim == find_first_of(s, {":"})
      rest == From(s, delim + 1)
      schemed == [NoParse EXCEPT !.scheme = Before(s, delim)]
  IN  IF s = <<>> THEN NoParse
      ELSE IF s[1] = "/" THEN parse_url_path(s, NoParse)
      ELSE IF delim = 0 THEN [NoParse EXCEPT !.scheme = s]
      ELSE IF Len(rest) > 1 /\ rest[1] = "/" /\ rest[2] = "/" THEN parse_url_auth(From(rest, 3), schemed)
      ELSE parse_url_path(rest, schemed)

-----------------------------------------------------------------------------
Led(delim, s) == IF s = <<>> THEN <<>> ELSE <<delim>> \o s
Ended(s, delim) == IF s = <<>> THEN <<>> ELSE s \o <<delim>>
InUrl(host) == IF ":" \in ToSet(host) THEN <<"[">> \o host \o <<"]">> ELSE host
Authority(p) == p.scheme \o <<":", "/", "/">> \o Ended(p.user, "@") \o InUrl(p.host) \o Led(":", p.port)
Built(p) ==
  (IF p.host = <<>> THEN <<>> ELSE Authority(p)) \o p.path \o Led("?", p.query) \o Led("#", p.fragment)

\* With a host or without; a query or a fragment comes after a path.
UrlInit ==
  /\ parts \in {[NoParse EXCEPT !.scheme = IF h = <<>> THEN <<>> ELSE <<"s">>, !.user = u, !.host = h, !.port = n,
                                !.path = p, !.query = q, !.fragment = f] :
                 u \in Users, h \in Hosts, n \in Ports, p \in Paths, q \in Queries, f \in Fragments}
  /\ parts.path = <<>> => parts.query = <<>> /\ parts.fragment = <<>> /\ parts.host # <<>>
  /\ parts.host = <<>> => parts.user = <<>> /\ parts.port = <<>>
  /\ url = Built(parts) /\ cut = 0
Cut ==
  /\ url # <<>>
  /\ url' = Front(url) /\ cut' = cut + 1
  /\ UNCHANGED parts

-----------------------------------------------------------------------------
Delimiters == {":", "/", "@", "[", "]", "?", "#"}
Letters(s) == SelectSeq(s, LAMBDA c : c \notin Delimiters \cup {"unset"})
Flat(p) == p.scheme \o p.user \o p.host \o p.port \o p.path \o p.query \o p.fragment
\* A URL is taken apart into the parts it was built of; and of a URL that breaks
\* off anywhere, each letter is in one part, in order, or the URL is refused.
TakenApart ==
  /\ cut = 0 => parse_url(url) = parts
  /\ parse_url(url).status = "ok" => Letters(Flat(parse_url(url))) = Letters(url)
  /\ parse_url(url).status # "panic"
=============================================================================
