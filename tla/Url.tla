---------------------------------- MODULE Url ----------------------------------
(***************************************************************************)
(* URL and URLSearchParams of 00_url.js over the ops of url.rs.            *)
(*                                                                         *)
(* A URL object keeps its serialization and eight offsets into it; its     *)
(* searchParams, made on demand, keeps a list of pairs.  Offsets travel    *)
(* through one buffer that all URL objects share (componentsBuf), a        *)
(* changed serialization through one slot of the runtime's state           *)
(* (UrlSerialization).                                                     *)
(*                                                                         *)
(* A serialization is a record of components; as a text it is a sequence   *)
(* of tokens, one for each delimiter and each nonempty component.  An      *)
(* optional component is <<>> or <<c>>.  A query is a sequence of segments *)
(* that are spelled as the serializer of searchParams spells them          *)
(* ("form"), otherwise ("raw"), or hold no pair at all ("blank").          *)
(***************************************************************************)
EXTENDS Naturals, Sequences, FiniteSets, SequencesExt, SeqFunctions, TLC

CONSTANTS
    Objects,        \* names for URL objects that user code holds
    Texts,          \* what is passed to be parsed: see UrlAssumption
    Queries,        \* what is assigned to url.search, as an optional query
    Names, Values,  \* of search parameters; names are ordered
    Inits,          \* what is passed to new URLSearchParams: see InitList
    Hosts, Paths,   \* what setters assign
    Tokens,         \* what a component of a URL may be
    Subclass,       \* the constructor of a subclass may be given to URL.parse
    MaxPairs, MaxDepth  \* bounds: pairs in a list, calls of URL.parse in progress

Segment == [name : Names, value : Values, spelling : {"form", "raw", "blank"}]

Pair == [name : Names, value : Values]

IsQuery(q) == q \in Seq(Seq(Segment)) /\ Len(q) <= 1

Delimiters == {":", "/", "@", "?", "#"}
PortNumber == [port \in {"0", "8080"} |-> IF port = "0" THEN 0 ELSE 8080]

Network(url) == url.scheme \in {"http", "ws"}

\* What a parser or a setter of the crate may leave: only a host has a port or a
\* user, and a network scheme has a host.
IsUrl(url) ==
    /\ url \in [scheme : Tokens, authority : BOOLEAN,
               username : Seq(Tokens), password : Seq(Tokens),
               host : Seq(Tokens), port : {<<>>} \cup {<<n>> : n \in DOMAIN PortNumber},
               path : Seq(Tokens),
               query : Seq(Seq(Segment)), fragment : Seq(Seq(Tokens))]
    /\ IsQuery(url.query) /\ Len(url.fragment) <= 1
    /\ url.host = <<>> => url.username = <<>> /\ url.password = <<>> /\ url.port = <<>>
    /\ ~url.authority => url.host = <<>>
    /\ Network(url) => url.host # <<>>

ASSUME UrlAssumption ==
    /\ Names \subseteq Nat /\ Subclass \in BOOLEAN
    /\ MaxPairs \in Nat /\ MaxDepth \in Nat
    /\ \A t \in Texts : t.status \in {"same", "changed", "invalid"} /\ IsUrl(t.url)
    /\ \A q \in Queries : IsQuery(q)
    /\ Hosts \cup Paths \cup {"http", "ws", "none", "user", "secret", "text"}
          \cup DOMAIN PortNumber \subseteq Tokens
    /\ Tokens \cap Delimiters = {}
    /\ \A i \in Inits :
          \/ i.kind = "string" /\ IsQuery(i.query)
          \/ /\ i.kind = "sequence" /\ DOMAIN i.pairs = 1 .. Len(i.pairs)
             /\ Len(i.pairs) \in Nat
             /\ \A n \in DOMAIN i.pairs : Len(i.pairs[n]) = 2 =>
                   i.pairs[n][1] \in Names /\ i.pairs[n][2] \in Values
          \/ /\ i.kind = "record" /\ i.keys \in Seq(Names)
             /\ \A n \in DOMAIN i.keys : i.values[i.keys[n]] \in Values

VARIABLES
    urls,       \* the URL objects that exist
    object,     \* their fields
    buf,        \* componentsBuf
    slot,       \* UrlSerialization: <<>> if not set
    stack,      \* calls of URL.parse whose constructor has not returned
    panicked    \* op_url_get_serialization took from an empty slot

urlVars == <<urls, object, buf, slot, stack, panicked>>

-----------------------------------------------------------------------------
(* Texts and offsets, as the crate url defines them.                        *)

Wrap(delimiter, component) ==
    IF component = <<>> THEN <<>> ELSE <<delimiter>> \o component

UserInfo(url) ==
    LET info == url.username \o Wrap(":", url.password) IN
    info \o (IF info = <<>> THEN <<>> ELSE <<"@">>)

\* A query or fragment that is there, but empty, is only its delimiter.
TextOf(delimiter, option) ==
    IF option = <<>> THEN <<>>
    ELSE <<delimiter>> \o (IF option[1] = <<>> THEN <<>> ELSE <<"text">>)

BeforeQuery(url) ==
    <<url.scheme, ":">>
    \o (IF url.authority
        THEN <<"/", "/">> \o UserInfo(url) \o url.host \o Wrap(":", url.port)
        ELSE <<>>)
    \o url.path
Text(url) == BeforeQuery(url) \o TextOf("?", url.query) \o TextOf("#", url.fragment)

\* internal_components; noPort stands for a port that is absent.
Offsets(url, noPort) ==
    LET start == IF url.authority THEN 4 ELSE 2
        hostStart == start + Len(UserInfo(url))
        pathStart == Len(BeforeQuery(url)) - Len(url.path)
        afterQuery == Len(BeforeQuery(url)) + Len(TextOf("?", url.query))
    IN  [schemeEnd |-> 1,
         usernameEnd |-> start + Len(url.username),
         hostStart |-> hostStart,
         hostEnd |-> hostStart + Len(url.host),
         port |-> IF url.port = <<>> THEN noPort ELSE PortNumber[url.port[1]],
         pathStart |-> pathStart,
         queryStart |-> IF url.query = <<>> THEN 0 ELSE Len(BeforeQuery(url)),
         fragmentStart |-> IF url.fragment = <<>> THEN 0 ELSE afterQuery]

-----------------------------------------------------------------------------
(* The ops: what they return and leave in the buffer and in the slot.       *)

NO_PORT == 65536

Op(status, url, noPort) ==
    [status |-> status,
     buf |-> IF status = "invalid" THEN buf ELSE Offsets(url, noPort),
     slot |-> IF status = "changed" THEN <<url>> ELSE slot]

opUrlParse(t) == Op(t.status, t.url, 0)

\* A setter of the crate has made `url' of the serialization `href'.
opUrlReparse(href, url) == Op(IF url = href THEN "same" ELSE "changed", url, NO_PORT)

\* getSerialization: the text that was passed, or what the slot holds.
Serialization(status, href, held) == IF status = "same" THEN href ELSE held[1]
Taken(status, held) == IF status = "changed" THEN <<>> ELSE held

\* The list of a query and the query of a list.
Pairs(query) ==
    IF query = <<>> THEN <<>>
    ELSE LET pairs == Select(query[1], {s \in Segment : s.spelling # "blank"})
         IN  [i \in DOMAIN pairs |-> [name |-> pairs[i].name, value |-> pairs[i].value]]
\* Setting the search to "" removes the query.
Stringify(list) ==
    IF list = <<>> THEN <<>>
    ELSE <<[i \in DOMAIN list |->
              [name |-> list[i].name, value |-> list[i].value, spelling |-> "form"]]>>

-----------------------------------------------------------------------------
(* The getters: slices of the text.                                         *)

Slice(s, from, to) ==
    SubSeq(s, from + 1, IF to < Len(s) THEN to ELSE Len(s))
Trim(s) == IF Len(s) = 1 THEN <<>> ELSE s
Or(a, b) == IF a = 0 THEN b ELSE a

HasAuthority(s, o) ==
    Slice(s, o.schemeEnd, o.schemeEnd + 3) = <<":", "/", "/">>

Protocol(s, o) == Slice(s, 0, o.schemeEnd + 1)
Username(s, o) ==
    IF HasAuthority(s, o) /\ o.usernameEnd > o.schemeEnd + 3
    THEN Slice(s, o.schemeEnd + 3, o.usernameEnd) ELSE <<>>
Password(s, o) ==
    IF HasAuthority(s, o) /\ o.usernameEnd # Len(s) /\ s[o.usernameEnd + 1] = ":"
    THEN Slice(s, o.usernameEnd + 1, o.hostStart - 1) ELSE <<>>
Host(s, o) == Slice(s, o.hostStart, o.pathStart)
Hostname(s, o) == Slice(s, o.hostStart, o.hostEnd)
Port(s, o) ==
    Slice(s, IF o.port = NO_PORT THEN o.hostEnd ELSE o.hostEnd + 1, o.pathStart)
AfterPath(s, o) == Or(Or(o.queryStart, o.fragmentStart), Len(s))
Pathname(s, o) == Slice(s, o.pathStart, AfterPath(s, o))
Search(s, o) == Trim(Slice(s, AfterPath(s, o), Or(o.fragmentStart, Len(s))))
Hash(s, o) == IF o.fragmentStart = 0 THEN <<>> ELSE Trim(Slice(s, o.fragmentStart, Len(s)))

\* The getter origin of a URL that is not a blob's.
Origin(s, o) ==
    LET scheme == Slice(s, 0, o.schemeEnd) IN
    IF scheme \in {<<"http">>, <<"ws">>} THEN scheme \o <<":", "/", "/">> \o Host(s, o)
    ELSE <<"null">>

-----------------------------------------------------------------------------
NoUrl == [scheme |-> "none", authority |-> FALSE, username |-> <<>>, password |-> <<>>,
          host |-> <<>>, port |-> <<>>, path |-> <<>>, query |-> <<>>, fragment |-> <<>>]
NoWalk == [index |-> 0, visited |-> <<>>, moved |-> FALSE]
NoObject == [serialization |-> NoUrl, offsets |-> Offsets(NoUrl, 0), params |-> <<>>,
             walk |-> NoWalk]

UrlInit ==
    /\ urls = {} /\ object = [u \in Objects |-> NoObject]
    /\ buf = Offsets(NoUrl, 0) /\ slot = <<>>
    /\ stack = <<>> /\ panicked = FALSE

\* User code runs between calls, and in the constructor of a subclass.
UserCode == ~panicked /\ (stack # <<>> => Subclass)

\* One op and the reads after it, with no user code in between.
Apply(op, href) ==
    /\ buf' = op.buf
    /\ slot' = Taken(op.status, op.slot)
    /\ UNCHANGED <<stack, panicked>>

\* The fields of a URL object after an op (#updateComponents).
Fields(op, href, params, walk) ==
    [serialization |-> Serialization(op.status, href, op.slot),
     offsets |-> op.buf, params |-> params, walk |-> walk]

\* A walk over a list that becomes `new': history of whether pairs were moved.
NamesOf(list) == [i \in DOMAIN list |-> list[i].name]
WalkOver(walk, old, new) ==
    IF walk.index = 0 \/ old = <<>> \/ IsPrefix(NamesOf(old[1]), NamesOf(new[1]))
    THEN walk ELSE [walk EXCEPT !.moved = TRUE]

\* new URL(text), also with a base.
ConstructUrl(u, t) ==
    LET op == opUrlParse(t) IN
    /\ UserCode /\ t.status # "invalid"
    /\ object' = [object EXCEPT ![u] = Fields(op, t.url, <<>>, NoWalk)]
    /\ urls' = urls \cup {u}
    /\ Apply(op, t.url)

\* URL.canParse: the slot may stay set.
CanParse(t) ==
    /\ UserCode
    /\ buf' = opUrlParse(t).buf /\ slot' = opUrlParse(t).slot
    /\ UNCHANGED <<urls, object, stack, panicked>>

\* The getter origin of a blob URL constructs a URL of the path, and drops it.
BlobOrigin(u, t) ==
    /\ UserCode /\ u \in urls /\ object[u].serialization.scheme = "blob"
    /\ t.status # "invalid" /\ Apply(opUrlParse(t), t.url)
    /\ UNCHANGED <<urls, object>>

\* URL.parse: the op, then `new this(skipInit)' ...
BeginParse(u, t) ==
    /\ UserCode /\ t.status # "invalid" /\ Len(stack) < MaxDepth
    /\ buf' = opUrlParse(t).buf /\ slot' = opUrlParse(t).slot
    /\ stack' = Append(stack, [object |-> u, text |-> t])
    /\ UNCHANGED <<urls, object, panicked>>

\* ... and, when the constructor has returned, the slot and the buffer.
EndParse ==
    LET u == Last(stack).object
        t == Last(stack).text
    IN
    /\ ~panicked /\ stack # <<>> /\ stack' = Front(stack)
    /\ IF t.status = "changed" /\ slot = <<>>
       THEN panicked' = TRUE /\ UNCHANGED <<urls, object, buf, slot>>
       ELSE /\ object' = [object EXCEPT ![u] =
                    [serialization |-> Serialization(t.status, t.url, slot),
                     offsets |-> buf, params |-> <<>>, walk |-> NoWalk]]
            /\ urls' = urls \cup {u}
            /\ slot' = Taken(t.status, slot)
            /\ UNCHANGED <<buf, panicked>>

-----------------------------------------------------------------------------
(* Setters of URL.                                                          *)

Reparse(u, url, params) ==
    LET href == object[u].serialization
        op == opUrlReparse(href, url)
    IN
    /\ object' = [object EXCEPT ![u] =
          Fields(op, href, params, WalkOver(@.walk, @.params, params))]
    /\ Apply(op, href)
    /\ UNCHANGED urls

\* A setter; one that is refused by the crate throws inside the try block and
\* changes nothing.
Assign(u, url) == UserCode /\ u \in urls /\ Reparse(u, url, object[u].params)

Optional(c) == {<<>>, <<c>>}
SetHash(u) ==
    \E f \in {<<>>, <<<<"text">>>>} :
        Assign(u, [object[u].serialization EXCEPT !.fragment = f])

\* A host with a port, which may be that of the scheme; a URL without an authority
\* refuses both and a file the port.  A host alone is set as by SetHostname.
SetHost(u, host, port) ==
    LET href == object[u].serialization IN
    /\ href.authority /\ href.scheme # "file"
    /\ Assign(u, [href EXCEPT !.host = <<host>>, !.port = port])

SetHostname(u, host) ==
    LET href == object[u].serialization IN
    href.authority /\ Assign(u, [href EXCEPT !.host = <<host>>])

\* User, password and port need a host, and a scheme other than file.
MayHaveUser(url) == url.host # <<>> /\ url.scheme # "file"

SetUsername(u) ==
    LET href == object[u].serialization IN
    MayHaveUser(href) /\ \E c \in Optional("user") : Assign(u, [href EXCEPT !.username = c])
SetPassword(u) ==
    LET href == object[u].serialization IN
    MayHaveUser(href) /\ \E c \in Optional("secret") : Assign(u, [href EXCEPT !.password = c])
SetPort(u, port) ==
    LET href == object[u].serialization IN
    MayHaveUser(href) /\ Assign(u, [href EXCEPT !.port = port])

\* The path of a URL without an authority is opaque.
SetPathname(u, path) ==
    LET href == object[u].serialization IN
    href.authority /\ Assign(u, [href EXCEPT !.path = <<path>>])

SetProtocol(u) ==
    LET href == object[u].serialization IN
    /\ Network(href)
    /\ \E scheme \in {"http", "ws"} : Assign(u, [href EXCEPT !.scheme = scheme])

\* What the list may become of this.search, which slices the text with the offsets
\* the object holds.  If these are another URL's, the slice is some text that names
\* of the model stand for.
SearchLists(url, o) ==
    LET search == Search(Text(url), o) IN
    IF search = Trim(TextOf("?", url.query)) THEN {Pairs(url.query)}
    ELSE IF search = <<>> THEN {<<>>}
    ELSE BoundedSeq(Pair, MaxPairs)

\* #updateSearchParams: the list is refilled, if there is one.
UpdateSearchParams(params, url, o) ==
    IF params = <<>> THEN {<<>>} ELSE {<<list>> : list \in SearchLists(url, o)}

\* Mutation of SetSearch: the list is not refilled.
SetSearch_KeepsParams(u, query) ==
    /\ UserCode /\ u \in urls
    /\ Reparse(u, [object[u].serialization EXCEPT !.query = query], object[u].params)

SetSearch(u, query) ==
    LET href == object[u].serialization
        url == [href EXCEPT !.query = query]
    IN  /\ UserCode /\ u \in urls
        /\ \E params \in UpdateSearchParams(object[u].params, url, opUrlReparse(href, url).buf) :
              Reparse(u, url, params)

\* An invalid text throws before anything is assigned.
SetHref(u, t) ==
    LET op == opUrlParse(t) IN
    /\ UserCode /\ u \in urls /\ t.status # "invalid"
    /\ \E params \in UpdateSearchParams(object[u].params, t.url, op.buf) :
          object' = [object EXCEPT ![u] =
              Fields(op, t.url, params, WalkOver(@.walk, @.params, params))]
    /\ Apply(op, t.url)
    /\ UNCHANGED urls

-----------------------------------------------------------------------------
(* URLSearchParams, of a URL or on their own.                               *)

\* The list of new URLSearchParams(init): a leading "?" of a string is dropped, a
\* sequence must hold pairs, a record gives one pair for each key.
InitList(init) ==
    CASE init.kind = "string" -> Pairs(init.query)
      [] init.kind = "sequence" ->
            [i \in DOMAIN init.pairs |-> [name |-> init.pairs[i][1], value |-> init.pairs[i][2]]]
      [] init.kind = "record" ->
            [i \in DOMAIN init.keys |-> [name |-> init.keys[i], value |-> init.values[init.keys[i]]]]

\* Otherwise the constructor throws.
Acceptable(init) ==
    init.kind = "sequence" => \A i \in DOMAIN init.pairs : Len(init.pairs[i]) = 2

\* Without a URL: the object u has a list, and is not in `urls'.
CreateParams(u, init) ==
    /\ UserCode /\ u \notin urls /\ object[u].params = <<>> /\ Acceptable(init)
    /\ object' = [object EXCEPT ![u].params = <<InitList(init)>>]
    /\ UNCHANGED <<urls, buf, slot, stack, panicked>>

\* The getter searchParams, the first time; new URLSearchParams(this.search).
GetSearchParams(u) ==
    /\ UserCode /\ u \in urls /\ object[u].params = <<>>
    /\ \E list \in SearchLists(object[u].serialization, object[u].offsets) :
          object' = [object EXCEPT ![u].params = <<list>>]
    /\ UNCHANGED <<urls, buf, slot, stack, panicked>>

\* Mutation of UpdateUrlSearch: the offsets are not read again.
UpdateUrlSearch_KeepsOffsets(u, list) ==
    LET href == object[u].serialization
        op == opUrlReparse(href, [href EXCEPT !.query = Stringify(list)])
    IN
    /\ object' = [object EXCEPT
          ![u].serialization = Serialization(op.status, href, op.slot),
          ![u].params = <<list>>]
    /\ Apply(op, href) /\ UNCHANGED urls

\* _updateUrlSearch of the URL, after its list has become `list'.
UpdateUrlSearch(u, list) ==
    Reparse(u, [object[u].serialization EXCEPT !.query = Stringify(list)], <<list>>)

\* The list is changed in place; then #updateUrlSearch.
Change(u, list) ==
    IF u \in urls THEN UpdateUrlSearch(u, list)
    ELSE /\ object' = [object EXCEPT
               ![u].params = <<list>>,
               ![u].walk = WalkOver(object[u].walk, object[u].params, <<list>>)]
         /\ UNCHANGED <<urls, buf, slot, stack, panicked>>

HasList(u) == UserCode /\ object[u].params # <<>>
ListOf(u) == object[u].params[1]

AppendPair(u, name, value) ==
    /\ HasList(u) /\ Len(ListOf(u)) < MaxPairs
    /\ Change(u, Append(ListOf(u), [name |-> name, value |-> value]))

Without(list, name) == Select(list, {p \in Pair : p.name # name})

\* delete, with a value and without.
DeletePair(u, name, value) ==
    HasList(u) /\ Change(u, Select(ListOf(u), Pair \ {[name |-> name, value |-> value]}))
DeleteName(u, name) == HasList(u) /\ Change(u, Without(ListOf(u), name))

\* The first pair of the name gets the value and the others go.
Replaced(list, name, value) ==
    LET pair == [name |-> name, value |-> value]
        named == {i \in DOMAIN list : list[i].name = name}
    IN  IF named = {} THEN Append(list, pair)
        ELSE SubSeq(list, 1, Min(named) - 1) \o <<pair>>
             \o Without(SubSeq(list, Min(named) + 1, Len(list)), name)

SetPair(u, name, value) ==
    /\ HasList(u) /\ Len(Replaced(ListOf(u), name, value)) <= MaxPairs
    /\ Change(u, Replaced(ListOf(u), name, value))

\* Stable: by name, then as before.
Inserted(list, pair) ==
    Select(list, {p \in Pair : p.name <= pair.name}) \o <<pair>>
    \o Select(list, {p \in Pair : p.name > pair.name})
Sorted(list) ==
    LET of[n \in 0 .. Len(list)] == IF n = 0 THEN <<>> ELSE Inserted(of[n - 1], list[n])
    IN  of[Len(list)]

Sort(u) == HasList(u) /\ Change(u, Sorted(ListOf(u)))

\* get, getAll and has.
Get(list, name) ==
    LET named == {i \in DOMAIN list : list[i].name = name}
    IN  IF named = {} THEN <<>> ELSE <<list[Min(named)].value>>
GetAll(list, name) ==
    LET named == Select(list, {p \in Pair : p.name = name})
    IN  [i \in DOMAIN named |-> named[i].value]
HasName(list, name) == \E i \in DOMAIN list : list[i].name = name

-----------------------------------------------------------------------------
(* mixinPairIterable: iterators and forEach.  Between two pairs the list may *)
(* change; the walk goes by index.                                           *)

SetWalk(u, walk) ==
    /\ object' = [object EXCEPT ![u].walk = walk]
    /\ UNCHANGED <<urls, buf, slot, stack, panicked>>

\* entries, keys, values or forEach.
BeginWalk(u) ==
    HasList(u) /\ object[u].walk.index = 0 /\ SetWalk(u, [NoWalk EXCEPT !.index = 1])

\* Mutation of Visit: the pair is read after the index has moved on.
Visit_Late(u) ==
    LET walk == object[u].walk IN
    /\ HasList(u) /\ walk.index \in DOMAIN ListOf(u)
    /\ SetWalk(u, [walk EXCEPT !.index = @ + 1,
           !.visited = IF walk.index = Len(ListOf(u)) THEN @
                       ELSE Append(@, ListOf(u)[walk.index + 1].name)])

\* next, or a round of the loop of forEach.
Visit(u) ==
    LET walk == object[u].walk IN
    /\ HasList(u) /\ walk.index \in DOMAIN ListOf(u)
    /\ SetWalk(u, [walk EXCEPT !.index = @ + 1,
                               !.visited = Append(@, ListOf(u)[walk.index].name)])

EndWalk(u) ==
    HasList(u) /\ object[u].walk.index > Len(ListOf(u)) /\ SetWalk(u, NoWalk)

UrlNext ==
    \/ \E u \in Objects, t \in Texts :
          ConstructUrl(u, t) \/ BlobOrigin(u, t) \/ BeginParse(u, t) \/ SetHref(u, t)
    \/ \E t \in Texts : CanParse(t)
    \/ EndParse
    \/ \E u \in Objects :
          \/ SetHash(u) \/ SetUsername(u) \/ SetPassword(u) \/ SetProtocol(u)
          \/ \E host \in Hosts : SetHostname(u, host)
          \/ \E host \in Hosts, port \in {<<>>, <<"0">>} : SetHost(u, host, port)
          \/ \E port \in {<<>>, <<"0">>} : SetPort(u, port)
          \/ \E path \in Paths : SetPathname(u, path)
          \/ \E q \in Queries : SetSearch(u, q)
          \/ GetSearchParams(u)
          \/ \E i \in Inits : CreateParams(u, i)
          \/ \E n \in Names, v \in Values :
                AppendPair(u, n, v) \/ DeletePair(u, n, v) \/ SetPair(u, n, v)
          \/ \E n \in Names : DeleteName(u, n)
          \/ Sort(u) \/ BeginWalk(u) \/ Visit(u) \/ EndWalk(u)

UrlSpec == UrlInit /\ [][UrlNext]_urlVars

-----------------------------------------------------------------------------
\* The getters slice the serialization with offsets that other calls computed
\* and passed through a shared buffer; they give the components of the URL,
\* with a port 0, no port, and with an empty query or fragment alike.
GettersAgree ==
    \A u \in urls :
        LET url == object[u].serialization
            nonempty(delimiter, option) == Trim(TextOf(delimiter, option))
            s == Text(url)
            o == object[u].offsets
        IN  /\ Protocol(s, o) = <<url.scheme, ":">>
            /\ Username(s, o) = url.username /\ Password(s, o) = url.password
            /\ Hostname(s, o) = url.host /\ Port(s, o) = url.port
            /\ Host(s, o) = url.host \o Wrap(":", url.port)
            /\ Pathname(s, o) = url.path
            /\ Search(s, o) = nonempty("?", url.query) /\ Hash(s, o) = nonempty("#", url.fragment)
            /\ Network(url) => Origin(s, o) = <<url.scheme, ":", "/", "/">> \o Host(s, o)

\* A URL and its searchParams tell the same, whichever of them was changed: the
\* list is what the query of the URL means, and get, getAll and has find in it the
\* segments of the query.
SearchParamsInSync ==
    \A u \in urls :
        object[u].params # <<>> =>
            LET list == ListOf(u)
                query == object[u].serialization.query
                of(n) == IF query = <<>> THEN <<>>
                         ELSE Select(query[1],
                                     {s \in Segment : s.name = n /\ s.spelling # "blank"})
            IN  /\ list = Pairs(query)
                /\ \A n \in Names :
                      /\ GetAll(list, n) = [i \in DOMAIN of(n) |-> of(n)[i].value]
                      /\ Get(list, n) = IF of(n) = <<>> THEN <<>> ELSE <<Head(GetAll(list, n))>>
                      /\ HasName(list, n) <=> of(n) # <<>>

\* A walk that has come to the end of the list has visited every pair once, in
\* order, those appended meanwhile included, unless a change took pairs away or
\* moved them.
WalkIsComplete ==
    \A u \in Objects :
        object[u].params # <<>> /\ object[u].walk.index > Len(ListOf(u))
            /\ ~object[u].walk.moved
        => object[u].walk.visited = NamesOf(ListOf(u))

\* What url.rs says: a caller whose status is OkSerialization gets the
\* serialization of the URL it parsed.
OwnSerialization ==
    stack # <<>> /\ Last(stack).text.status = "changed" => slot = <<Last(stack).text.url>>
=============================================================================
